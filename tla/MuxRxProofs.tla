----------------------------- MODULE MuxRxProofs -----------------------------
(***************************************************************************)
(* Proofs about MuxRx for every set of receivers and every modulus larger  *)
(* than it. The device of the ordering theorems repeats nothing, which     *)
(* they say as MaxDup = 0: a repetition that is a whole lap of the         *)
(* sequence numbers old cannot be told from the next packet.               *)
(***************************************************************************)
EXTENDS MuxRx, FiniteSetTheorems, TLAPS

-----------------------------------------------------------------------------
(* Arithmetic of sequence numbers. *)

\* Quotient and remainder are unique: what makes a % SeqMod usable at all.
LEMMA QuotientUnique ==
  ASSUME NEW m \in Nat \ {0}, NEW q \in Int, NEW s \in Int,
         NEW x \in 0 .. m - 1, NEW y \in 0 .. m - 1,
         (m * q) + x = (m * s) + y
  PROVE  q = s /\ x = y
<1> SUFFICES ASSUME q # s PROVE FALSE
  OBVIOUS
<1>1. CASE q >= s + 1
  <2>1. m * q >= m * (s + 1)
    BY <1>1
  <2>2. m * (s + 1) = (m * s) + m
    OBVIOUS
  <2> QED
    BY <2>1, <2>2
<1>2. CASE s >= q + 1
  <2>1. m * s >= m * (q + 1)
    BY <1>2
  <2>2. m * (q + 1) = (m * q) + m
    OBVIOUS
  <2> QED
    BY <2>1, <2>2
<1> QED
  BY <1>1, <1>2

\* Going d numbers on, at most one lap, wraps at most once (the uint16_t
\* conversions of USBDevice.cpp:397-398).
LEMMA ModStep ==
  ASSUME NEW m \in Nat \ {0}, NEW a \in Nat, NEW d \in 0 .. m
  PROVE  /\ a % m \in 0 .. m - 1
         /\ (a + d) % m = IF (a % m) + d < m THEN (a % m) + d
                                             ELSE (a % m) + d - m
<1> DEFINE q == a \div m
           s == (a + d) \div m
           x == a % m
           y == (a + d) % m
<1>1. q \in Nat /\ s \in Nat /\ x \in 0 .. m - 1 /\ y \in 0 .. m - 1
  OBVIOUS
<1>2. a = (m * q) + x
  OBVIOUS
<1>3. a + d = (m * s) + y
  <2>1. a + d \in Nat
    OBVIOUS
  <2> QED
    BY <2>1
<1> HIDE DEF q, s, x, y
<1>4. CASE x + d < m
  <2>1. x + d \in 0 .. m - 1
    BY <1>1, <1>4
  <2>2. (m * q) + (x + d) = (m * s) + y
    BY <1>1, <1>2, <1>3
  <2>3. x + d = y
    BY <1>1, <2>1, <2>2, QuotientUnique
  <2> QED
    BY <1>1, <1>4, <2>3 DEF x, y
<1>5. CASE ~(x + d < m)
  <2> DEFINE p == q + 1
             z == x + d - m
  <2>1. p \in Int /\ z \in 0 .. m - 1
    BY <1>1, <1>5
  <2>2. m * p = (m * q) + m
    BY <1>1
  <2>3. (m * p) + z = (m * s) + y
    BY <1>1, <1>2, <1>3, <2>2
  <2> HIDE DEF p, z
  <2>4. z = y
    BY <1>1, <2>1, <2>3, QuotientUnique
  <2> QED
    BY <1>1, <1>5, <2>4 DEF x, y, z
<1> QED
  BY <1>4, <1>5

\* Within less than one lap a sequence number determines the packet.
LEMMA SameSeqSamePacket ==
  ASSUME NEW m \in Nat \ {0}, NEW a \in Nat, NEW d \in 0 .. m - 1,
         (a + d) % m = a % m
  PROVE  d = 0
<1>1. a % m \in 0 .. m - 1
  BY ModStep
<1>2. (a + d) % m = IF (a % m) + d < m THEN (a % m) + d ELSE (a % m) + d - m
  <2>1. d \in 0 .. m
    OBVIOUS
  <2> QED
    BY <2>1, ModStep
<1> QED
  BY <1>1, <1>2

-----------------------------------------------------------------------------
(* Constants and types. *)

\* The number of receivers is positive and below the modulus.
LEMMA NType ==
  /\ N \in Nat \ {0}
  /\ SeqMod \in Nat \ {0}
  /\ N < SeqMod
<1>1. N \in Nat
  BY ReceiversAssumption, FS_CardinalityType DEF N
<1>2. N # 0
  BY ReceiversAssumption, FS_EmptySet DEF N
<1> QED
  BY <1>1, <1>2, SeqModAssumption DEF N

\* Every wire sequence number fits its field.
LEMMA TxSeqType ==
  ASSUME NEW p \in Packet
  PROVE  TxSeq(p) \in 0 .. SeqMod - 1
  BY NType DEF TxSeq, Packet

\* Type correctness of the receive path (USBDevice.cpp:369-496).
THEOREM TypeCorrect == Spec => []TypeOK
<1>1. Init => TypeOK
  BY NType DEF Init, TypeOK, Packet
<1>2. TypeOK /\ [Next]_vars => TypeOK'
  <2> SUFFICES ASSUME TypeOK, [Next]_vars
               PROVE  TypeOK'
    OBVIOUS
  <2>1. ASSUME NEW kind \in Kinds, DeviceSend(kind)
        PROVE  TypeOK'
    <3>1. [num |-> sent, kind |-> kind] \in Packet
      BY KindsAssumption DEF TypeOK, Packet
    <3> QED
      BY <2>1, <3>1 DEF DeviceSend, TypeOK
  <2>2. ASSUME NEW num \in 0 .. sent - 1, DeviceRepeat(num)
        PROVE  TypeOK'
    <3>1. [num |-> num, kind |-> Whole] \in Packet
      BY DEF TypeOK, Packet
    <3> QED
      BY <2>2, <3>1 DEF DeviceRepeat, TypeOK
  <2>3. ASSUME NEW r \in Receivers, Arrive(r)
        PROVE  TypeOK'
    <3>1. Head(arrived) \in Packet /\ Tail(arrived) \in Seq(Packet)
      BY <2>3 DEF Arrive, TypeOK
    <3> QED
      BY <2>3, <3>1 DEF Arrive, TypeOK
  <2>4. ASSUME NEW r \in Receivers, RejectLength(r)
        PROVE  TypeOK'
    BY <2>4 DEF RejectLength, TypeOK
  <2>5. ASSUME NEW r \in Receivers, Defer(r)
        PROVE  TypeOK'
    BY <2>5 DEF Defer, TypeOK
  <2>6. ASSUME NEW r \in Receivers, Accept(r)
        PROVE  TypeOK'
    <3>1. pkt[r] \in Packet /\ pkt[r].num \in Nat
      BY DEF TypeOK, Packet
    <3>2. rx_seq' \in 0 .. SeqMod - 1
      BY <2>6, <3>1, TxSeqType DEF Accept
    <3> QED
      BY <2>6, <3>1, <3>2 DEF Accept, TypeOK
  <2>7. ASSUME NEW r \in Receivers, Discard(r)
        PROVE  TypeOK'
    <3>1. pkt[r].num \in Nat
      BY DEF TypeOK, Packet
    <3>2. dropped' \subseteq Nat
      BY <2>7, <3>1 DEF Discard, TypeOK
    <3>3. submitted' \in Int /\ sleeping' \subseteq Receivers
      BY <2>7 DEF Discard, TypeOK
    <3>4. pc' \in [Receivers -> {"idle", "input", "wait", "dispatch", "ended"}]
      BY <2>7 DEF Discard, TypeOK
    <3> QED
      BY <2>7, <3>2, <3>3, <3>4 DEF Discard, TypeOK
  <2>8. ASSUME NEW r \in Receivers, Dispatch(r)
        PROVE  TypeOK'
    BY <2>8 DEF Dispatch, TypeOK
  <2>9. ASSUME NEW r \in Receivers, DispatchThrows(r)
        PROVE  TypeOK'
    BY <2>9 DEF DispatchThrows, TypeOK
  <2>10. CASE UNCHANGED vars
    BY <2>10 DEF vars, TypeOK
  <2> QED
    BY <2>1, <2>2, <2>3, <2>4, <2>5, <2>6, <2>7, <2>8, <2>9, <2>10
    DEF Next, Device, Process
<1> QED
  BY <1>1, <1>2, PTL DEF Spec

-----------------------------------------------------------------------------
(***************************************************************************)
(* The order of packets. The inductive invariant counts: the packets that  *)
(* left _arrived_xfer and were not taken over are held by distinct         *)
(* receivers, so there are at most N of them, and N < SeqMod makes their   *)
(* sequence numbers distinct.                                              *)
(***************************************************************************)

\* Packets that left _arrived_xfer.
Taken == sent - Len(arrived)

\* The receivers whose packet has left the queue and was not taken over; one
\* that rejected its packet for its length stays here for ever.
Pending == {r \in Receivers : \/ pc[r] \in {"input", "wait"}
                              \/ pc[r] = "ended" /\ pkt[r].kind = Torn}

QueueInOrder ==
  \A i \in 1 .. Len(arrived) : arrived[i].num = Taken + i - 1

PendingInRange ==
  \A r \in Pending : pkt[r].num \in Len(accepted) .. Taken - 1

PendingDistinct ==
  \A r, s \in Pending : pkt[r].num = pkt[s].num => r = s

PendingCounted == Taken = Len(accepted) + Cardinality(Pending)

RxSeqCurrent == NextSeq = Len(accepted) % SeqMod

OrderInv ==
  /\ TypeOK
  /\ dups = 0
  /\ dropped = {}
  /\ AcceptedInOrder
  /\ QueueInOrder
  /\ PendingInRange
  /\ PendingDistinct
  /\ PendingCounted
  /\ RxSeqCurrent

\* At most N packets are between the queue and the taken-over ones.
LEMMA PendingBound ==
  ASSUME OrderInv
  PROVE  /\ IsFiniteSet(Pending)
         /\ Cardinality(Pending) \in 0 .. N
         /\ \A r \in Pending :
              /\ pkt[r].num \in Nat
              /\ pkt[r].num - Len(accepted) \in 0 .. N - 1
<1>1. Pending \subseteq Receivers
  BY DEF Pending
<1>2. /\ IsFiniteSet(Pending)
      /\ Cardinality(Pending) <= N
  BY <1>1, ReceiversAssumption, FS_Subset DEF N
<1>3. Cardinality(Pending) \in Nat
  BY <1>2, FS_CardinalityType
<1>4. Cardinality(Pending) \in 0 .. N
  BY <1>2, <1>3, NType
<1>5. Len(accepted) \in Nat
  BY DEF OrderInv, TypeOK
<1>6. ASSUME NEW r \in Pending
      PROVE  pkt[r].num - Len(accepted) \in 0 .. N - 1 /\ pkt[r].num \in Nat
  <2>1. pkt[r].num \in Len(accepted) .. Taken - 1
    BY <1>6 DEF OrderInv, PendingInRange
  <2>2. Taken = Len(accepted) + Cardinality(Pending)
    BY DEF OrderInv, PendingCounted
  <2> QED
    BY <1>4, <1>5, <2>1, <2>2, NType
<1> QED
  BY <1>2, <1>4, <1>6

\* A receiver that gets past the loop with the right number holds the oldest
\* packet that was not taken over (USBDevice.cpp:405-409).
LEMMA AcceptTakesOldest ==
  ASSUME OrderInv, NEW r \in Pending, NextSeq = TxSeq(pkt[r])
  PROVE  pkt[r].num = Len(accepted)
<1> DEFINE a == Len(accepted)
           d == pkt[r].num - a
<1>1. a \in Nat
  BY DEF OrderInv, TypeOK
<1>2. d \in 0 .. SeqMod - 1 /\ pkt[r].num = a + d
  BY <1>1, PendingBound, NType
<1>3. (a + d) % SeqMod = a % SeqMod
  BY <1>2 DEF OrderInv, RxSeqCurrent, TxSeq
<1> HIDE DEF d
<1>4. d = 0
  BY <1>1, <1>2, <1>3, NType, SameSeqSamePacket
<1> QED
  BY <1>1, <1>2, <1>4

\* A packet that overtook older ones always waits: the second comparison of
\* the loop condition covers the overtaking that crosses the wrap
\* (USBDevice.cpp:398).
LEMMA OvertakerWaits ==
  ASSUME OrderInv, NEW r \in Pending, NextSeq # TxSeq(pkt[r])
  PROVE  MustWait(TxSeq(pkt[r]))
<1> DEFINE a == Len(accepted)
           d == pkt[r].num - a
           e == a % SeqMod
<1>1. a \in Nat /\ SeqMod \in Nat \ {0} /\ N \in Nat \ {0} /\ N < SeqMod
  BY NType DEF OrderInv, TypeOK
<1>2. d \in 0 .. N - 1 /\ pkt[r].num = a + d
  BY <1>1, PendingBound
<1>3. e \in 0 .. SeqMod - 1
  BY <1>1
<1>4. NextSeq = e
  BY DEF OrderInv, RxSeqCurrent
<1>5. TxSeq(pkt[r]) = IF e + d < SeqMod THEN e + d ELSE e + d - SeqMod
  <2>1. TxSeq(pkt[r]) = (a + d) % SeqMod
    BY <1>2 DEF TxSeq
  <2>2. d \in 0 .. SeqMod
    BY <1>1, <1>2
  <2> HIDE DEF d
  <2>3. (a + d) % SeqMod = IF (a % SeqMod) + d < SeqMod
                             THEN (a % SeqMod) + d
                             ELSE (a % SeqMod) + d - SeqMod
    BY <1>1, <2>2, ModStep
  <2> QED
    BY <2>1, <2>3
<1>6. (rx_seq + 1 + N) % SeqMod = IF e + N < SeqMod THEN e + N
                                                  ELSE e + N - SeqMod
  <2> DEFINE b == rx_seq + 1
  <2>1. b \in Nat /\ N \in 0 .. SeqMod
    BY <1>1 DEF OrderInv, TypeOK
  <2>2. b % SeqMod = e
    BY <1>4 DEF NextSeq
  <2> HIDE DEF b, e
  <2>3. (b + N) % SeqMod = IF (b % SeqMod) + N < SeqMod
                             THEN (b % SeqMod) + N
                             ELSE (b % SeqMod) + N - SeqMod
    BY <1>1, <2>1, ModStep
  <2>4. (b + N) % SeqMod = IF e + N < SeqMod THEN e + N ELSE e + N - SeqMod
    BY <2>2, <2>3
  <2> QED
    BY <2>4 DEF b
<1> HIDE DEF e, d, a
<1>7. d # 0
  <2>1. ASSUME d = 0 PROVE TxSeq(pkt[r]) = e
    BY <1>1, <1>3, <1>5, <2>1
  <2> QED
    BY <1>4, <2>1
<1>8. CASE e + d < SeqMod
  <2>1. e < TxSeq(pkt[r])
    BY <1>2, <1>3, <1>5, <1>7, <1>8, <1>1
  <2> QED
    BY <1>4, <2>1 DEF MustWait
<1>9. CASE ~(e + d < SeqMod)
  <2>1. TxSeq(pkt[r]) = e + d - SeqMod
    BY <1>5, <1>9
  <2>2. (rx_seq + 1 + N) % SeqMod = e + N - SeqMod
    BY <1>1, <1>2, <1>3, <1>6, <1>9
  <2>3. e + N - SeqMod < e + d - SeqMod + N
    BY <1>1, <1>2, <1>3, <1>7
  <2> QED
    BY <2>1, <2>2, <2>3 DEF MustWait
<1> QED
  BY <1>8, <1>9

\* No fresh packet is ever discarded as a duplicate.
LEMMA NothingDiscarded ==
  ASSUME OrderInv, NEW r \in Receivers
  PROVE  ~Discard(r)
<1> SUFFICES ASSUME Discard(r) PROVE FALSE
  OBVIOUS
<1>1. r \in Pending
  BY DEF Discard, Proceeds, Pending
<1>2. NextSeq # TxSeq(pkt[r]) /\ ~MustWait(TxSeq(pkt[r]))
  BY DEF Discard, Proceeds
<1> QED
  BY <1>1, <1>2, OvertakerWaits

\* The invariant survives a receiver that takes a packet from the queue.
LEMMA ArriveKeepsOrder ==
  ASSUME OrderInv, TypeOK', NEW r \in Receivers, Arrive(r)
  PROVE  OrderInv'
<1>1. /\ dups' = 0 /\ dropped' = {} /\ accepted' = accepted /\ sent' = sent
      /\ rx_seq' = rx_seq
      /\ arrived # << >> /\ arrived' = Tail(arrived)
      /\ arrived \in Seq(Packet) /\ sent \in Nat /\ Len(accepted) \in Nat
      /\ pc \in [Receivers -> {"idle", "input", "wait", "dispatch", "ended"}]
      /\ pkt \in [Receivers -> Packet]
  BY DEF Arrive, OrderInv, TypeOK
<1>2. Len(arrived) \in Nat \ {0} /\ Len(arrived') = Len(arrived) - 1
  BY <1>1
<1>3. Taken' = Taken + 1 /\ Taken \in Int
  BY <1>1, <1>2 DEF Taken
<1>4. /\ r \notin Pending
      /\ Pending' = Pending \cup {r}
      /\ pkt'[r] = Head(arrived)
      /\ \A s \in Pending : pkt'[s] = pkt[s]
  BY <1>1 DEF Arrive, Pending
<1>5. pkt'[r].num = Taken
  <2>1. arrived[1].num = Taken + 1 - 1
    BY <1>2 DEF OrderInv, QueueInOrder
  <2> QED
    BY <1>1, <1>3, <1>4, <2>1
<1>6. QueueInOrder'
  <2> SUFFICES ASSUME NEW i \in 1 .. Len(arrived')
               PROVE  arrived'[i].num = Taken' + i - 1
    BY DEF QueueInOrder
  <2>1. i + 1 \in 1 .. Len(arrived) /\ arrived'[i] = arrived[i + 1]
    BY <1>1, <1>2
  <2>2. arrived[i + 1].num = Taken + (i + 1) - 1
    BY <2>1 DEF OrderInv, QueueInOrder
  <2> QED
    BY <1>2, <1>3, <2>1, <2>2
<1>7. IsFiniteSet(Pending) /\ Cardinality(Pending) \in Nat
      /\ Taken = Len(accepted) + Cardinality(Pending)
      /\ \A s \in Pending : pkt[s].num \in Len(accepted) .. Taken - 1
  BY PendingBound DEF OrderInv, PendingCounted, PendingInRange
<1>8. PendingCounted'
  <2>1. Cardinality(Pending') = Cardinality(Pending) + 1
    BY <1>4, <1>7, FS_AddElement
  <2> QED
    BY <1>1, <1>3, <1>7, <2>1 DEF PendingCounted
<1>9. PendingInRange'
  <2> SUFFICES ASSUME NEW s \in Pending'
               PROVE  pkt'[s].num \in Len(accepted') .. Taken' - 1
    BY DEF PendingInRange
  <2>1. CASE s = r
    BY <1>1, <1>3, <1>5, <1>7, <2>1
  <2>2. CASE s \in Pending
    BY <1>1, <1>3, <1>4, <1>7, <2>2
  <2> QED
    BY <1>4, <2>1, <2>2
<1>10. PendingDistinct'
  <2>1. \A s \in Pending : pkt'[s].num < Taken
    BY <1>1, <1>3, <1>4, <1>7
  <2>2. \A s, t \in Pending : pkt'[s].num = pkt'[t].num => s = t
    BY <1>4 DEF OrderInv, PendingDistinct
  <2>3. \A s \in Pending : pkt'[s].num # pkt'[r].num
    BY <1>3, <1>5, <1>7, <2>1, <1>4
  <2> QED
    BY <1>4, <2>2, <2>3 DEF PendingDistinct
<1>11. RxSeqCurrent' /\ AcceptedInOrder'
  BY <1>1 DEF OrderInv, RxSeqCurrent, NextSeq, AcceptedInOrder
<1> QED
  BY <1>1, <1>6, <1>8, <1>9, <1>10, <1>11 DEF OrderInv

\* ... one that takes over the next packet,
LEMMA AcceptKeepsOrder ==
  ASSUME OrderInv, TypeOK', NEW r \in Receivers, Accept(r)
  PROVE  OrderInv'
<1>1. /\ dups' = 0 /\ dropped' = {} /\ sent' = sent /\ arrived' = arrived
      /\ pkt' = pkt /\ rx_seq' = TxSeq(pkt[r])
      /\ accepted' = Append(accepted, pkt[r].num)
      /\ accepted \in Seq(Nat) /\ Len(accepted) \in Nat
      /\ pc \in [Receivers -> {"idle", "input", "wait", "dispatch", "ended"}]
  BY DEF Accept, OrderInv, TypeOK
<1>2. /\ r \in Pending
      /\ Pending' = Pending \ {r}
  BY <1>1 DEF Accept, Proceeds, Pending
<1>3. pkt[r].num = Len(accepted)
  BY <1>2, AcceptTakesOldest DEF Accept
<1>4. Len(accepted') = Len(accepted) + 1
  BY <1>1
<1>5. Taken' = Taken
  BY <1>1 DEF Taken
<1>6. QueueInOrder'
  BY <1>1, <1>5 DEF OrderInv, QueueInOrder
<1>7. AcceptedInOrder'
  <2> SUFFICES ASSUME NEW i \in 1 .. Len(accepted')
               PROVE  accepted'[i] = i - 1
    BY DEF AcceptedInOrder
  <2>1. CASE i \in 1 .. Len(accepted)
    BY <1>1, <2>1 DEF OrderInv, AcceptedInOrder
  <2>2. CASE i = Len(accepted) + 1
    BY <1>1, <1>3, <2>2
  <2> QED
    BY <1>1, <1>4, <2>1, <2>2
<1>8. PendingInRange'
  <2> SUFFICES ASSUME NEW s \in Pending, s # r
               PROVE  pkt[s].num \in Len(accepted) + 1 .. Taken - 1
    BY <1>1, <1>2, <1>4, <1>5 DEF PendingInRange
  <2>1. pkt[s].num \in Len(accepted) .. Taken - 1
    BY DEF OrderInv, PendingInRange
  <2>2. pkt[s].num # pkt[r].num
    BY <1>2 DEF OrderInv, PendingDistinct
  <2> QED
    BY <1>1, <1>3, <2>1, <2>2
<1>9. PendingDistinct'
  BY <1>1, <1>2 DEF OrderInv, PendingDistinct
<1>10. PendingCounted'
  <2>1. IsFiniteSet(Pending) /\ Cardinality(Pending) \in Nat
    BY PendingBound
  <2>2. Cardinality(Pending') = Cardinality(Pending) - 1
    BY <1>2, <2>1, FS_RemoveElement
  <2>3. Taken = Len(accepted) + Cardinality(Pending)
    BY DEF OrderInv, PendingCounted
  <2> QED
    BY <1>1, <1>4, <1>5, <2>1, <2>2, <2>3 DEF PendingCounted
<1>11. RxSeqCurrent'
  <2> DEFINE a == Len(accepted)
  <2>1. rx_seq' = a % SeqMod /\ rx_seq' \in 0 .. SeqMod - 1
    BY <1>1, <1>3 DEF TxSeq, TypeOK
  <2>2. /\ a \in Nat /\ 1 \in 0 .. SeqMod /\ SeqMod \in Nat \ {0}
        /\ rx_seq' \in Nat
    BY <1>1, <2>1, NType
  <2>3. (a + 1) % SeqMod = IF (a % SeqMod) + 1 < SeqMod
                             THEN (a % SeqMod) + 1
                             ELSE (a % SeqMod) + 1 - SeqMod
    BY <2>2, ModStep
  <2>4. (rx_seq' + 1) % SeqMod = IF (rx_seq' % SeqMod) + 1 < SeqMod
                                   THEN (rx_seq' % SeqMod) + 1
                                   ELSE (rx_seq' % SeqMod) + 1 - SeqMod
    BY <2>2, ModStep
  <2>5. rx_seq' % SeqMod = rx_seq'
    BY <2>1, <2>2
  <2> QED
    BY <1>4, <2>1, <2>3, <2>4, <2>5 DEF RxSeqCurrent, NextSeq
<1> QED
  BY <1>1, <1>6, <1>7, <1>8, <1>9, <1>10, <1>11 DEF OrderInv

\* ... a device that fills one more transfer,
LEMMA SendKeepsOrder ==
  ASSUME OrderInv, TypeOK', NEW kind \in Kinds, DeviceSend(kind)
  PROVE  OrderInv'
<1>1. /\ dups' = 0 /\ dropped' = {} /\ accepted' = accepted
      /\ rx_seq' = rx_seq /\ pkt' = pkt /\ pc' = pc
      /\ sent \in Nat /\ sent' = sent + 1
      /\ arrived \in Seq(Packet) /\ Len(arrived) \in Nat
      /\ arrived' = Append(arrived, [num |-> sent, kind |-> kind])
  BY DEF DeviceSend, OrderInv, TypeOK
<1>2. Len(arrived') = Len(arrived) + 1 /\ Taken' = Taken
  BY <1>1 DEF Taken
<1>3. Pending' = Pending
  BY <1>1 DEF Pending
<1>4. QueueInOrder'
  <2> SUFFICES ASSUME NEW i \in 1 .. Len(arrived')
               PROVE  arrived'[i].num = Taken + i - 1
    BY <1>2 DEF QueueInOrder
  <2>1. CASE i \in 1 .. Len(arrived)
    BY <1>1, <2>1 DEF OrderInv, QueueInOrder
  <2>2. CASE i = Len(arrived) + 1
    BY <1>1, <2>2 DEF Taken
  <2> QED
    BY <1>1, <1>2, <2>1, <2>2
<1>5. PendingInRange' /\ PendingDistinct' /\ PendingCounted'
  BY <1>1, <1>2, <1>3
  DEF OrderInv, PendingInRange, PendingDistinct, PendingCounted
<1>6. RxSeqCurrent' /\ AcceptedInOrder'
  BY <1>1 DEF OrderInv, RxSeqCurrent, NextSeq, AcceptedInOrder
<1> QED
  BY <1>1, <1>4, <1>5, <1>6 DEF OrderInv

\* ... and every step that neither moves a packet nor takes one over.
LEMMA FrameKeepsOrder ==
  ASSUME OrderInv, TypeOK', Pending' = Pending,
         UNCHANGED <<sent, dups, arrived, pkt, rx_seq, accepted, dropped>>
  PROVE  OrderInv'
<1>1. Taken' = Taken
  BY DEF Taken
<1>2. QueueInOrder' /\ PendingInRange' /\ PendingDistinct' /\ PendingCounted'
  BY <1>1 DEF OrderInv, QueueInOrder, PendingInRange, PendingDistinct,
              PendingCounted
<1>3. RxSeqCurrent' /\ AcceptedInOrder'
  BY DEF OrderInv, RxSeqCurrent, NextSeq, AcceptedInOrder
<1> QED
  BY <1>2, <1>3 DEF OrderInv

\* The ordering invariant, for a device that repeats nothing.
THEOREM OrderInvariant == (MaxDup = 0) => (Spec => []OrderInv)
<1> SUFFICES ASSUME MaxDup = 0 PROVE Spec => []OrderInv
  OBVIOUS
<1>1. Init => OrderInv
  <2> SUFFICES ASSUME Init PROVE OrderInv
    OBVIOUS
  <2>1. TypeOK
    BY NType DEF Init, TypeOK, Packet
  <2>2. Pending = {}
    BY DEF Init, Pending
  <2>3. Len(arrived) = 0 /\ Len(accepted) = 0 /\ sent = 0 /\ Taken = 0
    <3>1. arrived = << >> /\ accepted = << >> /\ sent = 0
      BY DEF Init
    <3>2. Len(arrived) = 0 /\ Len(accepted) = 0
      BY <3>1
    <3>3. sent = 0
      BY <3>1
    <3>4. Taken = 0
      BY <3>2, <3>3 DEF Taken
    <3> QED
      BY <3>2, <3>3, <3>4
  <2>4. PendingCounted
    BY <2>2, <2>3, FS_EmptySet DEF PendingCounted
  <2>5. AcceptedInOrder /\ QueueInOrder /\ PendingInRange /\ PendingDistinct
    BY <2>2, <2>3 DEF AcceptedInOrder, QueueInOrder, PendingInRange,
                      PendingDistinct
  <2>6. RxSeqCurrent
    <3>1. rx_seq + 1 = SeqMod
      BY NType DEF Init
    <3>2. SeqMod % SeqMod = 0 /\ 0 % SeqMod = 0
      BY NType
    <3> QED
      BY <2>3, <3>1, <3>2 DEF RxSeqCurrent, NextSeq
  <2> QED
    BY <2>1, <2>4, <2>5, <2>6 DEF OrderInv, Init
<1>2. OrderInv /\ TypeOK' /\ [Next]_vars => OrderInv'
  <2> SUFFICES ASSUME OrderInv, TypeOK', [Next]_vars
               PROVE  OrderInv'
    OBVIOUS
  <2>1. ASSUME NEW kind \in Kinds, DeviceSend(kind)
        PROVE  OrderInv'
    BY <2>1, SendKeepsOrder
  <2>2. ASSUME NEW num \in 0 .. sent - 1, DeviceRepeat(num)
        PROVE  OrderInv'
    BY <2>2 DEF DeviceRepeat, OrderInv
  <2>3. ASSUME NEW r \in Receivers, Arrive(r)
        PROVE  OrderInv'
    BY <2>3, ArriveKeepsOrder
  <2>4. ASSUME NEW r \in Receivers, RejectLength(r)
        PROVE  OrderInv'
    <3>1. Pending' = Pending
      BY <2>4 DEF RejectLength, Pending, OrderInv, TypeOK
    <3> QED
      BY <2>4, <3>1, FrameKeepsOrder DEF RejectLength
  <2>5. ASSUME NEW r \in Receivers, Defer(r)
        PROVE  OrderInv'
    <3>1. Pending' = Pending
      BY <2>5 DEF Defer, Defers, Pending, OrderInv, TypeOK
    <3> QED
      BY <2>5, <3>1, FrameKeepsOrder DEF Defer
  <2>6. ASSUME NEW r \in Receivers, Accept(r)
        PROVE  OrderInv'
    BY <2>6, AcceptKeepsOrder
  <2>7. ASSUME NEW r \in Receivers, Discard(r)
        PROVE  OrderInv'
    BY <2>7, NothingDiscarded
  <2>8. ASSUME NEW r \in Receivers, Dispatch(r)
        PROVE  OrderInv'
    <3>1. Pending' = Pending
      BY <2>8 DEF Dispatch, Pending, OrderInv, TypeOK
    <3> QED
      BY <2>8, <3>1, FrameKeepsOrder DEF Dispatch
  <2>9. ASSUME NEW r \in Receivers, DispatchThrows(r)
        PROVE  OrderInv'
    <3>1. Pending' = Pending
      BY <2>9 DEF DispatchThrows, Pending, OrderInv, TypeOK, Odd, Torn
    <3> QED
      BY <2>9, <3>1, FrameKeepsOrder DEF DispatchThrows
  <2>10. CASE UNCHANGED vars
    <3>1. Pending' = Pending
      BY <2>10 DEF vars, Pending
    <3> QED
      BY <2>10, <3>1, FrameKeepsOrder DEF vars
  <2> QED
    BY <2>1, <2>2, <2>3, <2>4, <2>5, <2>6, <2>7, <2>8, <2>9, <2>10
    DEF Next, Device, Process
<1> QED
  BY <1>1, <1>2, TypeCorrect, PTL DEF Spec

\* Packets are taken over in the order they were sent, each once, for any
\* number of receivers below the modulus (USBDevice.cpp:397-409).
THEOREM InOrder == (MaxDup = 0) => (Spec => []AcceptedInOrder)
<1>1. OrderInv => AcceptedInOrder
  BY DEF OrderInv
<1> QED
  BY <1>1, OrderInvariant, PTL

\* Nothing but a duplicate is ever discarded (USBDevice.cpp:405-408).
THEOREM NoFreshPacketDropped == (MaxDup = 0) => (Spec => []DroppedOnlyDuplicates)
<1>1. OrderInv => DroppedOnlyDuplicates
  BY DEF OrderInv, DroppedOnlyDuplicates
<1> QED
  BY <1>1, OrderInvariant, PTL

\* The receive path implements the ordered link: a step of it sends one
\* packet, takes over the oldest one, or changes nothing the link shows.
THEOREM ImplementsLink == (MaxDup = 0) => (Spec => LinkSpec)
<1> SUFFICES ASSUME MaxDup = 0 PROVE Spec => LinkSpec
  OBVIOUS
<1>1. Init => Link!Init
  BY DEF Init, Link!Init
<1>2. OrderInv /\ [Next]_vars => [Link!Next]_(Link!linkVars)
  <2> SUFFICES ASSUME OrderInv, [Next]_vars
               PROVE  [Link!Next]_(Link!linkVars)
    OBVIOUS
  <2> USE DEF Link!linkVars
  <2>1. ASSUME NEW kind \in Kinds, DeviceSend(kind)
        PROVE  Link!Send
    BY <2>1 DEF DeviceSend, Link!Send
  <2>2. ASSUME NEW r \in Receivers, Accept(r)
        PROVE  Link!Take
    <3>1. r \in Pending
      BY <2>2 DEF Accept, Proceeds, Pending
    <3>2. pkt[r].num = Len(accepted)
      BY <2>2, <3>1, AcceptTakesOldest DEF Accept
    <3>3. pkt[r].num <= Taken - 1 /\ Len(accepted) \in Nat
      BY <3>1 DEF OrderInv, PendingInRange, TypeOK
    <3>4. Taken <= sent /\ Taken \in Int /\ sent \in Nat
      BY DEF Taken, OrderInv, TypeOK
    <3> QED
      BY <2>2, <3>2, <3>3, <3>4 DEF Accept, Link!Take
  <2>3. ASSUME NEW r \in Receivers,
               Arrive(r) \/ RejectLength(r) \/ Defer(r) \/ Dispatch(r)
                 \/ DispatchThrows(r)
        PROVE  UNCHANGED Link!linkVars
    BY <2>3 DEF Arrive, RejectLength, Defer, Dispatch, DispatchThrows
  <2>4. ASSUME NEW num \in 0 .. sent - 1, DeviceRepeat(num)
        PROVE  UNCHANGED Link!linkVars
    BY <2>4 DEF DeviceRepeat
  <2>5. ASSUME NEW r \in Receivers, Discard(r)
        PROVE  UNCHANGED Link!linkVars
    BY <2>5 DEF Discard
  <2>6. CASE UNCHANGED vars
    BY <2>6 DEF vars
  <2> QED
    BY <2>1, <2>2, <2>3, <2>4, <2>5, <2>6 DEF Next, Device, Process, Link!Next
<1> QED
  BY <1>1, <1>2, OrderInvariant, PTL DEF Spec, LinkSpec, Link!Spec

-----------------------------------------------------------------------------
(* Below the wrap nobody sleeps on the next packet. *)

\* What a sleeper holds overtook something.
SleepInv ==
  /\ sent <= MaxPkts
  /\ sleeping \subseteq Pending
  /\ \A r \in sleeping : pkt[r].num # Len(accepted)

\* As long as no number is truncated, who holds the next packet does not wait
\* (USBDevice.cpp:397-398).
LEMMA NextNeverWaits ==
  ASSUME OrderInv, sent <= MaxPkts, MaxPkts + N <= SeqMod,
         NEW r \in Pending, pkt[r].num = Len(accepted)
  PROVE  NextSeq = TxSeq(pkt[r]) /\ ~MustWait(TxSeq(pkt[r]))
<1> DEFINE a == Len(accepted)
           b == rx_seq + 1
<1>1. /\ a \in Nat /\ b \in Nat /\ SeqMod \in Nat \ {0} /\ N \in Nat \ {0}
      /\ N \in 0 .. SeqMod /\ sent \in Nat /\ Len(arrived) \in Nat /\ MaxPkts \in Nat
  BY NType, BoundsAssumption DEF OrderInv, TypeOK
<1>2. a + N < SeqMod
  <2>1. a <= Taken - 1
    BY <1>1 DEF OrderInv, PendingInRange, Taken
  <2> QED
    BY <1>1, <2>1 DEF Taken
<1>3. NextSeq = a /\ TxSeq(pkt[r]) = a
  BY <1>1, <1>2 DEF OrderInv, RxSeqCurrent, TxSeq
<1>4. b % SeqMod = a
  BY <1>3 DEF NextSeq
<1> HIDE DEF a, b
<1>5. (b + N) % SeqMod = IF (b % SeqMod) + N < SeqMod THEN (b % SeqMod) + N
                                                      ELSE (b % SeqMod) + N - SeqMod
  BY <1>1, ModStep
<1>6. (rx_seq + 1 + N) % SeqMod = a + N
  BY <1>2, <1>4, <1>5 DEF b
<1> QED
  BY <1>1, <1>3, <1>6 DEF MustWait

\* A receiver sleeps only while an older packet than its own is on the way: with
\* the lock held from the check to the ticket, and everybody woken by every packet
\* taken over, no wakeup is missed (USBDevice.cpp:398-409). That the numbers must
\* not wrap is needed: across the wrap a woken receiver may sleep again although
\* its packet is the next one.
THEOREM SleepersWait ==
  (MaxDup = 0 /\ MaxPkts + N <= SeqMod) => (Spec => []SleepersWaitForOlder)
<1> SUFFICES ASSUME MaxDup = 0, MaxPkts + N <= SeqMod
             PROVE  Spec => []SleepersWaitForOlder
  OBVIOUS
<1>1. Init => SleepInv
  BY BoundsAssumption DEF Init, SleepInv
<1>2. OrderInv /\ SleepInv /\ [Next]_vars => SleepInv'
  <2> SUFFICES ASSUME OrderInv, SleepInv, [Next]_vars PROVE SleepInv'
    OBVIOUS
  <2>0. /\ sent \in Nat /\ MaxPkts \in Nat
        /\ pc \in [Receivers -> {"idle", "input", "wait", "dispatch", "ended"}]
        /\ pkt \in [Receivers -> Packet] /\ sleeping \subseteq Receivers
    BY BoundsAssumption DEF OrderInv, TypeOK
  <2>1. ASSUME NEW kind \in Kinds, DeviceSend(kind) PROVE SleepInv'
    BY <2>0, <2>1 DEF DeviceSend, SleepInv, Pending
  <2>2. ASSUME NEW num \in 0 .. sent - 1, DeviceRepeat(num) PROVE SleepInv'
    BY <2>2 DEF DeviceRepeat, SleepInv, Pending
  <2>3. ASSUME NEW r \in Receivers, Arrive(r) PROVE SleepInv'
    <3>1. r \notin sleeping
      BY <2>3 DEF Arrive, SleepInv, Pending
    <3> QED
      BY <2>0, <2>3, <3>1 DEF Arrive, SleepInv, Pending
  <2>4. ASSUME NEW r \in Receivers, Defer(r) PROVE SleepInv'
    <3>1. r \in Pending /\ (NextSeq # TxSeq(pkt[r]) \/ MustWait(TxSeq(pkt[r])))
      BY <2>4 DEF Defer, Defers, Pending
    <3>2. pkt[r].num # Len(accepted)
      BY <3>1, NextNeverWaits DEF SleepInv
    <3> QED
      BY <2>0, <2>4, <3>2 DEF Defer, SleepInv, Pending
  <2>5. ASSUME NEW r \in Receivers, Accept(r) \/ Discard(r) PROVE SleepInv'
    BY <2>5 DEF Accept, Discard, SleepInv
  <2>6. ASSUME NEW r \in Receivers, RejectLength(r) \/ Dispatch(r) \/ DispatchThrows(r)
        PROVE  SleepInv'
    <3>1. Pending \ {r} \subseteq Pending'
      BY <2>0, <2>6 DEF RejectLength, Dispatch, DispatchThrows, Pending
    <3>2. r \in sleeping => r \in Pending'
      BY <2>0, <2>6 DEF RejectLength, Dispatch, DispatchThrows, Pending, SleepInv
    <3> QED
      BY <2>6, <3>1, <3>2 DEF RejectLength, Dispatch, DispatchThrows, SleepInv
  <2>7. CASE UNCHANGED vars
    BY <2>7 DEF vars, SleepInv, Pending
  <2> QED
    BY <2>1, <2>2, <2>3, <2>4, <2>5, <2>6, <2>7 DEF Next, Device, Process
<1>3. OrderInv /\ SleepInv => SleepersWaitForOlder
  <2> SUFFICES ASSUME OrderInv, SleepInv, NEW r \in sleeping
               PROVE  \E n \in 0 .. pkt[r].num - 1 :
                        n \notin {accepted[i] : i \in 1 .. Len(accepted)}
    BY DEF SleepersWaitForOlder
  <2>1. /\ Len(accepted) \in Nat /\ r \in Pending
        /\ pkt[r].num \in Nat /\ pkt[r].num - Len(accepted) \in 0 .. N - 1
        /\ pkt[r].num # Len(accepted) /\ N \in Nat
    BY PendingBound, NType DEF OrderInv, TypeOK, SleepInv
  <2>2. Len(accepted) \in 0 .. pkt[r].num - 1
    BY <2>1
  <2>3. \A i \in 1 .. Len(accepted) : accepted[i] # Len(accepted)
    BY <2>1 DEF OrderInv, AcceptedInOrder
  <2> QED
    BY <2>2, <2>3
<1> QED
  BY <1>1, <1>2, <1>3, OrderInvariant, PTL DEF Spec

-----------------------------------------------------------------------------
(* Transfers are neither lost nor submitted twice, whatever the device sends. *)

\* The receivers that hold a transfer.
Holding == {r \in Receivers : pc[r] \notin {"idle", "ended"}}

\* There are finitely many receivers that hold a transfer
\* (USBDevice_receiver.cpp:23).
LEMMA HoldingFinite ==
  /\ IsFiniteSet(Holding)
  /\ Cardinality(Holding) \in Nat
<1>1. IsFiniteSet(Holding)
  BY ReceiversAssumption, FS_Subset DEF Holding
<1> QED
  BY <1>1, FS_CardinalityType

\* Giving a transfer back makes one holder less and one submitted more
\* (USBDevice_receiver.cpp:24-29).
LEMMA GivingBackBalances ==
  ASSUME TypeOK, TransfersConserved, NEW r \in Holding,
         Holding' = Holding \ {r},
         submitted' = submitted + 1, arrived' = arrived
  PROVE  TransfersConserved'
<1>1. Cardinality(Holding') = Cardinality(Holding) - 1
  BY HoldingFinite, FS_RemoveElement
<1>2. submitted + Len(arrived) + Cardinality(Holding) = N
  BY DEF TransfersConserved, Holding
<1>3. submitted \in Int /\ Len(arrived) \in Int /\ Cardinality(Holding) \in Int
  BY HoldingFinite DEF TypeOK
<1>4. submitted' + Len(arrived') + Cardinality(Holding') = N
  BY <1>1, <1>2, <1>3
<1> QED
  BY <1>4 DEF TransfersConserved, Holding, N

\* Every transfer is in one place (USBDevice_receiver.cpp:24-37).
THEOREM TransfersStayConserved == Spec => []TransfersConserved
<1>1. Init => TransfersConserved
  <2> SUFFICES ASSUME Init PROVE TransfersConserved
    OBVIOUS
  <2>1. Holding = {}
    BY DEF Init, Holding
  <2>2. Cardinality(Holding) = 0
    BY <2>1, FS_EmptySet
  <2>3. arrived = << >> /\ submitted = N
    BY DEF Init
  <2>4. submitted + Len(arrived) + Cardinality(Holding) = N
    BY <2>2, <2>3, NType
  <2> QED
    BY <2>4 DEF TransfersConserved, Holding
<1>2. TypeOK /\ TransfersConserved /\ [Next]_vars => TransfersConserved'
  <2> SUFFICES ASSUME TypeOK, TransfersConserved, [Next]_vars
               PROVE  TransfersConserved'
    OBVIOUS
  <2>0. /\ submitted \in Int /\ Len(arrived) \in Nat
        /\ pc \in [Receivers -> {"idle", "input", "wait", "dispatch", "ended"}]
        /\ arrived \in Seq(Packet)
        /\ Cardinality(Holding) \in Nat
        /\ submitted + Len(arrived) + Cardinality(Holding) = N
    BY HoldingFinite DEF TypeOK, TransfersConserved, Holding
  <2>1. ASSUME Device
        PROVE  TransfersConserved'
    <3>0. PICK p : arrived' = Append(arrived, p)
      BY <2>1 DEF Device, DeviceSend, DeviceRepeat
    <3>1. pc' = pc /\ submitted' = submitted - 1
          /\ Len(arrived') = Len(arrived) + 1
      <4>1. pc' = pc /\ submitted' = submitted - 1
        BY <2>1 DEF Device, DeviceSend, DeviceRepeat
      <4>2. Len(arrived') = Len(arrived) + 1
        BY <2>0, <3>0
      <4> QED
        BY <4>1, <4>2
    <3>2. Holding' = Holding
      BY <3>1 DEF Holding
    <3>3. submitted' + Len(arrived') + Cardinality(Holding') = N
      BY <2>0, <3>1, <3>2
    <3> QED
      BY <3>3 DEF TransfersConserved, Holding, N
  <2>2. ASSUME NEW r \in Receivers, Arrive(r)
        PROVE  TransfersConserved'
    <3>1. /\ r \notin Holding
          /\ Holding' = Holding \cup {r}
          /\ submitted' = submitted
          /\ Len(arrived') = Len(arrived) - 1
      BY <2>0, <2>2 DEF Arrive, Holding
    <3>2. Cardinality(Holding') = Cardinality(Holding) + 1
      BY <3>1, HoldingFinite, FS_AddElement
    <3>3. submitted' + Len(arrived') + Cardinality(Holding') = N
      BY <2>0, <3>1, <3>2
    <3> QED
      BY <3>3 DEF TransfersConserved, Holding, N
  <2>3. ASSUME NEW r \in Receivers, Defer(r) \/ Accept(r)
        PROVE  TransfersConserved'
    <3>1. Holding' = Holding /\ submitted' = submitted /\ arrived' = arrived
      BY <2>0, <2>3 DEF Defer, Defers, Accept, Proceeds, Holding
    <3> QED
      BY <3>1 DEF TransfersConserved, Holding, N
  <2>4. ASSUME NEW r \in Receivers,
               RejectLength(r) \/ Discard(r) \/ Dispatch(r) \/ DispatchThrows(r)
        PROVE  TransfersConserved'
    <3>1. /\ r \in Holding
          /\ Holding' = Holding \ {r}
          /\ submitted' = submitted + 1
          /\ arrived' = arrived
      BY <2>0, <2>4
      DEF RejectLength, Discard, Proceeds, Dispatch, DispatchThrows, Holding
    <3> QED
      BY <3>1, GivingBackBalances
  <2>5. CASE UNCHANGED vars
    <3>1. Holding' = Holding /\ submitted' = submitted /\ arrived' = arrived
      BY <2>5 DEF vars, Holding
    <3> QED
      BY <3>1 DEF TransfersConserved, Holding, N
  <2> QED
    BY <2>1, <2>2, <2>3, <2>4, <2>5 DEF Next, Process
<1> QED
  BY <1>1, <1>2, TypeCorrect, PTL DEF Spec
=============================================================================
