------------------------------ MODULE TCPProofs ------------------------------
(***************************************************************************)
(* Proofs about TCP for every set of receivers, every buffer of the device *)
(* and every amount of data: the host respects the device's window in      *)
(* whatever order the receivers handle its acknowledgements, the sender    *)
(* only sleeps on a full window, and the client gets what the device sent  *)
(* in order and without a gap, no receiver sleeping through its turn. Last,*)
(* what the code does not keep in general: a sleeping sender waits for the *)
(* device and for nothing else, if receivers do not overtake each other.   *)
(***************************************************************************)
EXTENDS TCP, TLAPS

\* The sequence number the device's buffer ends at. It never moves back.
Edge == dev.read + DevBuf

\* The edge a packet announces.
Offer(p) == p.ack + p.win

\* What was sent and what may be sent ends within the device's buffer ...
HostWithin ==
  /\ dev.got <= Edge
  /\ stx.seq <= Edge
  /\ stx.seqAcked + stx.inWin <= Edge

\* ... and so does every announcement that is still on its way or in hand,
\* however old it is.
OffersWithin ==
  /\ \A i \in 1 .. Len(wire) : Offer(wire[i]) <= Edge
  /\ \A r \in Receivers : Offer(pkt[r]) <= Edge

WindowInv == HostWithin /\ OffersWithin

\* The threads follow the connection: the device is closed until the SYN is
\* sent, nothing is sent and no receiver has waited for its turn until it is
\* answered, the loop runs after connect().
PhaseInv ==
  /\ cpc \in {"connect", "syn"} => dev.state = "closed" /\ dev.read = 0
  /\ connState = "connecting" =>
       /\ stx.seq = 0 /\ stx.seqAcked = 0
       /\ cpc \notin {"result", "own", "done"}
       /\ \A r \in Receivers : rpc[r] # "again"
  /\ spc # "off" => cpc = "done"

\* A sender whose wakeup is still to come is asleep, and the window full.
SleepInv ==
  /\ Sender \in asleep.send => spc = "sleep"
  /\ SleepsOnlyWhenFull

Inv == TypeOK /\ WindowInv /\ PhaseInv /\ SleepInv

-----------------------------------------------------------------------------
(* Values. *)

\* The sizes are positive.
LEMMA SizeTypes ==
  DevBuf \in Nat /\ DevBuf > 0 /\ Mtu \in Nat /\ Mtu > 0
BY SizesAssumption

\* What the caps on len give (TCP.cpp:219-221).
LEMMA LeastOfThree ==
  ASSUME NEW a \in Nat, NEW b \in Nat, NEW c \in Nat
  PROVE  /\ Least({a, b, c}) \in Nat
         /\ Least({a, b, c}) <= a
         /\ Least({a, b, c}) <= b
<1>1. \E x \in {a, b, c} : \A y \in {a, b, c} : x <= y
  <2>1. CASE a <= b /\ a <= c
    BY <2>1
  <2>2. CASE b <= a /\ b <= c
    BY <2>2
  <2>3. CASE c <= a /\ c <= b
    BY <2>3
  <2> QED
    BY <2>1, <2>2, <2>3
<1> QED
  BY <1>1 DEF Least

\* The fields of a packet (the tcphdr of TCP.cpp:307-311).
LEMMA PacketFields ==
  ASSUME NEW p \in Packet
  PROVE  /\ p.seq \in Nat /\ p.ack \in Nat /\ p.win \in Nat
         /\ p.len \in {0, 1}
BY DEF Packet

\* The numbers of both ends (_stx of TCP.hpp, and the device's).
LEMMA StateFields ==
  ASSUME TypeOK
  PROVE  /\ stx.seq \in Nat /\ stx.seqAcked \in Nat /\ stx.ack \in Nat
         /\ stx.inWin \in Nat /\ stx.pktForwarded \in Nat
         /\ dev.seq \in Nat /\ dev.got \in Nat /\ dev.read \in Nat
         /\ Edge \in Nat
BY SizeTypes DEF TypeOK, TcpTypes, DeviceTypes, Edge

\* What send_data puts into one packet (TCP.cpp:202-233).
LEMMA SendDataLength ==
  ASSUME TypeOK, SendData
  PROVE  \E len \in Nat :
           /\ len <= chunk
           /\ len <= stx.inWin - Unacked
           /\ stx' = [stx EXCEPT !.seq = stx.seq + len, !.acked = stx.ack]
           /\ chunk' = chunk - len
           /\ dev' = IF dev.state = "open" THEN [dev EXCEPT !.got = stx.seq + len]
                     ELSE dev
<1> DEFINE room == stx.inWin - Unacked
           len == Least({chunk, room, Mtu})
<1>1. chunk \in Nat /\ room \in Nat
  BY StateFields DEF TypeOK, DataTypes, SendData, Unacked
<1>2. len \in Nat /\ len <= chunk /\ len <= room
  BY <1>1, SizeTypes, LeastOfThree
<1>3. /\ stx' = [stx EXCEPT !.seq = stx.seq + len, !.acked = stx.ack]
      /\ chunk' = chunk - len
      /\ dev' = IF dev.state = "open" THEN [dev EXCEPT !.got = stx.seq + len] ELSE dev
  BY DEF SendData
<1> QED
  BY <1>2, <1>3

-----------------------------------------------------------------------------
(* Types. *)

\* A packet the device sends is well formed: its window is not negative.
LEMMA DevSendTypes ==
  ASSUME TypeOK, WindowInv, NEW kind \in {"synack", "ack", "rst"},
         NEW len \in {0, 1}, NEW state \in {"closed", "syn", "open"},
         DevSend(kind, len, state)
  PROVE  DeviceTypes'
<1> DEFINE p == [kind |-> kind, seq |-> dev.seq, ack |-> dev.got,
                 win |-> dev.read + DevBuf - dev.got, len |-> len]
<1>1. dev.read + DevBuf - dev.got \in Nat
  BY StateFields, SizeTypes DEF WindowInv, HostWithin, Edge
<1>2. p \in Packet
  BY <1>1, StateFields DEF Packet
<1>3. wire' = Append(wire, p)
  BY DEF DevSend
<1>4. wire' \in Seq(Packet)
  BY <1>2, <1>3 DEF TypeOK, DeviceTypes
<1>5. dev.seq + len \in Nat
  BY StateFields
<1>6. dev' \in [state : {"closed", "syn", "open"}, seq : Nat, got : Nat,
                read : Nat, told : Nat \X Nat]
  BY <1>5, StateFields DEF TypeOK, DeviceTypes, DevSend
<1> QED
  BY <1>4, <1>6 DEF DeviceTypes

\* A step of the device leaves the host's state alone.
LEMMA DevStepTypes ==
  ASSUME TypeOK, WindowInv, DevStep
  PROVE  TypeOK'
<1>1. DeviceTypes'
  <2>1. CASE DevAnswer
    BY <2>1, DevSendTypes DEF DevAnswer
  <2>2. CASE DevData
    BY <2>2, DevSendTypes DEF DevData
  <2>3. CASE DevAck
    BY <2>3, DevSendTypes DEF DevAck
  <2>4. CASE DevRead
    <3>1. dev.read + 1 \in Nat
      BY StateFields
    <3> QED
      BY <2>4, <3>1 DEF TypeOK, DeviceTypes, DevRead
  <2>5. CASE DevReset
    BY <2>5, DevSendTypes DEF DevReset
  <2> QED
    BY <2>1, <2>2, <2>3, <2>4, <2>5 DEF DevStep
<1>2. UNCHANGED <<tcpVars, loopVars, receiverVars, clientVars>>
  BY DEF DevStep
<1> QED
  BY <1>1, <1>2 DEF TypeOK, TcpTypes, FlagTypes, ThreadTypes, DataTypes,
                    tcpVars, loopVars, receiverVars, clientVars

\* Every step keeps the types. Each action names the groups it changes.
LEMMA TypesKept ==
  ASSUME TypeOK, WindowInv, [Next]_vars
  PROVE  TypeOK'
<1> USE DEF TypeOK, tcpVars, loopVars, receiverVars, clientVars, deviceVars
<1>1. ASSUME ConnectTicket
      PROVE  TypeOK'
  <2>1. TcpTypes'
    BY <1>1 DEF ConnectTicket, TcpTypes
  <2>2. ThreadTypes'
    BY <1>1 DEF ConnectTicket, ThreadTypes
  <2> QED
    BY <1>1, <2>1, <2>2
    DEF ConnectTicket, FlagTypes, DataTypes, DeviceTypes
<1>2. ASSUME ConnectSyn
      PROVE  TypeOK'
  <2>1. TcpTypes'
    BY <1>2 DEF ConnectSyn, TcpTypes
  <2>2. ThreadTypes'
    BY <1>2 DEF ConnectSyn, ThreadTypes
  <2>3. DeviceTypes'
    <3>1. stx.seq + 1 \in Nat
      BY StateFields
    <3> QED
      BY <1>2, <3>1 DEF ConnectSyn, DeviceTypes
  <2> QED
    BY <1>2, <2>1, <2>2, <2>3
    DEF ConnectSyn, FlagTypes, DataTypes
<1>3. ASSUME ConnectAnswered
      PROVE  TypeOK'
  <2>1. ThreadTypes'
    BY <1>3 DEF ConnectAnswered, ThreadTypes
  <2> QED
    BY <1>3, <2>1
    DEF ConnectAnswered, TcpTypes, FlagTypes, DataTypes, DeviceTypes
<1>4. ASSUME ConnectResult
      PROVE  TypeOK'
  <2>1. ThreadTypes'
    BY <1>4 DEF ConnectResult, ThreadTypes
  <2> QED
    BY <1>4, <2>1
    DEF ConnectResult, TcpTypes, FlagTypes, DataTypes, DeviceTypes
<1>5. ASSUME ConnectOwn
      PROVE  TypeOK'
  <2>1. FlagTypes'
    BY <1>5 DEF ConnectOwn, FlagTypes
  <2>2. ThreadTypes'
    BY <1>5 DEF ConnectOwn, ThreadTypes
  <2> QED
    BY <1>5, <2>1, <2>2
    DEF ConnectOwn, TcpTypes, DataTypes, DeviceTypes
<1>6. ASSUME NEW n \in 1 .. MaxHost, Recv(n)
      PROVE  TypeOK'
  <2>1. ThreadTypes'
    BY <1>6 DEF Recv, ThreadTypes
  <2>2. DataTypes'
    BY <1>6 DEF Recv, DataTypes
  <2> QED
    BY <1>6, <2>1, <2>2
    DEF Recv, TcpTypes, FlagTypes, DeviceTypes
<1>7. ASSUME RecvClosed
      PROVE  TypeOK'
  <2>1. ThreadTypes'
    BY <1>7 DEF RecvClosed, ThreadTypes
  <2>2. DeviceTypes'
    BY <1>7 DEF RecvClosed, DeviceTypes
  <2> QED
    BY <1>7, <2>1, <2>2
    DEF RecvClosed, TcpTypes, FlagTypes, DataTypes
<1>8. ASSUME SendData
      PROVE  TypeOK'
  <2>1. TcpTypes'
    <3>1. PICK len \in Nat :
            stx' = [stx EXCEPT !.seq = stx.seq + len, !.acked = stx.ack]
      BY <1>8, SendDataLength
    <3>2. stx.seq + len \in Nat
      BY StateFields
    <3> QED
      BY <1>8, <3>1, <3>2, StateFields DEF SendData, TcpTypes
  <2>2. ThreadTypes'
    BY <1>8 DEF SendData, ThreadTypes
  <2>3. DataTypes'
    <3>1. \E len \in Nat : len <= chunk /\ chunk' = chunk - len
      BY <1>8, SendDataLength
    <3>2. chunk' \in Nat
      BY <3>1 DEF DataTypes
    <3> QED
      BY <1>8, <3>2 DEF SendData, DataTypes
  <2>4. DeviceTypes'
    <3>1. PICK len \in Nat :
            dev' = IF dev.state = "open" THEN [dev EXCEPT !.got = stx.seq + len]
                   ELSE dev
      BY <1>8, SendDataLength
    <3>2. stx.seq + len \in Nat
      BY StateFields
    <3> QED
      BY <1>8, <3>1, <3>2 DEF SendData, DeviceTypes
  <2> QED
    BY <1>8, <2>1, <2>2, <2>3, <2>4
    DEF SendData, FlagTypes
<1>9. ASSUME SendSleep
      PROVE  TypeOK'
  <2>1. TcpTypes'
    BY <1>9 DEF SendSleep, TcpTypes
  <2>2. ThreadTypes'
    BY <1>9 DEF SendSleep, ThreadTypes
  <2> QED
    BY <1>9, <2>1, <2>2
    DEF SendSleep, FlagTypes, DataTypes, DeviceTypes
<1>10. ASSUME SendWake
      PROVE  TypeOK'
  <2>1. ThreadTypes'
    BY <1>10 DEF SendWake, ThreadTypes
  <2> QED
    BY <1>10, <2>1
    DEF SendWake, TcpTypes, FlagTypes, DataTypes, DeviceTypes
<1>11. ASSUME NEW r \in Receivers, Take(r)
      PROVE  TypeOK'
  <2>1. ThreadTypes'
    <3>1. Head(wire) \in Packet
      BY <1>11 DEF Take, DeviceTypes
    <3> QED
      BY <1>11, <3>1 DEF Take, Goto, ThreadTypes
  <2>2. DeviceTypes'
    <3>1. Tail(wire) \in Seq(Packet)
      BY <1>11 DEF Take, DeviceTypes
    <3> QED
      BY <1>11, <3>1 DEF Take, DeviceTypes
  <2> QED
    BY <1>11, <2>1, <2>2
    DEF Take, Goto, TcpTypes, FlagTypes, DataTypes
<1>12. ASSUME NEW r \in Receivers, InputSynAck(r)
      PROVE  TypeOK'
  <2>1. TcpTypes'
    <3>1. pkt[r].seq + 1 \in Nat /\ pkt[r].win \in Nat /\ stx.seq + 1 \in Nat
      BY <1>12, PacketFields, StateFields DEF ThreadTypes
    <3> QED
      BY <1>12, <3>1 DEF InputSynAck, TcpTypes
  <2>2. ThreadTypes'
    BY <1>12 DEF InputSynAck, Goto, ThreadTypes
  <2>3. DeviceTypes'
    BY <1>12 DEF InputSynAck, Goto, DeviceTypes
  <2> QED
    BY <1>12, <2>1, <2>2, <2>3
    DEF InputSynAck, Goto, FlagTypes, DataTypes
<1>13. ASSUME NEW r \in Receivers, InputRefused(r)
      PROVE  TypeOK'
  <2>1. TcpTypes'
    BY <1>13 DEF InputRefused, Goto, TcpTypes
  <2>2. FlagTypes'
    BY <1>13 DEF InputRefused, Goto, FlagTypes
  <2>3. ThreadTypes'
    BY <1>13 DEF InputRefused, Goto, ThreadTypes
  <2> QED
    BY <1>13, <2>1, <2>2, <2>3
    DEF InputRefused, Goto, DataTypes, DeviceTypes
<1>14. ASSUME NEW r \in Receivers, InputReset(r)
      PROVE  TypeOK'
  <2>1. FlagTypes'
    BY <1>14 DEF InputReset, Goto, FlagTypes
  <2>2. ThreadTypes'
    BY <1>14 DEF InputReset, Goto, ThreadTypes
  <2> QED
    BY <1>14, <2>1, <2>2
    DEF InputReset, Goto, TcpTypes, DataTypes, DeviceTypes
<1>15. ASSUME NEW r \in Receivers, InputDropped(r)
      PROVE  TypeOK'
  <2>1. ThreadTypes'
    BY <1>15 DEF InputDropped, Goto, ThreadTypes
  <2> QED
    BY <1>15, <2>1
    DEF InputDropped, Goto, TcpTypes, FlagTypes, DataTypes, DeviceTypes
<1>16. ASSUME NEW r \in Receivers, InputDefer(r)
      PROVE  TypeOK'
  <2>1. TcpTypes'
    BY <1>16 DEF InputDefer, Goto, TcpTypes
  <2>2. ThreadTypes'
    BY <1>16 DEF InputDefer, Goto, ThreadTypes
  <2> QED
    BY <1>16, <2>1, <2>2
    DEF InputDefer, Goto, FlagTypes, DataTypes, DeviceTypes
<1>17. ASSUME NEW r \in Receivers, InputWake(r)
      PROVE  TypeOK'
  <2>1. ThreadTypes'
    BY <1>17 DEF InputWake, Goto, ThreadTypes
  <2> QED
    BY <1>17, <2>1
    DEF InputWake, Goto, TcpTypes, FlagTypes, DataTypes, DeviceTypes
<1>18. ASSUME NEW r \in Receivers, InputNext(r)
      PROVE  TypeOK'
  <2>1. TcpTypes'
    <3>1. /\ stx.ack + pkt[r].len \in Nat
          /\ pkt[r].win \in Nat /\ pkt[r].ack \in Nat
      BY <1>18, PacketFields, StateFields DEF ThreadTypes
    <3> QED
      BY <1>18, <3>1 DEF InputNext, NextSegment, TcpTypes
  <2>2. ThreadTypes'
    BY <1>18 DEF InputNext, Goto, NextSegment, ThreadTypes
  <2> QED
    BY <1>18, <2>1, <2>2
    DEF InputNext, Goto, NextSegment, FlagTypes, DataTypes, DeviceTypes
<1>19. ASSUME NEW r \in Receivers, ForwardDefer(r)
      PROVE  TypeOK'
  <2>1. TcpTypes'
    BY <1>19 DEF ForwardDefer, Goto, TcpTypes
  <2>2. ThreadTypes'
    BY <1>19 DEF ForwardDefer, Goto, ThreadTypes
  <2> QED
    BY <1>19, <2>1, <2>2
    DEF ForwardDefer, Goto, FlagTypes, DataTypes, DeviceTypes
<1>20. ASSUME NEW r \in Receivers, ForwardWake(r)
      PROVE  TypeOK'
  <2>1. ThreadTypes'
    BY <1>20 DEF ForwardWake, Goto, ThreadTypes
  <2> QED
    BY <1>20, <2>1
    DEF ForwardWake, Goto, TcpTypes, FlagTypes, DataTypes, DeviceTypes
<1>21. ASSUME NEW r \in Receivers, ForwardAbandon(r)
      PROVE  TypeOK'
  <2>1. ThreadTypes'
    BY <1>21 DEF ForwardAbandon, Goto, ThreadTypes
  <2> QED
    BY <1>21, <2>1
    DEF ForwardAbandon, Goto, TcpTypes, FlagTypes, DataTypes, DeviceTypes
<1>22. ASSUME NEW r \in Receivers, Forward(r)
      PROVE  TypeOK'
  <2>1. TcpTypes'
    <3>1. stx.pktForwarded + pkt[r].len \in Nat
      BY <1>22, PacketFields, StateFields DEF ThreadTypes
    <3> QED
      BY <1>22, <3>1 DEF Forward, TcpTypes
  <2>2. FlagTypes'
    BY <1>22 DEF Forward, Goto, FlagTypes
  <2>3. ThreadTypes'
    BY <1>22 DEF Forward, Goto, ThreadTypes
  <2>4. DataTypes'
    <3>1. pkt[r].seq \in Nat
      BY <1>22, PacketFields DEF ThreadTypes
    <3>2. delivered' = delivered \/ delivered' = Append(delivered, pkt[r].seq)
      BY <1>22 DEF Forward
    <3>3. delivered' \in Seq(Nat)
      BY <3>1, <3>2 DEF DataTypes
    <3>4. UNCHANGED <<chunk, hostLeft>>
      BY <1>22 DEF Forward
    <3> QED
      BY <3>3, <3>4 DEF DataTypes
  <2> QED
    BY <1>22, <2>1, <2>2, <2>3, <2>4
    DEF Forward, Goto, DeviceTypes
<1>23. ASSUME DeconstructStx
      PROVE  TypeOK'
  <2>1. TcpTypes'
    BY <1>23 DEF DeconstructStx, TcpTypes
  <2> QED
    BY <1>23, <2>1
    DEF DeconstructStx, FlagTypes, ThreadTypes, DataTypes, DeviceTypes
<1>24. ASSUME DeconstructErase
      PROVE  TypeOK'
  <2>1. TcpTypes'
    BY <1>24 DEF DeconstructErase, TcpTypes
  <2>2. FlagTypes'
    BY <1>24 DEF DeconstructErase, FlagTypes
  <2> QED
    BY <1>24, <2>1, <2>2
    DEF DeconstructErase, ThreadTypes, DataTypes, DeviceTypes
<1>25. ASSUME RecvFails
      PROVE  TypeOK'
  <2>1. FlagTypes'
    BY <1>25 DEF RecvFails, FlagTypes
  <2>2. ThreadTypes'
    BY <1>25 DEF RecvFails, ThreadTypes
  <2> QED
    BY <1>25, <2>1, <2>2
    DEF RecvFails, TcpTypes, DataTypes, DeviceTypes
<1>26. ASSUME ClientDies
      PROVE  TypeOK'
  <2>1. FlagTypes'
    BY <1>26 DEF ClientDies, FlagTypes
  <2> QED
    BY <1>26, <2>1
    DEF ClientDies, TcpTypes, ThreadTypes, DataTypes, DeviceTypes
<1>27. CASE DevStep
  BY <1>27, DevStepTypes
<1>28. CASE UNCHANGED vars
  BY <1>28 DEF vars, TcpTypes, FlagTypes, ThreadTypes, DataTypes, DeviceTypes
<1> QED
  BY <1>1, <1>2, <1>3, <1>4, <1>5, <1>6, <1>7, <1>8, <1>9, <1>10, <1>11, <1>12,
     <1>13, <1>14, <1>15, <1>16, <1>17, <1>18, <1>19, <1>20, <1>21, <1>22,
     <1>23, <1>24, <1>25, <1>26, <1>27, <1>28
  DEF Next, Connect, SendLoop, Receive, Deconstruct

-----------------------------------------------------------------------------
(* The window. *)

\* Old announcements stay within an edge that only moves forward.
LEMMA OffersStay ==
  ASSUME TypeOK, TypeOK', OffersWithin, UNCHANGED <<wire, pkt>>, Edge <= Edge'
  PROVE  OffersWithin'
<1>1. Edge \in Nat /\ Edge' \in Nat
  BY SizeTypes DEF TypeOK, DeviceTypes, Edge
<1>2. ASSUME NEW i \in 1 .. Len(wire) PROVE Offer(wire[i]) <= Edge'
  <2>1. wire[i] \in Packet
    BY DEF TypeOK, DeviceTypes
  <2>2. Offer(wire[i]) \in Nat
    BY <2>1, PacketFields DEF Offer
  <2> QED
    BY <1>1, <2>2 DEF OffersWithin
<1>3. ASSUME NEW r \in Receivers PROVE Offer(pkt[r]) <= Edge'
  <2>1. pkt[r] \in Packet
    BY DEF TypeOK, ThreadTypes
  <2>2. Offer(pkt[r]) \in Nat
    BY <2>1, PacketFields DEF Offer
  <2> QED
    BY <1>1, <2>2 DEF OffersWithin
<1> QED
  BY <1>2, <1>3 DEF OffersWithin, Offer

\* A receiver that takes a packet only moves an announcement
\* (USBDevice.cpp:459-472).
LEMMA TakeKeepsWindow ==
  ASSUME TypeOK, WindowInv, NEW r \in Receivers, Take(r)
  PROVE  WindowInv'
<1>1. wire \in Seq(Packet) /\ wire # << >> /\ wire' = Tail(wire)
  BY DEF Take, TypeOK, DeviceTypes
<1>2. pkt' = [pkt EXCEPT ![r] = wire[1]]
  BY <1>1 DEF Take
<1>3. dev'.read = dev.read /\ dev'.got = dev.got /\ stx' = stx
  BY DEF Take, TypeOK, DeviceTypes, tcpVars
<1>4. Edge' = Edge
  BY <1>3 DEF Edge
<1>5. ASSUME NEW i \in 1 .. Len(wire') PROVE Offer(wire'[i]) <= Edge
  <2>1. wire'[i] = wire[i + 1] /\ i + 1 \in 1 .. Len(wire)
    BY <1>1
  <2> QED
    BY <2>1 DEF WindowInv, OffersWithin
<1>6. ASSUME NEW q \in Receivers PROVE Offer(pkt'[q]) <= Edge
  <2>1. pkt'[q] = wire[1] \/ pkt'[q] = pkt[q]
    BY <1>2 DEF TypeOK, ThreadTypes
  <2>2. 1 \in 1 .. Len(wire)
    BY <1>1
  <2> QED
    BY <2>1, <2>2 DEF WindowInv, OffersWithin
<1> QED
  BY <1>3, <1>4, <1>5, <1>6 DEF WindowInv, HostWithin, OffersWithin, Offer

\* The device announces its edge as it is.
LEMMA DevSendKeepsWindow ==
  ASSUME TypeOK, WindowInv, NEW kind \in {"synack", "ack", "rst"},
         NEW len \in {0, 1}, NEW state \in {"closed", "syn", "open"},
         DevSend(kind, len, state), UNCHANGED <<tcpVars, receiverVars>>
  PROVE  WindowInv'
<1> DEFINE p == [kind |-> kind, seq |-> dev.seq, ack |-> dev.got,
                 win |-> dev.read + DevBuf - dev.got, len |-> len]
<1>1. wire' = Append(wire, p) /\ wire \in Seq(Packet)
  BY DEF DevSend, TypeOK, DeviceTypes
<1>2. dev'.read = dev.read /\ dev'.got = dev.got /\ stx' = stx /\ pkt' = pkt
  BY DEF DevSend, TypeOK, DeviceTypes, tcpVars, receiverVars
<1>3. Edge' = Edge
  BY <1>2 DEF Edge
<1>4. Offer(p) = Edge
  BY StateFields, SizeTypes DEF Offer, Edge
<1>5. ASSUME NEW i \in 1 .. Len(wire') PROVE Offer(wire'[i]) <= Edge
  <2>1. CASE i = Len(wire) + 1
    BY <1>1, <1>4, <2>1, StateFields
  <2>2. CASE i # Len(wire) + 1
    <3>1. i \in 1 .. Len(wire) /\ wire'[i] = wire[i]
      BY <1>1, <2>2
    <3> QED
      BY <3>1 DEF WindowInv, OffersWithin
  <2> QED
    BY <2>1, <2>2
<1> QED
  BY <1>2, <1>3, <1>5 DEF WindowInv, HostWithin, OffersWithin, Offer

\* Every step keeps the host and what it was told within the device's buffer.
LEMMA WindowKept ==
  ASSUME TypeOK, TypeOK', WindowInv, PhaseInv, [Next]_vars
  PROVE  WindowInv'
<1>1. ASSUME UNCHANGED <<stx, dev, wire, pkt>>
      PROVE  WindowInv'
  BY <1>1 DEF WindowInv, HostWithin, OffersWithin, Offer, Edge
<1>2. ASSUME ConnectSyn
      PROVE  WindowInv'
  <2>1. /\ dev.read = 0 /\ dev'.read = stx.seq + 1 /\ dev'.got = stx.seq + 1
        /\ stx'.seq = stx.seq /\ stx'.seqAcked = stx.seqAcked
        /\ stx'.inWin = stx.inWin
    BY <1>2 DEF ConnectSyn, PhaseInv, TypeOK, TcpTypes, DeviceTypes
  <2>2. Edge <= Edge'
    BY <2>1, StateFields, SizeTypes DEF Edge
  <2>3. HostWithin'
    BY <2>1, StateFields, SizeTypes DEF WindowInv, HostWithin, Edge
  <2>4. OffersWithin'
    BY <1>2, <2>2, OffersStay DEF WindowInv, ConnectSyn, receiverVars
  <2> QED
    BY <2>3, <2>4 DEF WindowInv
<1>3. ASSUME RecvClosed
      PROVE  WindowInv'
  <2>1. dev'.read = dev.read /\ dev'.got = dev.got /\ UNCHANGED <<stx, wire, pkt>>
    BY <1>3 DEF RecvClosed, TypeOK, DeviceTypes, tcpVars, receiverVars
  <2> QED
    BY <2>1 DEF WindowInv, HostWithin, OffersWithin, Offer, Edge
<1>4. ASSUME SendData
      PROVE  WindowInv'
  <2>1. PICK len \in Nat :
          /\ len <= stx.inWin - Unacked
          /\ stx' = [stx EXCEPT !.seq = stx.seq + len, !.acked = stx.ack]
          /\ dev' = IF dev.state = "open" THEN [dev EXCEPT !.got = stx.seq + len]
                    ELSE dev
    BY <1>4, SendDataLength
  <2>2. /\ stx'.seq = stx.seq + len /\ stx'.seqAcked = stx.seqAcked
        /\ stx'.inWin = stx.inWin
    BY <2>1 DEF TypeOK, TcpTypes
  <2>3. dev'.read = dev.read /\ dev'.got \in {dev.got, stx.seq + len}
    BY <2>1 DEF TypeOK, DeviceTypes
  <2>4. stx.seq + len <= Edge
    BY <2>1, StateFields DEF Unacked, WindowInv, HostWithin
  <2>5. Edge' = Edge
    BY <2>3 DEF Edge
  <2>6. HostWithin'
    BY <2>2, <2>3, <2>4, <2>5 DEF WindowInv, HostWithin
  <2>7. OffersWithin'
    BY <1>4, <2>5, StateFields, OffersStay DEF WindowInv, SendData, receiverVars
  <2> QED
    BY <2>6, <2>7 DEF WindowInv
<1>5. ASSUME NEW r \in Receivers, Take(r)
      PROVE  WindowInv'
  BY <1>5, TakeKeepsWindow
<1>6. ASSUME NEW r \in Receivers, InputSynAck(r)
      PROVE  WindowInv'
  <2>1. /\ stx.seq = 0 /\ stx.seqAcked = 0
        /\ stx'.seq = stx.seq + 1 /\ stx'.seqAcked = stx.seqAcked
        /\ stx'.inWin = pkt[r].win
    BY <1>6 DEF InputSynAck, PhaseInv, TypeOK, TcpTypes
  <2>2. dev'.read = dev.read /\ dev'.got = dev.got
    BY <1>6 DEF InputSynAck, TypeOK, DeviceTypes
  <2>3. Edge' = Edge
    BY <2>2 DEF Edge
  <2>4. Offer(pkt[r]) <= Edge /\ pkt[r].ack \in Nat /\ pkt[r].win \in Nat
    BY PacketFields DEF WindowInv, OffersWithin, TypeOK, ThreadTypes
  <2>5. pkt[r].win <= Edge
    BY <2>4, StateFields DEF Offer
  <2>6. 1 <= Edge
    BY StateFields, SizeTypes DEF Edge
  <2>7. HostWithin'
    BY <2>1, <2>2, <2>3, <2>4, <2>5, <2>6 DEF WindowInv, HostWithin
  <2>8. OffersWithin'
    BY <1>6, <2>3, StateFields, OffersStay DEF WindowInv, InputSynAck
  <2> QED
    BY <2>7, <2>8 DEF WindowInv
<1>7. ASSUME NEW r \in Receivers, InputNext(r)
      PROVE  WindowInv'
  <2>1. /\ stx'.seq = stx.seq /\ stx'.seqAcked = pkt[r].ack
        /\ stx'.inWin = pkt[r].win
    BY <1>7 DEF InputNext, NextSegment, TypeOK, TcpTypes
  <2>2. dev' = dev /\ wire' = wire /\ pkt' = pkt
    BY <1>7 DEF InputNext, NextSegment, deviceVars
  <2>3. Offer(pkt[r]) <= Edge
    BY DEF WindowInv, OffersWithin
  <2> QED
    BY <2>1, <2>2, <2>3 DEF WindowInv, HostWithin, OffersWithin, Offer, Edge
<1>8. ASSUME NEW r \in Receivers, Forward(r)
      PROVE  WindowInv'
  <2>1. /\ stx'.seq = stx.seq /\ stx'.seqAcked = stx.seqAcked
        /\ stx'.inWin = stx.inWin
    BY <1>8 DEF Forward, TypeOK, TcpTypes
  <2>2. dev' = dev /\ wire' = wire /\ pkt' = pkt
    BY <1>8 DEF Forward, deviceVars
  <2> QED
    BY <2>1, <2>2 DEF WindowInv, HostWithin, OffersWithin, Offer, Edge
<1>9. ASSUME DevStep
      PROVE  WindowInv'
  <2>1. UNCHANGED <<tcpVars, receiverVars>>
    BY <1>9 DEF DevStep
  <2>2. CASE DevAnswer
    BY <2>1, <2>2, DevSendKeepsWindow DEF DevAnswer
  <2>3. CASE DevData
    BY <2>1, <2>3, DevSendKeepsWindow DEF DevData
  <2>4. CASE DevAck
    BY <2>1, <2>4, DevSendKeepsWindow DEF DevAck
  <2>5. CASE DevRead
    <3>1. dev'.read = dev.read + 1 /\ dev'.got = dev.got /\ stx' = stx
      BY <2>1, <2>5 DEF DevRead, TypeOK, DeviceTypes, tcpVars
    <3>2. Edge' = Edge + 1
      BY <3>1, StateFields, SizeTypes DEF Edge
    <3>3. HostWithin'
      BY <3>1, <3>2, StateFields DEF WindowInv, HostWithin
    <3>4. OffersWithin'
      BY <2>1, <2>5, <3>2, StateFields, OffersStay
      DEF WindowInv, DevRead, receiverVars
    <3> QED
      BY <3>3, <3>4 DEF WindowInv
  <2>6. CASE DevReset
    BY <2>1, <2>6, DevSendKeepsWindow DEF DevReset
  <2> QED
    BY <1>9, <2>2, <2>3, <2>4, <2>5, <2>6 DEF DevStep
<1>10. ASSUME \/ ConnectTicket \/ ConnectAnswered \/ ConnectResult \/ ConnectOwn
              \/ SendSleep \/ SendWake \/ RecvFails
              \/ DeconstructStx \/ DeconstructErase \/ ClientDies
              \/ \E n \in 1 .. MaxHost : Recv(n)
       PROVE  UNCHANGED <<stx, dev, wire, pkt>>
  BY <1>10
  DEF ConnectTicket, ConnectAnswered, ConnectResult, ConnectOwn, SendSleep,
      SendWake, RecvFails, DeconstructStx, DeconstructErase, ClientDies, Recv,
      tcpVars, receiverVars, deviceVars
<1>11. ASSUME NEW r \in Receivers,
              \/ InputRefused(r) \/ InputReset(r) \/ InputDropped(r)
              \/ InputDefer(r) \/ InputWake(r) \/ ForwardDefer(r)
              \/ ForwardWake(r) \/ ForwardAbandon(r)
       PROVE  UNCHANGED <<stx, dev, wire, pkt>>
  BY <1>11
  DEF InputRefused, InputReset, InputDropped, InputDefer, InputWake, ForwardDefer,
      ForwardWake, ForwardAbandon, tcpVars, deviceVars
<1>12. CASE UNCHANGED vars
  BY <1>1, <1>12 DEF vars, tcpVars, receiverVars, deviceVars
<1> QED
  BY <1>1, <1>2, <1>3, <1>4, <1>5, <1>6, <1>7, <1>8, <1>9, <1>10, <1>11, <1>12
  DEF Next, Connect, SendLoop, Receive, Deconstruct

-----------------------------------------------------------------------------
(* The phases, and who sleeps. *)

\* Every step keeps the threads in step with the connection.
LEMMA PhaseKept ==
  ASSUME TypeOK, PhaseInv, [Next]_vars
  PROVE  PhaseInv'
<1> USE DEF PhaseInv, tcpVars, loopVars, receiverVars, deviceVars
<1>1. ASSUME \/ ConnectTicket \/ ConnectAnswered \/ ConnectResult \/ ConnectOwn
             \/ SendSleep \/ SendWake \/ RecvFails
             \/ DeconstructStx \/ DeconstructErase \/ ClientDies
             \/ \E n \in 1 .. MaxHost : Recv(n)
      PROVE  PhaseInv'
  BY <1>1
  DEF ConnectTicket, ConnectAnswered, ConnectResult, ConnectOwn, SendSleep,
      SendWake, RecvFails, DeconstructStx, DeconstructErase, ClientDies, Recv
<1>2. ASSUME ConnectSyn
      PROVE  PhaseInv'
  <2>1. stx'.seq = stx.seq /\ stx'.seqAcked = stx.seqAcked
    BY <1>2 DEF ConnectSyn, TypeOK, TcpTypes
  <2> QED
    BY <1>2, <2>1 DEF ConnectSyn
<1>3. ASSUME RecvClosed
      PROVE  PhaseInv'
  BY <1>3 DEF RecvClosed
<1>4. ASSUME SendData
      PROVE  PhaseInv'
  BY <1>4 DEF SendData
<1>5. ASSUME NEW r \in Receivers, Take(r)
      PROVE  PhaseInv'
  <2>1. dev'.read = dev.read /\ dev'.state \in {dev.state, "closed"}
    BY <1>5 DEF Take, TypeOK, DeviceTypes
  <2> QED
    BY <1>5, <2>1 DEF Take, Goto, TypeOK, ThreadTypes
<1>6. ASSUME NEW r \in Receivers, InputSynAck(r)
      PROVE  PhaseInv'
  <2>1. dev'.read = dev.read /\ (dev.state = "closed" => dev' = dev)
    BY <1>6 DEF InputSynAck, TypeOK, DeviceTypes
  <2> QED
    BY <1>6, <2>1 DEF InputSynAck
<1>7. ASSUME NEW r \in Receivers,
             \/ InputRefused(r) \/ InputReset(r) \/ InputDropped(r)
             \/ InputDefer(r) \/ InputWake(r) \/ ForwardDefer(r)
             \/ ForwardWake(r) \/ ForwardAbandon(r)
      PROVE  PhaseInv'
  BY <1>7
  DEF InputRefused, InputReset, InputDropped, InputDefer, InputWake, ForwardDefer,
      ForwardWake, ForwardAbandon, Goto, TypeOK, ThreadTypes
<1>8. ASSUME NEW r \in Receivers, InputNext(r)
      PROVE  PhaseInv'
  BY <1>8 DEF InputNext, NextSegment, AtSegment
<1>9. ASSUME NEW r \in Receivers, Forward(r)
      PROVE  PhaseInv'
  BY <1>9 DEF Forward
<1>10. ASSUME DevStep
       PROVE  PhaseInv'
  <2>1. dev.state # "closed"
    BY <1>10 DEF DevStep, DevAnswer, DevData, DevAck, DevRead, DevReset
  <2> QED
    BY <1>10, <2>1 DEF DevStep
<1>11. CASE UNCHANGED vars
  BY <1>11 DEF vars
<1> QED
  BY <1>1, <1>2, <1>3, <1>4, <1>5, <1>6, <1>7, <1>8, <1>9, <1>10, <1>11
  DEF Next, Connect, SendLoop, Receive, Deconstruct

\* Every step keeps the sender awake unless the window is full: what opens the
\* window also empties _canSendEvent.
LEMMA SleepKept ==
  ASSUME TypeOK, PhaseInv, SleepInv, [Next]_vars
  PROVE  SleepInv'
<1> USE DEF SleepInv, SleepsOnlyWhenFull, Unacked, tcpVars, loopVars
<1>1. ASSUME \/ ConnectAnswered \/ ConnectResult \/ ClientDies \/ DevStep
      PROVE  SleepInv'
  BY <1>1 DEF ConnectAnswered, ConnectResult, ClientDies, DevStep
<1>2. ASSUME ConnectTicket \/ ConnectSyn \/ ConnectOwn
      PROVE  SleepInv'
  <2>1. Sender \notin asleep.send
    BY <1>2 DEF PhaseInv, ConnectTicket, ConnectSyn, ConnectOwn
  <2>2. asleep'.send = asleep.send
    BY <1>2 DEF ConnectTicket, ConnectSyn, ConnectOwn, TypeOK, TcpTypes
  <2> QED
    BY <2>1, <2>2
<1>3. ASSUME NEW n \in 1 .. MaxHost, Recv(n)
      PROVE  SleepInv'
  BY <1>3 DEF Recv
<1>4. ASSUME RecvClosed \/ RecvFails \/ SendData \/ SendWake
      PROVE  SleepInv'
  <2>1. Sender \notin asleep.send /\ asleep' = asleep
    BY <1>4 DEF RecvClosed, RecvFails, SendData, SendWake
  <2> QED
    BY <2>1
<1>5. ASSUME SendSleep
      PROVE  SleepInv'
  BY <1>5 DEF SendSleep
<1>6. ASSUME NEW r \in Receivers, InputSynAck(r)
      PROVE  SleepInv'
  <2>1. Sender \notin asleep.send
    BY <1>6 DEF PhaseInv, InputSynAck
  <2>2. asleep'.send = asleep.send
    BY <1>6 DEF InputSynAck, TypeOK, TcpTypes
  <2> QED
    BY <2>1, <2>2
<1>7. ASSUME NEW r \in Receivers, InputDefer(r)
      PROVE  SleepInv'
  <2>1. Sender \in asleep'.send => Sender \in asleep.send
    BY <1>7, ThreadsAssumption DEF InputDefer, TypeOK, TcpTypes
  <2> QED
    BY <1>7, <2>1 DEF InputDefer
<1>8. ASSUME NEW r \in Receivers, InputNext(r)
      PROVE  SleepInv'
  <2>1. asleep'.send = {}
    BY <1>8 DEF InputNext, TypeOK, TcpTypes
  <2> QED
    BY <2>1
<1>9. ASSUME NEW r \in Receivers, InputRefused(r) \/ ForwardDefer(r)
      PROVE  SleepInv'
  <2>1. asleep'.send = asleep.send
    BY <1>9 DEF InputRefused, ForwardDefer, TypeOK, TcpTypes
  <2> QED
    BY <1>9, <2>1 DEF InputRefused, ForwardDefer
<1>10. ASSUME NEW r \in Receivers, Forward(r)
       PROVE  SleepInv'
  <2>1. /\ asleep'.send = asleep.send
        /\ stx'.seq = stx.seq /\ stx'.seqAcked = stx.seqAcked
        /\ stx'.inWin = stx.inWin
    BY <1>10 DEF Forward, TypeOK, TcpTypes
  <2> QED
    BY <1>10, <2>1 DEF Forward
<1>11. ASSUME NEW r \in Receivers,
              \/ Take(r) \/ InputReset(r) \/ InputDropped(r) \/ InputWake(r)
              \/ ForwardWake(r) \/ ForwardAbandon(r)
       PROVE  SleepInv'
  BY <1>11 DEF Take, InputReset, InputDropped, InputWake, ForwardWake, ForwardAbandon
<1>12. ASSUME DeconstructStx
       PROVE  SleepInv'
  <2>1. asleep'.send = {}
    BY <1>12 DEF DeconstructStx, TypeOK, TcpTypes
  <2> QED
    BY <2>1
<1>13. ASSUME DeconstructErase
       PROVE  SleepInv'
  <2>1. asleep'.send = asleep.send
    BY <1>13 DEF DeconstructErase, TypeOK, TcpTypes
  <2> QED
    BY <1>13, <2>1 DEF DeconstructErase
<1>14. CASE UNCHANGED vars
  BY <1>14 DEF vars
<1> QED
  BY <1>1, <1>2, <1>3, <1>4, <1>5, <1>6, <1>7, <1>8, <1>9, <1>10, <1>11, <1>12,
     <1>13, <1>14
  DEF Next, Connect, SendLoop, Receive, Deconstruct

-----------------------------------------------------------------------------
(* The stream to the client, and the turns of the receivers. *)

\* Receivers with payload that was accepted and is not forwarded yet.
Holding == {r \in Receivers : rpc[r] \in {"forward", "turn"}}

\* Nobody sleeps when it is its turn, neither for the next segment
\* (TCP.cpp:331-337) nor for forwarding (TCP.cpp:374-380), and while the connection
\* is up some receiver has the turn when there is something to forward.
NoMissedTurn ==
  /\ \A r \in asleep.send \cap Receivers : pkt[r].seq # stx.ack
  /\ \A r \in asleep.client : ~MyTurn(r)
  /\ connState = "connected" /\ Holding # {} => \E r \in Holding : MyTurn(r)

\* Counted from the number of its answer, which is taken as it comes (TCP.cpp:315),
\* the device's stream begins at 1.
AnswerInv ==
  /\ \A i \in 1 .. Len(wire) : wire[i].kind = "synack" => wire[i].seq = 0
  /\ \A r \in Receivers : pkt[r].kind = "synack" => pkt[r].seq = 0

\* Before the answer there is no payload, and nobody waits.
QuietInv ==
  connState = "connecting" =>
    /\ delivered = << >> /\ ~sendFailed
    /\ \A r \in Receivers : rpc[r] \in {"idle", "input"}

\* Who sleeps is at the wait, and it is not its turn.
WaitInv ==
  /\ \A r \in asleep.send \cap Receivers : rpc[r] = "order" /\ pkt[r].seq # stx.ack
  /\ \A r \in asleep.client : rpc[r] = "turn" /\ pkt[r].seq # stx.pktForwarded

\* What was accepted and not forwarded is held, each piece by one receiver.
HeldInv ==
  /\ \A r \in Holding : pkt[r].len = 1
  /\ connState = "connected" =>
       /\ stx.pktForwarded <= stx.ack
       /\ \A r \in Holding : pkt[r].seq \in stx.pktForwarded .. stx.ack - 1
       /\ \A r, q \in Holding : pkt[r].seq = pkt[q].seq => r = q
       /\ \A n \in stx.pktForwarded .. stx.ack - 1 : \E r \in Holding : pkt[r].seq = n

\* The client has what was forwarded, in order; all of it unless a send failed.
GotInv ==
  /\ \A i \in 1 .. Len(delivered) : delivered[i] < stx.pktForwarded
  /\ \A i \in 2 .. Len(delivered) : delivered[i - 1] < delivered[i]
  /\ ~sendFailed =>
       /\ \A i \in 1 .. Len(delivered) : delivered[i] = i
       /\ connState = "connected" => stx.pktForwarded = Len(delivered) + 1

StreamInv == AnswerInv /\ QuietInv /\ WaitInv /\ HeldInv /\ GotInv

\* Steps that are about neither the segments nor the turns.
LEMMA StillKeeps ==
  ASSUME TypeOK, StreamInv, UNCHANGED <<rpc, pkt, delivered, sendFailed>>,
         stx'.ack = stx.ack, stx'.pktForwarded = stx.pktForwarded,
         asleep'.send \cap Receivers \subseteq asleep.send,
         asleep'.client \subseteq asleep.client,
         connState' = connState \/ connState' \notin {"connecting", "connected"},
         AnswerInv'
  PROVE  StreamInv'
<1>1. QuietInv' /\ WaitInv'
  BY DEF StreamInv, QuietInv, WaitInv
<1>2. Holding' = Holding
  BY DEF Holding
<1>3. HeldInv'
  BY <1>2 DEF StreamInv, HeldInv
<1>4. GotInv'
  BY DEF StreamInv, GotInv
<1> QED
  BY <1>1, <1>3, <1>4 DEF StreamInv

\* The host's other threads and the client (TCP.cpp:182-241, 401-450).
LEMMA ThreadsKeepStream ==
  ASSUME TypeOK, StreamInv,
         \/ Connect \/ SendLoop \/ Deconstruct \/ ClientDies
         \/ \E n \in 1 .. MaxHost : Recv(n)
  PROVE  StreamInv'
<1>1. UNCHANGED <<wire, rpc, pkt, delivered, sendFailed>>
  BY DEF Connect, ConnectTicket, ConnectSyn, ConnectAnswered, ConnectResult, ConnectOwn,
         SendLoop, RecvClosed, RecvFails, SendData, SendSleep, SendWake, Recv, ClientDies,
         Deconstruct, DeconstructStx, DeconstructErase, receiverVars, clientVars,
         deviceVars
<1>2. stx'.ack = stx.ack /\ stx'.pktForwarded = stx.pktForwarded
  <2>1. CASE ConnectSyn \/ SendData
    BY <2>1 DEF ConnectSyn, SendData, TypeOK, TcpTypes
  <2>2. CASE ~(ConnectSyn \/ SendData)
    BY <2>2
    DEF Connect, ConnectTicket, ConnectAnswered, ConnectResult, ConnectOwn,
        SendLoop, RecvClosed, RecvFails, SendSleep, SendWake, Recv, ClientDies,
        Deconstruct, DeconstructStx, DeconstructErase, tcpVars
  <2> QED
    BY <2>1, <2>2
<1>3. connState' \in {connState, "dying"}
  BY DEF Connect, ConnectTicket, ConnectSyn, ConnectAnswered, ConnectResult, ConnectOwn,
         SendLoop, RecvClosed, RecvFails, SendData, SendSleep, SendWake, Recv, ClientDies,
         Deconstruct, DeconstructStx, DeconstructErase, tcpVars
<1>4. asleep'.send \cap Receivers \subseteq asleep.send /\ asleep'.client \subseteq asleep.client
  <2>1. CASE SendSleep
    <3>1. asleep'.send = asleep.send \cup {Sender} /\ asleep'.client = asleep.client
      BY <2>1 DEF SendSleep, TypeOK, TcpTypes
    <3> QED
      BY <3>1, ThreadsAssumption
  <2>3. CASE ConnectTicket \/ DeconstructStx \/ DeconstructErase
    <3>1. asleep'.send \subseteq asleep.send /\ asleep'.client \subseteq asleep.client
      BY <2>3 DEF ConnectTicket, DeconstructStx, DeconstructErase, TypeOK, TcpTypes
    <3> QED
      BY <3>1
  <2>2. CASE ~(ConnectTicket \/ SendSleep \/ DeconstructStx \/ DeconstructErase)
    <3>1. asleep' = asleep
      BY <2>2
      DEF Connect, ConnectSyn, ConnectAnswered, ConnectResult, ConnectOwn, SendData,
          SendLoop, RecvClosed, RecvFails, SendWake, Recv, ClientDies, Deconstruct, tcpVars
    <3> QED
      BY <3>1
  <2> QED
    BY <2>1, <2>2, <2>3
<1>5. AnswerInv'
  BY <1>1 DEF StreamInv, AnswerInv
<1> QED
  BY <1>1, <1>2, <1>3, <1>4, <1>5, StillKeeps

\* The device answers once, before it sends anything else.
LEMMA DevKeepsStream ==
  ASSUME TypeOK, StreamInv, DevStep
  PROVE  StreamInv'
<1>1. UNCHANGED <<connState, stx, asleep, rpc, pkt, delivered, sendFailed>>
  BY DEF DevStep, tcpVars, receiverVars, clientVars
<1>2. ASSUME NEW kind, NEW len, NEW state, DevSend(kind, len, state),
             kind = "synack" => dev.seq = 0
      PROVE  AnswerInv'
  <2> DEFINE p == [kind |-> kind, seq |-> dev.seq, ack |-> dev.got,
                   win |-> dev.read + DevBuf - dev.got, len |-> len]
  <2>1. wire' = Append(wire, p) /\ wire \in Seq(Packet)
    BY <1>2 DEF DevSend, TypeOK, DeviceTypes
  <2>2. p.kind = "synack" => p.seq = 0
    BY <1>2
  <2> HIDE DEF p
  <2>3. ASSUME NEW i \in 1 .. Len(wire'), wire'[i].kind = "synack" PROVE wire'[i].seq = 0
    <3>1. CASE i = Len(wire) + 1
      <4>1. wire'[i] = p
        BY <2>1, <3>1
      <4> QED
        BY <2>2, <2>3, <4>1
    <3>2. CASE i # Len(wire) + 1
      <4>1. i \in 1 .. Len(wire) /\ wire'[i] = wire[i]
        BY <2>1, <3>2
      <4> QED
        BY <2>3, <4>1 DEF StreamInv, AnswerInv
    <3> QED
      BY <3>1, <3>2
  <2> QED
    BY <1>1, <2>3 DEF StreamInv, AnswerInv
<1>3. AnswerInv'
  <2>1. CASE DevRead
    BY <1>1, <2>1 DEF DevRead, StreamInv, AnswerInv
  <2>2. CASE DevAnswer \/ DevData \/ DevAck \/ DevReset
    BY <1>2, <2>2 DEF DevAnswer, DevData, DevAck, DevReset
  <2> QED
    BY <2>1, <2>2 DEF DevStep
<1> QED
  BY <1>1, <1>3, StillKeeps

\* A receiver that holds no accepted payload and changes its place alone
\* (USBDevice.cpp:464-472, TCP.cpp:299-337).
LEMMA OneMoves ==
  ASSUME TypeOK, StreamInv, NEW r \in Receivers,
         r \notin Holding, NEW label \in {"idle", "input", "order", "again"}, Goto(r, label),
         UNCHANGED <<stx, delivered, sendFailed>>,
         \A q \in Receivers : q # r => pkt'[q] = pkt[q],
         asleep'.client = asleep.client,
         \A q \in asleep'.send \cap Receivers :
           IF q = r THEN label = "order" /\ pkt'[r].seq # stx.ack ELSE q \in asleep.send,
         connState' = connState \/ connState' \notin {"connecting", "connected"},
         connState' = "connecting" => label \in {"idle", "input"},
         AnswerInv'
  PROVE  StreamInv'
<1>1. \A q \in Receivers : rpc'[q] = IF q = r THEN label ELSE rpc[q]
  BY DEF Goto, TypeOK, ThreadTypes
<1>2. Holding' = Holding /\ \A q \in Holding : q # r /\ pkt'[q] = pkt[q]
  BY <1>1 DEF Holding
<1>3. QuietInv'
  BY <1>1 DEF StreamInv, QuietInv
<1>4. WaitInv'
  <2>1. asleep.client \subseteq Receivers
    BY DEF TypeOK, TcpTypes
  <2>2. r \notin asleep.client
    BY DEF StreamInv, WaitInv, Holding
  <2> QED
    BY <1>1, <2>1, <2>2 DEF StreamInv, WaitInv
<1>5. HeldInv'
  BY <1>2 DEF StreamInv, HeldInv
<1>6. GotInv'
  BY DEF StreamInv, GotInv
<1> QED
  BY <1>3, <1>4, <1>5, <1>6 DEF StreamInv

\* What comes in and is no next segment: taken, refused, reset, dropped, or made to
\* wait (USBDevice.cpp:464-472, TCP.cpp:322-337).
LEMMA InputKeepsStream ==
  ASSUME TypeOK, StreamInv, NEW r \in Receivers,
         \/ Take(r) \/ InputRefused(r) \/ InputReset(r) \/ InputDropped(r)
         \/ InputDefer(r) \/ InputWake(r)
  PROVE  StreamInv'
<1>0. asleep.send \cap Receivers \subseteq Receivers
  OBVIOUS
<1>1. CASE Take(r)
  <2>1. wire \in Seq(Packet) /\ wire # << >> /\ wire' = Tail(wire)
        /\ pkt' = [pkt EXCEPT ![r] = wire[1]] /\ rpc[r] = "idle"
    BY <1>1 DEF Take, TypeOK, DeviceTypes
  <2>2. \A q \in Receivers : pkt'[q] = IF q = r THEN wire[1] ELSE pkt[q]
    BY <2>1 DEF TypeOK, ThreadTypes
  <2>3. \A i \in 1 .. Len(wire') : wire'[i] = wire[i + 1] /\ i + 1 \in 1 .. Len(wire)
    BY <2>1
  <2>4. 1 \in 1 .. Len(wire)
    BY <2>1
  <2>5. AnswerInv'
    BY <2>2, <2>3, <2>4 DEF StreamInv, AnswerInv
  <2>6. r \notin Holding /\ r \notin asleep.send
    BY <2>1 DEF Holding, StreamInv, WaitInv
  <2>7. PICK label \in {"idle", "input"} : Goto(r, label)
    BY <1>1 DEF Take
  <2> QED
    BY <1>1, <2>2, <2>5, <2>6, <2>7, OneMoves DEF Take, tcpVars, clientVars
<1>2. CASE \/ InputRefused(r) \/ InputReset(r) \/ InputDropped(r) \/ InputDefer(r)
           \/ InputWake(r)
  <2>1. UNCHANGED <<stx, wire, pkt, delivered, sendFailed>>
    BY <1>2 DEF InputRefused, InputReset, InputDropped, InputDefer, InputWake, clientVars,
                deviceVars, tcpVars
  <2>2. AnswerInv'
    BY <2>1 DEF StreamInv, AnswerInv
  <2>3. r \notin Holding /\ r \notin asleep.client
    BY <1>2 DEF InputRefused, InputReset, InputDropped, InputDefer, AtSegment, InputWake,
                Holding, StreamInv, WaitInv
  <2>4. connState' = connState \/ connState' = "refused"
    BY <1>2 DEF InputRefused, InputReset, InputDropped, InputDefer, InputWake, tcpVars
  <2>5. asleep'.client = asleep.client
    BY <1>2 DEF InputRefused, InputReset, InputDropped, InputDefer, InputWake, tcpVars,
                TypeOK, TcpTypes
  <2>6. CASE InputDefer(r)
    <3>1. asleep'.send = asleep.send \cup {r} /\ pkt[r].seq # stx.ack
      BY <2>6 DEF InputDefer, TypeOK, TcpTypes
    <3>2. connState # "connecting"
      BY <2>6 DEF InputDefer, AtSegment, StreamInv, QuietInv
    <3> QED
      BY <2>1, <2>2, <2>3, <2>5, <2>6, <3>1, <3>2, OneMoves DEF InputDefer
  <2>7. CASE InputRefused(r) \/ InputReset(r) \/ InputDropped(r) \/ InputWake(r)
    <3>1. asleep'.send = asleep.send /\ r \notin asleep.send
      BY <2>7 DEF InputRefused, InputReset, InputDropped, InputWake, tcpVars,
                  TypeOK, TcpTypes, StreamInv, WaitInv
    <3>2. PICK label \in {"idle", "again"} : Goto(r, label) /\ (label = "again" => connState = "connected")
      BY <2>7 DEF InputRefused, InputReset, InputDropped, InputWake
    <3>3. connState' = "connecting" => connState = "connecting"
      BY <2>4
    <3> QED
      BY <2>1, <2>2, <2>3, <2>4, <2>5, <3>1, <3>2, <3>3, OneMoves
  <2> QED
    BY <1>2, <2>6, <2>7
<1> QED
  BY <1>1, <1>2

\* The answer opens an empty stream (TCP.cpp:311-321).
LEMMA AnswerOpensStream ==
  ASSUME TypeOK, StreamInv, NEW r \in Receivers, InputSynAck(r)
  PROVE  StreamInv'
<1>1. /\ connState = "connecting" /\ connState' = "connected"
      /\ rpc[r] = "input" /\ pkt[r].kind = "synack"
      /\ UNCHANGED <<wire, pkt, delivered, sendFailed>>
  BY DEF InputSynAck, clientVars
<1>2. pkt[r].seq = 0
  BY <1>1 DEF StreamInv, AnswerInv
<1>3. stx'.ack = 1 /\ stx'.pktForwarded = 1
  BY <1>2 DEF InputSynAck, TypeOK, TcpTypes
<1>4. asleep'.send = asleep.send /\ asleep'.client = asleep.client
  BY DEF InputSynAck, TypeOK, TcpTypes
<1>5. \A q \in Receivers : rpc'[q] = IF q = r THEN "idle" ELSE rpc[q]
  BY DEF InputSynAck, Goto, TypeOK, ThreadTypes
<1>6. /\ delivered = << >> /\ ~sendFailed
      /\ \A q \in Receivers : rpc[q] \in {"idle", "input"}
  BY <1>1 DEF StreamInv, QuietInv
<1>7. asleep.send \cap Receivers = {} /\ asleep.client = {}
  <2>1. asleep.client \subseteq Receivers
    BY DEF TypeOK, TcpTypes
  <2> QED
    BY <1>6, <2>1 DEF StreamInv, WaitInv
<1>8. Holding' = {}
  BY <1>5, <1>6 DEF Holding
<1>9. AnswerInv' /\ QuietInv'
  BY <1>1 DEF StreamInv, AnswerInv, QuietInv
<1>10. WaitInv'
  BY <1>4, <1>7 DEF WaitInv
<1>11. HeldInv'
  BY <1>3, <1>8 DEF HeldInv
<1>12. GotInv'
  BY <1>1, <1>3, <1>6 DEF GotInv
<1> QED
  BY <1>9, <1>10, <1>11, <1>12 DEF StreamInv

\* The next segment: its payload is held from now on (TCP.cpp:339-349).
LEMMA NextKeepsStream ==
  ASSUME TypeOK, StreamInv, NEW r \in Receivers, InputNext(r)
  PROVE  StreamInv'
<1> DEFINE n == pkt[r].len
<1>1. /\ AtSegment(r) /\ pkt[r].seq = stx.ack /\ n \in {0, 1}
      /\ UNCHANGED <<connState, wire, pkt, delivered, sendFailed>>
  <2>1. pkt[r] \in Packet
    BY DEF TypeOK, ThreadTypes
  <2> QED
    BY <2>1, PacketFields DEF InputNext, NextSegment, clientVars, deviceVars
<1>2. stx'.ack = stx.ack + n /\ stx'.pktForwarded = stx.pktForwarded
  BY DEF InputNext, NextSegment, TypeOK, TcpTypes
<1>3. asleep'.send = {} /\ asleep'.client = asleep.client
  BY DEF InputNext, TypeOK, TcpTypes
<1>4. \A q \in Receivers : rpc'[q] = IF q = r THEN IF n > 0 THEN "forward" ELSE "idle"
                                     ELSE rpc[q]
  BY DEF InputNext, NextSegment, Goto, TypeOK, ThreadTypes
<1>5. rpc[r] \in {"input", "again"} /\ r \notin Holding
  BY <1>1 DEF AtSegment, Holding
<1>6. connState # "connecting"
  BY <1>1 DEF AtSegment, StreamInv, QuietInv
<1>7. stx.ack \in Nat /\ stx.pktForwarded \in Nat
  BY StateFields
<1>8. AnswerInv' /\ QuietInv'
  BY <1>1, <1>6 DEF StreamInv, AnswerInv, QuietInv
<1>9. WaitInv'
  <2>1. asleep.client \subseteq Receivers /\ r \notin asleep.client
    BY <1>5 DEF TypeOK, TcpTypes, StreamInv, WaitInv
  <2> QED
    BY <1>1, <1>2, <1>3, <1>4, <2>1 DEF StreamInv, WaitInv
<1>10. GotInv'
  BY <1>1, <1>2 DEF StreamInv, GotInv
<1>11. HeldInv'
  <2>1. CASE n = 0
    <3>1. Holding' = Holding
      BY <1>4, <1>5, <2>1 DEF Holding
    <3> QED
      BY <1>1, <1>2, <1>7, <2>1, <3>1 DEF StreamInv, HeldInv
  <2>2. CASE n = 1
    <3>1. Holding' = Holding \cup {r} /\ stx'.ack = stx.ack + 1
      BY <1>2, <1>4, <2>2 DEF Holding
    <3>2. \A q \in Holding' : pkt'[q].len = 1
      BY <1>1, <2>2, <3>1 DEF StreamInv, HeldInv
    <3>3. ASSUME connState = "connected"
          PROVE  /\ stx'.pktForwarded <= stx'.ack
                 /\ \A q \in Holding' : pkt'[q].seq \in stx'.pktForwarded .. stx'.ack - 1
                 /\ \A p, q \in Holding' : pkt'[p].seq = pkt'[q].seq => p = q
                 /\ \A i \in stx'.pktForwarded .. stx'.ack - 1 :
                      \E q \in Holding' : pkt'[q].seq = i
      <4>1. /\ stx.pktForwarded <= stx.ack
            /\ \A q \in Holding : pkt[q].seq \in stx.pktForwarded .. stx.ack - 1
            /\ \A p, q \in Holding : pkt[p].seq = pkt[q].seq => p = q
            /\ \A i \in stx.pktForwarded .. stx.ack - 1 : \E q \in Holding : pkt[q].seq = i
        BY <3>3 DEF StreamInv, HeldInv
      <4>2. \A q \in Holding : pkt[q].seq # pkt[r].seq
        BY <1>1, <1>7, <4>1
      <4>3. stx.pktForwarded .. stx'.ack - 1 = stx.pktForwarded .. stx.ack - 1 \cup {stx.ack}
        BY <1>7, <3>1, <4>1
      <4> QED
        BY <1>1, <1>2, <1>7, <3>1, <4>1, <4>2, <4>3
    <3> QED
      BY <1>1, <3>2, <3>3 DEF HeldInv
  <2> QED
    BY <1>1, <2>1, <2>2
<1> QED
  BY <1>8, <1>9, <1>10, <1>11 DEF StreamInv

\* Waiting for the turn, and giving up (TCP.cpp:374-381).
LEMMA TurnsKeepStream ==
  ASSUME TypeOK, StreamInv, NEW r \in Receivers,
         ForwardDefer(r) \/ ForwardWake(r) \/ ForwardAbandon(r)
  PROVE  StreamInv'
<1>1. /\ UNCHANGED <<stx, wire, pkt, connState, delivered, sendFailed>>
      /\ asleep'.send = asleep.send /\ r \in Holding
  BY DEF ForwardDefer, ForwardWake, ForwardAbandon, tcpVars, clientVars, deviceVars,
         TypeOK, TcpTypes, Holding
<1>2. PICK label \in {"turn", "forward", "idle"} :
        /\ Goto(r, label)
        /\ label = "turn" => asleep'.client = asleep.client \cup {r} /\ ~MyTurn(r)
        /\ label # "turn" => asleep'.client = asleep.client /\ r \notin asleep.client
        /\ label = "idle" => connState # "connected"
  BY DEF ForwardDefer, ForwardWake, ForwardAbandon, tcpVars, TypeOK, TcpTypes, StreamInv,
         WaitInv
<1>3. \A q \in Receivers : rpc'[q] = IF q = r THEN label ELSE rpc[q]
  BY <1>2 DEF Goto, TypeOK, ThreadTypes
<1>4. AnswerInv' /\ QuietInv'
  BY <1>1 DEF StreamInv, AnswerInv, QuietInv, Holding
<1>5. WaitInv'
  <2>1. asleep.client \subseteq Receivers /\ r \notin asleep.send
    BY <1>1 DEF TypeOK, TcpTypes, StreamInv, WaitInv, Holding
  <2> QED
    BY <1>1, <1>2, <1>3, <2>1 DEF StreamInv, WaitInv, MyTurn
<1>6. HeldInv'
  <2>1. Holding' = IF label = "idle" THEN Holding \ {r} ELSE Holding
    BY <1>1, <1>3 DEF Holding
  <2> QED
    BY <1>1, <1>2, <2>1 DEF StreamInv, HeldInv
<1>7. GotInv'
  BY <1>1 DEF StreamInv, GotInv
<1> QED
  BY <1>4, <1>5, <1>6, <1>7 DEF StreamInv

\* Forwarding hands the turn on (TCP.cpp:382-391).
LEMMA ForwardKeepsStream ==
  ASSUME TypeOK, StreamInv, NEW r \in Receivers, Forward(r)
  PROVE  StreamInv'
<1> DEFINE f == stx.pktForwarded
<1>1. /\ UNCHANGED <<connState, wire, pkt>>
      /\ connState = "connected" /\ r \in Holding /\ rpc[r] = "forward"
      /\ pkt[r].seq = f
  BY DEF Forward, MyTurn, deviceVars, Holding
<1>2. /\ pkt[r].len = 1 /\ f < stx.ack
      /\ \A q \in Holding : pkt[q].seq \in f .. stx.ack - 1
      /\ \A p, q \in Holding : pkt[p].seq = pkt[q].seq => p = q
      /\ \A i \in f .. stx.ack - 1 : \E q \in Holding : pkt[q].seq = i
  BY <1>1, StateFields DEF StreamInv, HeldInv
<1>3. stx'.ack = stx.ack /\ stx'.pktForwarded = f + 1 /\ f \in Nat /\ stx.ack \in Nat
  BY <1>2 DEF Forward, TypeOK, TcpTypes
<1>4. asleep'.send = asleep.send /\ asleep'.client = {}
  BY DEF Forward, TypeOK, TcpTypes
<1>5. \A q \in Receivers : rpc'[q] = IF q = r THEN "idle" ELSE rpc[q]
  BY DEF Forward, Goto, TypeOK, ThreadTypes
<1>6. AnswerInv' /\ QuietInv'
  BY <1>1 DEF StreamInv, AnswerInv, QuietInv
<1>7. WaitInv'
  <2>1. r \notin asleep.send
    BY <1>1 DEF StreamInv, WaitInv
  <2> QED
    BY <1>1, <1>3, <1>4, <1>5, <2>1 DEF StreamInv, WaitInv
<1>8. HeldInv'
  <2>1. Holding' = Holding \ {r}
    BY <1>5 DEF Holding
  <2>2. \A q \in Holding' : pkt'[q].len = 1 /\ pkt'[q].seq \in f + 1 .. stx.ack - 1
    <3>1. \A q \in Holding' : pkt[q].seq # f /\ q \in Holding
      BY <1>1, <1>2, <2>1
    <3>2. \A q \in Holding' : pkt[q].len = 1
      BY <3>1 DEF StreamInv, HeldInv
    <3> QED
      BY <1>1, <1>2, <1>3, <3>1, <3>2
  <2>3. \A p, q \in Holding' : pkt'[p].seq = pkt'[q].seq => p = q
    BY <1>1, <1>2, <2>1
  <2>4. \A i \in f + 1 .. stx.ack - 1 : \E q \in Holding' : pkt'[q].seq = i
    <3>1. ASSUME NEW i \in f + 1 .. stx.ack - 1 PROVE \E q \in Holding' : pkt'[q].seq = i
      <4>1. i \in f .. stx.ack - 1 /\ i # f
        BY <1>3
      <4>2. PICK q \in Holding : pkt[q].seq = i
        BY <1>2, <4>1
      <4> QED
        BY <1>1, <2>1, <4>1, <4>2
    <3> QED
      BY <3>1
  <2> QED
    BY <1>2, <1>3, <2>2, <2>3, <2>4 DEF HeldInv
<1>9. GotInv'
  <2>1. delivered \in Seq(Nat)
    BY DEF TypeOK, DataTypes
  <2>2. CASE UNCHANGED delivered /\ sendFailed'
    <3>1. \A i \in 1 .. Len(delivered) : delivered[i] < f /\ delivered[i] \in Nat
      BY <2>1 DEF StreamInv, GotInv
    <3> QED
      BY <1>3, <2>2, <3>1 DEF StreamInv, GotInv
  <2>3. CASE UNCHANGED sendFailed /\ delivered' = Append(delivered, f)
    <3> DEFINE k == Len(delivered)
    <3>1. /\ k \in Nat /\ Len(delivered') = k + 1
          /\ \A i \in 1 .. k : delivered'[i] = delivered[i] /\ delivered[i] \in Nat
          /\ delivered'[k + 1] = f
      BY <1>3, <2>1, <2>3
    <3>2. \A i \in 1 .. k : delivered[i] < f
      BY DEF StreamInv, GotInv
    <3>3. \A i \in 1 .. k + 1 : delivered'[i] < f + 1
      BY <1>3, <3>1, <3>2
    <3>4. \A i \in 2 .. k + 1 : delivered'[i - 1] < delivered'[i]
      <4>1. ASSUME NEW i \in 2 .. k + 1 PROVE delivered'[i - 1] < delivered'[i]
        <5>1. CASE i = k + 1
          BY <3>1, <3>2, <5>1
        <5>2. CASE i # k + 1
          <6>1. i \in 2 .. k /\ i \in 1 .. k /\ i - 1 \in 1 .. k
            BY <3>1, <5>2
          <6>2. delivered[i - 1] < delivered[i]
            BY <6>1 DEF StreamInv, GotInv
          <6> QED
            BY <3>1, <6>1, <6>2
        <5> QED
          BY <5>1, <5>2
      <4> QED
        BY <4>1
    <3>5. ~sendFailed => f = k + 1 /\ \A i \in 1 .. k + 1 : delivered'[i] = i
      <4>1. ~sendFailed => f = k + 1 /\ \A i \in 1 .. k : delivered[i] = i
        BY <1>1 DEF StreamInv, GotInv
      <4> QED
        BY <3>1, <4>1
    <3> HIDE DEF k
    <3> QED
      BY <1>3, <2>3, <3>1, <3>3, <3>4, <3>5 DEF GotInv
  <2> QED
    BY <1>1, <2>2, <2>3 DEF Forward, MyTurn
<1> QED
  BY <1>6, <1>7, <1>8, <1>9 DEF StreamInv

\* Every step keeps the stream.
LEMMA StreamKept ==
  ASSUME TypeOK, StreamInv, [Next]_vars
  PROVE  StreamInv'
<1>1. CASE \/ Connect \/ SendLoop \/ Deconstruct \/ ClientDies
           \/ \E n \in 1 .. MaxHost : Recv(n)
  BY <1>1, ThreadsKeepStream
<1>2. CASE \E r \in Receivers : Receive(r)
  <2>1. PICK r \in Receivers : Receive(r)
    BY <1>2
  <2>2. CASE \/ Take(r) \/ InputRefused(r) \/ InputReset(r) \/ InputDropped(r)
             \/ InputDefer(r) \/ InputWake(r)
    BY <2>2, InputKeepsStream
  <2>3. CASE ForwardDefer(r) \/ ForwardWake(r) \/ ForwardAbandon(r)
    BY <2>3, TurnsKeepStream
  <2> QED
    BY <2>1, <2>2, <2>3, AnswerOpensStream, NextKeepsStream, ForwardKeepsStream
    DEF Receive
<1>3. CASE DevStep
  BY <1>3, DevKeepsStream
<1>4. CASE UNCHANGED vars
  <2>1. UNCHANGED <<stx, asleep, connState, rpc, pkt, wire, delivered, sendFailed>>
    BY <1>4 DEF vars, tcpVars, receiverVars, clientVars, deviceVars
  <2>2. AnswerInv'
    BY <2>1 DEF StreamInv, AnswerInv
  <2> QED
    BY <2>1, <2>2, StillKeeps
<1> QED
  BY <1>1, <1>2, <1>3, <1>4 DEF Next

\* Nothing was sent, and nobody waits.
LEMMA StreamStarts == Init => StreamInv
<1> SUFFICES ASSUME Init PROVE StreamInv
  OBVIOUS
<1>1. AnswerInv
  BY DEF Init, AnswerInv, NoPacket
<1>2. QuietInv /\ WaitInv
  BY DEF Init, QuietInv, WaitInv
<1>3. Holding = {}
  BY DEF Init, Holding
<1>4. HeldInv
  BY <1>3 DEF Init, HeldInv
<1>5. GotInv
  BY DEF Init, GotInv
<1> QED
  BY <1>1, <1>2, <1>4, <1>5 DEF StreamInv

\* While something is held, the piece to be forwarded next is.
LEMMA StreamTurns ==
  ASSUME TypeOK, StreamInv
  PROVE  NoMissedTurn
<1>1. asleep.client \subseteq Receivers
  BY DEF TypeOK, TcpTypes
<1>2. \A r \in asleep.send \cap Receivers : pkt[r].seq # stx.ack
  BY DEF StreamInv, WaitInv
<1>3. \A r \in asleep.client : ~MyTurn(r)
  BY <1>1 DEF StreamInv, WaitInv, MyTurn
<1>4. ASSUME connState = "connected", NEW q \in Holding
      PROVE  \E r \in Holding : MyTurn(r)
  <2>1. pkt[q].seq \in stx.pktForwarded .. stx.ack - 1
    BY <1>4 DEF StreamInv, HeldInv
  <2>2. stx.pktForwarded \in stx.pktForwarded .. stx.ack - 1
    BY <2>1, StateFields
  <2>3. PICK r \in Holding : pkt[r].seq = stx.pktForwarded
    BY <1>4, <2>2 DEF StreamInv, HeldInv
  <2> QED
    BY <2>3 DEF MyTurn
<1> QED
  BY <1>2, <1>3, <1>4 DEF NoMissedTurn

-----------------------------------------------------------------------------
(* The theorems. *)

\* The invariant from which the theorems follow (class TCP, TCP.cpp).
THEOREM Invariance == Spec => []Inv
<1>1. Init => Inv
  <2> SUFFICES ASSUME Init
               PROVE  Inv
    OBVIOUS
  <2> USE DEF Init
  <2>1. TcpTypes /\ DeviceTypes
    BY SizeTypes DEF TcpTypes, DeviceTypes
  <2>2. FlagTypes
    BY DEF FlagTypes
  <2>3. ThreadTypes
    BY DEF ThreadTypes, Packet, NoPacket
  <2>4. DataTypes
    BY SizesAssumption DEF DataTypes
  <2>5. WindowInv
    BY SizeTypes DEF WindowInv, HostWithin, OffersWithin, Offer, Edge, NoPacket
  <2>6. PhaseInv /\ SleepInv
    BY DEF PhaseInv, SleepInv, SleepsOnlyWhenFull
  <2> QED
    BY <2>1, <2>2, <2>3, <2>4, <2>5, <2>6 DEF Inv, TypeOK
<1>2. Inv /\ [Next]_vars => Inv'
  BY TypesKept, WindowKept, PhaseKept, SleepKept DEF Inv
<1> QED
  BY <1>1, <1>2, PTL DEF Spec

\* Type correctness of a connection (class TCP, TCP.hpp).
THEOREM TypeCorrect == Spec => []TypeOK
<1>1. Inv => TypeOK
  BY DEF Inv
<1> QED
  BY <1>1, Invariance, PTL

\* The host never sends past the edge of the device's buffer, in whatever
\* order the receivers handle its acknowledgements (TCP.cpp:182-241, 339-340).
THEOREM WindowRespected == Spec => []WithinDeviceWindow
<1>1. Inv => WithinDeviceWindow
  BY DEF Inv, WindowInv, HostWithin, Edge, WithinDeviceWindow
<1> QED
  BY <1>1, Invariance, PTL

\* The sender sleeps only while the window it knows of is full: no wakeup is
\* lost between its check and its wait (TCP.cpp:201-214, 349).
THEOREM NoLostWakeup == Spec => []SleepsOnlyWhenFull
<1>1. Inv => SleepsOnlyWhenFull
  BY DEF Inv, SleepInv
<1> QED
  BY <1>1, Invariance, PTL

\* What the receivers hold and what the client has, in every state.
LEMMA StreamAlways == Spec => [](TypeOK /\ StreamInv)
<1>1. Inv => TypeOK
  BY DEF Inv
<1> QED
  BY <1>1, Invariance, StreamStarts, StreamKept, PTL DEF Spec

\* The client gets the payload in the order the device sent it, each piece once,
\* and without a gap unless a send to it failed, however many receivers hold
\* pieces of it (TCP.cpp:330-391).
THEOREM StreamDelivered == Spec => []DeliveredInOrder
<1>1. StreamInv => DeliveredInOrder
  BY DEF StreamInv, GotInv, DeliveredInOrder
<1> QED
  BY <1>1, StreamAlways, PTL

\* No receiver sleeps through its turn, and while the connection is up the piece
\* that is to be forwarded next is in the hands of a receiver that does not sleep:
\* whoever waits for its turn to forward is notified (TCP.cpp:331-337, 374-391).
THEOREM TurnsNotMissed == Spec => []NoMissedTurn
BY StreamTurns, StreamAlways, PTL

-----------------------------------------------------------------------------
(* The client's thread in connect(). *)

\* Who waits for the answer waits while there is none: the ticket taken before the
\* SYN is not passed over by an answer or by the end of the connection
\* (TCP.cpp:401-405).
NoMissedAnswer == Connector \in asleep.conn => connState = "connecting"

\* Nothing happens to a connection before its SYN.
BeforeSyn ==
  /\ connState = "connecting" /\ ~reap
  /\ wire = << >> /\ dev.seq = 0
  /\ \A r \in Receivers : rpc[r] = "idle"

EarlyInv ==
  /\ cpc \in {"connect", "syn"} => BeforeSyn
  /\ NoMissedAnswer
  /\ ~inConns => connState = "dying"

\* Every step keeps it (TCP.cpp:286-325, 401-450).
LEMMA EarlyKept ==
  ASSUME Inv, EarlyInv, [Next]_vars
  PROVE  EarlyInv'
<1>1. asleep \in [conn : SUBSET {Connector}, send : SUBSET (Receivers \cup {Sender}),
                  client : SUBSET Receivers]
  BY DEF Inv, TypeOK, TcpTypes
<1>2. ASSUME UNCHANGED <<cpc, connState, asleep, reap, wire, dev, rpc, inConns>>
      PROVE  EarlyInv'
  BY <1>2 DEF EarlyInv, BeforeSyn, NoMissedAnswer
\* The loop, the receivers and the device are not at work before the SYN.
<1>3. ASSUME cpc' = cpc, cpc \notin {"connect", "syn"},
             asleep'.conn \subseteq asleep.conn,
             \/ connState' = connState
             \/ connState # "dying" /\ asleep'.conn = {},
             inConns' = inConns \/ connState' = "dying"
      PROVE  EarlyInv'
  BY <1>3 DEF EarlyInv, NoMissedAnswer
<1>4. CASE Connect
  <2>1. CASE ConnectTicket
    <3>1. cpc = "connect" /\ UNCHANGED <<connState, reap, inConns, rpc, wire, dev>>
      BY <2>1 DEF ConnectTicket, receiverVars, deviceVars
    <3> QED
      BY <3>1 DEF EarlyInv, BeforeSyn, NoMissedAnswer
  <2>2. CASE ConnectSyn \/ ConnectAnswered \/ ConnectResult \/ ConnectOwn
    <3>1. cpc' \notin {"connect", "syn"} /\ UNCHANGED <<connState, asleep, inConns>>
      BY <2>2 DEF ConnectSyn, ConnectAnswered, ConnectResult, ConnectOwn, tcpVars
    <3> QED
      BY <3>1 DEF EarlyInv, NoMissedAnswer
  <2> QED
    BY <1>4, <2>1, <2>2 DEF Connect
<1>5. CASE SendLoop \/ \E n \in 1 .. MaxHost : Recv(n)
  <2>1. cpc = "done"
    BY <1>5 DEF SendLoop, RecvClosed, RecvFails, SendData, SendSleep, SendWake, Recv,
                Inv, PhaseInv
  <2>2. UNCHANGED <<cpc, connState, inConns>>
    BY <1>5 DEF SendLoop, RecvClosed, RecvFails, SendData, SendSleep, SendWake, Recv, tcpVars
  <2>3. asleep'.conn = asleep.conn
    BY <1>1, <1>5 DEF SendLoop, RecvClosed, RecvFails, SendData, SendSleep, SendWake, Recv,
                      tcpVars
  <2> QED
    BY <1>3, <2>1, <2>2, <2>3
<1>6. ASSUME NEW r \in Receivers, Receive(r) PROVE EarlyInv'
  <2>1. cpc \notin {"connect", "syn"}
    <3>1. wire # << >> \/ rpc[r] # "idle"
      BY <1>6 DEF Receive, Take, InputSynAck, InputRefused, InputReset, InputDropped,
                  InputDefer, InputWake, InputNext, NextSegment, AtSegment, ForwardDefer,
                  ForwardWake, ForwardAbandon, Forward
    <3> QED
      BY <3>1 DEF EarlyInv, BeforeSyn
  <2>2. cpc' = cpc /\ inConns' = inConns
    BY <1>6 DEF Receive, Take, InputSynAck, InputRefused, InputReset, InputDropped,
                InputDefer, InputWake, InputNext, NextSegment, ForwardDefer,
                ForwardWake, ForwardAbandon, Forward, tcpVars, loopVars
  <2>3. CASE InputSynAck(r) \/ InputRefused(r)
    <3>1. connState = "connecting" /\ asleep'.conn = {}
      BY <1>1, <2>3 DEF InputSynAck, InputRefused
    <3> QED
      BY <1>3, <2>1, <2>2, <3>1
  <2>4. CASE ~(InputSynAck(r) \/ InputRefused(r))
    <3>1. connState' = connState
      BY <1>6, <2>4 DEF Receive, Take, InputReset, InputDropped, InputDefer, InputWake,
                  InputNext, NextSegment, ForwardDefer, ForwardWake, ForwardAbandon, Forward,
                  tcpVars
    <3>2. asleep'.conn = asleep.conn
      BY <1>1, <1>6, <2>4 DEF Receive, Take, InputReset, InputDropped, InputDefer, InputWake,
                  InputNext, NextSegment, ForwardDefer, ForwardWake, ForwardAbandon, Forward,
                  tcpVars
    <3> QED
      BY <1>3, <2>1, <2>2, <3>1, <3>2
  <2> QED
    BY <2>3, <2>4
<1>7. CASE Deconstruct
  <2>1. cpc \notin {"connect", "syn"}
    BY <1>7 DEF Deconstruct, DeconstructStx, DeconstructErase, EarlyInv, BeforeSyn
  <2>2. CASE DeconstructStx
    <3>1. asleep'.conn = {} /\ connState # "dying" /\ UNCHANGED <<cpc, inConns>>
      BY <1>1, <2>2 DEF DeconstructStx, loopVars
    <3> QED
      BY <1>3, <2>1, <3>1
  <2>3. CASE DeconstructErase
    <3>1. /\ asleep'.conn = asleep.conn /\ UNCHANGED <<cpc, connState>>
          /\ connState = "dying"
      BY <1>1, <2>3 DEF DeconstructErase, loopVars
    <3> QED
      BY <1>3, <2>1, <3>1
  <2> QED
    BY <1>7, <2>2, <2>3 DEF Deconstruct
<1>8. CASE DevStep
  <2>1. cpc \notin {"connect", "syn"}
    BY <1>8 DEF DevStep, DevAnswer, DevData, DevAck, DevRead, DevReset, Inv, PhaseInv
  <2>2. UNCHANGED <<cpc, connState, asleep, inConns>>
    BY <1>8 DEF DevStep, tcpVars, loopVars
  <2> QED
    BY <1>3, <2>1, <2>2
<1>9. CASE ClientDies
  BY <1>2, <1>9 DEF ClientDies, tcpVars, loopVars, receiverVars, deviceVars
<1>10. CASE UNCHANGED vars
  BY <1>2, <1>10 DEF vars, tcpVars, loopVars, receiverVars, deviceVars
<1> QED
  BY <1>4, <1>5, <1>6, <1>7, <1>8, <1>9, <1>10 DEF Next

LEMMA EarlyStarts == Init => EarlyInv
BY DEF Init, EarlyInv, BeforeSyn, NoMissedAnswer

\* connect() does not sleep through its answer, a refusal or the end of the
\* connection (TCP.cpp:286-325, 401-405).
THEOREM AnswerNotMissed == Spec => []NoMissedAnswer
<1>1. Spec => []EarlyInv
  BY Invariance, EarlyStarts, EarlyKept, PTL DEF Spec
<1>2. EarlyInv => NoMissedAnswer
  BY DEF EarlyInv
<1> QED
  BY <1>1, <1>2, PTL

-----------------------------------------------------------------------------
(* A sender that sleeps, while one receiver at a time handles packets. *)

\* Premise: no two receivers have a packet of the connection in hand.
HandledAlone ==
  \A r, q \in Receivers : rpc[r] # "idle" /\ rpc[q] # "idle" => r = q

\* The packets that were sent and not looked at yet, oldest first.
Handled == {r \in Receivers : rpc[r] = "input"}
Pending == IF Handled = {} THEN wire ELSE <<pkt[CHOOSE r \in Handled : TRUE]>> \o wire

\* The number that follows a packet, and acknowledgements and payload without a
\* gap from the number first to the number next.
After(p) == p.seq + p.len
Chain(s, first, next) ==
  /\ \A i \in 1 .. Len(s) :
       s[i].kind = "ack" /\ s[i].seq = IF i = 1 THEN first ELSE After(s[i - 1])
  /\ next = IF s = << >> THEN first ELSE After(s[Len(s)])

Up == connState = "connected" /\ dev.state = "open"

\* Before the answer there is nothing to look at, or the answer alone. It announces
\* the whole buffer.
OpeningInv ==
  connState = "connecting" =>
    /\ dev.state \in {"closed", "syn"}
    /\ dev.state = "syn" =>
         /\ dev.got = 1 /\ dev.read = 1
         /\ \/ dev.seq = 0 /\ Pending = << >>
            \/ /\ dev.seq = 1 /\ dev.told = <<1, 1>>
               /\ Len(Pending) = 1 /\ Pending[1].kind = "synack" /\ Pending[1].win = DevBuf

\* Then each packet is the next segment when its receiver looks at it, and its
\* payload has its turn at once.
InTurnInv ==
  /\ connState = "connected" => dev.state \in {"open", "closed"}
  /\ Up =>
       /\ dev.got = stx.seq
       /\ Chain(Pending, stx.ack, dev.seq)
       /\ \A r \in Receivers : rpc[r] \in {"idle", "input", "forward"}
       /\ \A r \in Receivers : rpc[r] = "forward" => MyTurn(r)

\* What the device said last is what the host knows or will know. The answer opens
\* the window one short: the SYN is not counted as acknowledged.
LastSaid == dev.told[2] + DevBuf
KnownWindow ==
  \/ stx.seqAcked + stx.inWin = LastSaid
  \/ dev.told = <<1, 1>> /\ stx.seqAcked = 0 /\ stx.inWin = DevBuf

LastWordInv ==
  Up => IF Pending = << >> THEN KnownWindow ELSE Offer(Pending[Len(Pending)]) = LastSaid

SoloInv == OpeningInv /\ InTurnInv /\ LastWordInv

\* A packet is looked at.
LEMMA ChainTail ==
  ASSUME NEW s \in Seq(Packet), s # << >>, NEW first, NEW next, Chain(s, first, next)
  PROVE  s[1].kind = "ack" /\ s[1].seq = first /\ Chain(Tail(s), After(s[1]), next)
<1>1. Len(s) \in Nat /\ Len(s) > 0 /\ Len(Tail(s)) = Len(s) - 1
      /\ \A i \in 1 .. Len(s) - 1 : Tail(s)[i] = s[i + 1]
  OBVIOUS
<1>2. s[1].kind = "ack" /\ s[1].seq = first
  BY <1>1 DEF Chain
<1>3. ASSUME NEW i \in 1 .. Len(s) - 1
      PROVE  /\ s[i + 1].kind = "ack"
             /\ s[i + 1].seq = IF i = 1 THEN After(s[1]) ELSE After(Tail(s)[i - 1])
  <2>1. i + 1 \in 1 .. Len(s) /\ i + 1 # 1 /\ (i + 1) - 1 = i
    BY <1>1
  <2>2. s[i + 1].kind = "ack" /\ s[i + 1].seq = After(s[i])
    BY <2>1 DEF Chain
  <2>3. i # 1 => Tail(s)[i - 1] = s[i]
    <3>1. i # 1 => i - 1 \in 1 .. Len(s) - 1 /\ (i - 1) + 1 = i
      BY <1>1
    <3> QED
      BY <1>1, <3>1
  <2> QED
    BY <2>2, <2>3
<1>4. CASE Len(s) = 1
  <2>0. ASSUME NEW t \in Seq(Packet), Len(t) = 0 PROVE t = << >>
    BY <2>0
  <2>1. Tail(s) = << >>
    <3>1. Tail(s) \in Seq(Packet)
      OBVIOUS
    <3>2. Len(Tail(s)) = 0
      BY <1>1, <1>4
    <3> QED
      BY <2>0, <3>1, <3>2
  <2>2. next = After(s[1])
    BY <1>4 DEF Chain
  <2> QED
    BY <1>2, <2>1, <2>2 DEF Chain
<1>5. CASE Len(s) # 1
  <2>1. Tail(s) # << >> /\ Tail(s)[Len(Tail(s))] = s[Len(s)]
    BY <1>1, <1>5
  <2>2. next = After(s[Len(s)])
    BY DEF Chain
  <2> QED
    BY <1>1, <1>2, <1>3, <2>1, <2>2 DEF Chain
<1> QED
  BY <1>4, <1>5

\* A packet is sent.
LEMMA ChainAppend ==
  ASSUME NEW s \in Seq(Packet), NEW first, NEW next, Chain(s, first, next),
         NEW p \in Packet, p.kind = "ack", p.seq = next
  PROVE  Chain(Append(s, p), first, After(p))
<1> DEFINE t == Append(s, p)
<1>1. /\ Len(s) \in Nat /\ Len(t) = Len(s) + 1 /\ t # << >> /\ t[Len(s) + 1] = p
      /\ \A i \in 1 .. Len(s) : t[i] = s[i]
  OBVIOUS
<1> HIDE DEF t
<1>2. ASSUME NEW i \in 1 .. Len(t)
      PROVE  t[i].kind = "ack" /\ t[i].seq = IF i = 1 THEN first ELSE After(t[i - 1])
  <2>1. CASE i = Len(s) + 1
    <3>1. CASE s = << >>
      BY <1>1, <2>1, <3>1 DEF Chain
    <3>2. CASE s # << >>
      <4>1. Len(s) \in 1 .. Len(s) /\ i # 1 /\ i - 1 = Len(s)
        BY <1>1, <2>1, <3>2
      <4>2. next = After(s[Len(s)])
        BY <3>2 DEF Chain
      <4> QED
        BY <1>1, <2>1, <4>1, <4>2
    <3> QED
      BY <3>1, <3>2
  <2>2. CASE i # Len(s) + 1
    <3>1. i \in 1 .. Len(s) /\ (i # 1 => i - 1 \in 1 .. Len(s))
      BY <1>1, <2>2
    <3> QED
      BY <1>1, <3>1 DEF Chain
  <2> QED
    BY <2>1, <2>2
<1>3. Chain(t, first, After(p))
  BY <1>1, <1>2 DEF Chain
<1> QED
  BY <1>3 DEF t

\* The packets not looked at yet.
LEMMA PendingIs ==
  ASSUME TypeOK, HandledAlone
  PROVE  /\ Pending \in Seq(Packet)
         /\ Handled = {} => Pending = wire
         /\ \A r \in Handled : /\ Pending = <<pkt[r]>> \o wire
                               /\ Pending # << >> /\ Pending[1] = pkt[r]
                               /\ Tail(Pending) = wire
<1>1. wire \in Seq(Packet) /\ \A r \in Receivers : pkt[r] \in Packet
  BY DEF TypeOK, ThreadTypes, DeviceTypes
<1>2. ASSUME NEW r \in Handled
      PROVE  /\ Pending = <<pkt[r]>> \o wire /\ Pending \in Seq(Packet)
             /\ Pending # << >> /\ Pending[1] = pkt[r] /\ Tail(Pending) = wire
  <2>1. Handled = {r}
    BY DEF HandledAlone, Handled
  <2>2. (CHOOSE q \in Handled : TRUE) = r
    BY <2>1
  <2>3. Pending = <<pkt[r]>> \o wire
    BY <2>1, <2>2 DEF Pending
  <2>4. pkt[r] \in Packet
    BY <1>1 DEF Handled
  <2>5. ASSUME NEW p \in Packet, NEW w \in Seq(Packet)
        PROVE  LET s == <<p>> \o w
               IN  s \in Seq(Packet) /\ s # << >> /\ s[1] = p /\ Tail(s) = w
    OBVIOUS
  <2> QED
    BY <1>1, <2>3, <2>4, <2>5
<1>3. Handled = {} => Pending = wire
  BY DEF Pending
<1> QED
  BY <1>1, <1>2, <1>3

\* Steps that are not about packets.
LEMMA StillSolo ==
  ASSUME SoloInv, UNCHANGED <<wire, rpc, pkt, dev, stx>>,
         connState' = connState \/ connState' \notin {"connecting", "connected"}
  PROVE  SoloInv'
<1>1. Pending' = Pending
  BY DEF Pending, Handled
<1>2. OpeningInv'
  BY <1>1 DEF SoloInv, OpeningInv
<1>3. InTurnInv'
  BY <1>1 DEF SoloInv, InTurnInv, Up, MyTurn
<1>4. LastWordInv'
  BY <1>1 DEF SoloInv, LastWordInv, Up, KnownWindow, LastSaid
<1> QED
  BY <1>2, <1>3, <1>4 DEF SoloInv

\* Nothing is left to be said of a connection that is not up any more, or is
\* refused.
LEMMA DownSolo ==
  ASSUME connState' # "connecting", connState' = "connected" => dev'.state = "closed"
  PROVE  SoloInv'
BY DEF SoloInv, OpeningInv, InTurnInv, LastWordInv, Up

\* The host's other threads and the client (TCP.cpp:182-241, 286-297, 401-450).
LEMMA ThreadsSolo ==
  ASSUME Inv, EarlyInv, SoloInv,
         \/ Connect \/ SendLoop \/ Deconstruct \/ ClientDies
         \/ \E n \in 1 .. MaxHost : Recv(n)
  PROVE  SoloInv'
<1>0. TypeOK
  BY DEF Inv
<1>1. UNCHANGED <<wire, rpc, pkt>>
  BY DEF Connect, ConnectTicket, ConnectSyn, ConnectAnswered, ConnectResult, ConnectOwn,
         SendLoop, RecvClosed, RecvFails, SendData, SendSleep, SendWake, Recv, ClientDies,
         Deconstruct, DeconstructStx, DeconstructErase, receiverVars, deviceVars
<1>2. connState' \in {connState, "dying"}
  BY DEF Connect, ConnectTicket, ConnectSyn, ConnectAnswered, ConnectResult, ConnectOwn,
         SendLoop, RecvClosed, RecvFails, SendData, SendSleep, SendWake, Recv, ClientDies,
         Deconstruct, DeconstructStx, DeconstructErase, tcpVars
<1>3. CASE ConnectSyn
  <2>1. /\ connState' = "connecting" /\ wire = << >> /\ dev.seq = 0 /\ stx.seq = 0
        /\ \A r \in Receivers : rpc[r] = "idle"
    BY <1>3 DEF ConnectSyn, EarlyInv, BeforeSyn, Inv, PhaseInv
  <2>2. Handled' = {}
    BY <1>1, <2>1 DEF Handled
  <2>3. Pending' = << >>
    BY <1>1, <2>1, <2>2 DEF Pending
  <2>4. dev' = [dev EXCEPT !.state = "syn", !.got = 1, !.read = 1]
    BY <1>3, <2>1 DEF ConnectSyn
  <2>5. dev'.state = "syn" /\ dev'.got = 1 /\ dev'.read = 1 /\ dev'.seq = 0
    BY <1>0, <2>1, <2>4 DEF TypeOK, DeviceTypes
  <2> QED
    BY <2>1, <2>3, <2>5 DEF SoloInv, OpeningInv, InTurnInv, LastWordInv, Up
<1>4. CASE RecvClosed
  <2>1. connState' # "connecting"
    BY <1>4 DEF RecvClosed, Inv, PhaseInv, tcpVars
  <2>2. dev'.state = "closed"
    BY <1>0, <1>4 DEF RecvClosed, TypeOK, DeviceTypes
  <2> QED
    BY <2>1, <2>2, DownSolo
<1>5. CASE SendData
  <2>1. PICK len \in Nat :
          /\ stx' = [stx EXCEPT !.seq = stx.seq + len, !.acked = stx.ack]
          /\ dev' = IF dev.state = "open" THEN [dev EXCEPT !.got = stx.seq + len] ELSE dev
    BY <1>0, <1>5, SendDataLength
  <2>2. /\ stx'.seq = stx.seq + len /\ stx'.ack = stx.ack /\ stx'.inWin = stx.inWin
        /\ stx'.seqAcked = stx.seqAcked /\ stx'.pktForwarded = stx.pktForwarded
        /\ dev'.state = dev.state /\ dev'.told = dev.told /\ dev'.seq = dev.seq
        /\ dev.state = "open" => dev'.got = stx.seq + len
    BY <1>0, <2>1 DEF TypeOK, TcpTypes, DeviceTypes
  <2>3. connState' = connState /\ connState # "connecting"
    BY <1>5 DEF SendData, Inv, PhaseInv
  <2>4. Pending' = Pending
    BY <1>1 DEF Pending, Handled
  <2>5. OpeningInv'
    BY <2>3 DEF OpeningInv
  <2>6. InTurnInv'
    BY <1>1, <2>2, <2>3, <2>4 DEF SoloInv, InTurnInv, Up, MyTurn
  <2>7. LastWordInv'
    BY <2>2, <2>3, <2>4 DEF SoloInv, LastWordInv, Up, KnownWindow, LastSaid
  <2> QED
    BY <2>5, <2>6, <2>7 DEF SoloInv
<1>6. CASE ~(ConnectSyn \/ RecvClosed \/ SendData)
  <2>1. UNCHANGED <<stx, dev>>
    BY <1>6 DEF Connect, ConnectTicket, ConnectAnswered, ConnectResult, ConnectOwn,
         SendLoop, RecvFails, SendSleep, SendWake, Recv, ClientDies,
         Deconstruct, DeconstructStx, DeconstructErase, deviceVars, tcpVars
  <2> QED
    BY <1>1, <1>2, <2>1, StillSolo
<1> QED
  BY <1>3, <1>4, <1>5, <1>6

\* A receiver takes a packet: it is still to be looked at (USBDevice.cpp:464-472).
LEMMA TakeSolo ==
  ASSUME TypeOK, EarlyInv, SoloInv, HandledAlone, HandledAlone', NEW r \in Receivers, Take(r)
  PROVE  SoloInv'
<1>1. /\ rpc[r] = "idle" /\ wire # << >> /\ wire' = Tail(wire)
      /\ pkt' = [pkt EXCEPT ![r] = wire[1]]
      /\ Goto(r, IF inConns THEN "input" ELSE "idle")
      /\ UNCHANGED <<connState, stx>>
      /\ wire \in Seq(Packet)
  BY DEF Take, tcpVars, TypeOK, DeviceTypes
<1>2. CASE ~inConns
  BY <1>1, <1>2, DownSolo DEF EarlyInv
<1>3. CASE inConns
  <2>1. dev' = dev /\ \A q \in Receivers : rpc'[q] = IF q = r THEN "input" ELSE rpc[q]
    BY <1>1, <1>3 DEF Take, Goto, TypeOK, ThreadTypes
  <2>2. \A q \in Receivers : q # r => rpc[q] = "idle" /\ rpc'[q] = "idle"
    BY <2>1 DEF HandledAlone
  <2>3. Handled = {} /\ Handled' = {r}
    BY <1>1, <2>1, <2>2 DEF Handled
  <2>4. Pending' = Pending
    <3>1. (CHOOSE q \in Handled' : TRUE) = r
      BY <2>3
    <3>2. pkt'[r] = wire[1]
      BY <1>1 DEF TypeOK, ThreadTypes
    <3>3. Pending' = <<wire[1]>> \o Tail(wire)
      BY <1>1, <2>3, <3>1, <3>2 DEF Pending
    <3>4. ASSUME NEW w \in Seq(Packet), w # << >> PROVE <<w[1]>> \o Tail(w) = w
      <4> DEFINE v == <<w[1]>> \o Tail(w)
      <4>1. Len(w) \in Nat /\ Len(w) > 0 /\ w[1] \in Packet
        BY <3>4
      <4>2. v \in Seq(Packet) /\ Len(v) = Len(w)
        BY <3>4, <4>1
      <4>3. \A i \in 1 .. Len(w) : v[i] = w[i]
        <5>1. ASSUME NEW i \in 1 .. Len(w) PROVE v[i] = w[i]
          <6>1. CASE i = 1
            BY <4>1, <6>1
          <6>2. CASE i # 1
            <7>1. i - 1 \in 1 .. Len(Tail(w)) /\ Tail(w)[i - 1] = w[i]
              BY <3>4, <4>1, <6>2
            <7> QED
              BY <3>4, <4>1, <6>2, <7>1
          <6> QED
            BY <6>1, <6>2
        <5> QED
          BY <5>1
      <4> HIDE DEF v
      <4>4. v = w
        BY <3>4, <4>2, <4>3
      <4> QED
        BY <4>4 DEF v
    <3> QED
      BY <1>1, <2>3, <3>3, <3>4 DEF Pending
  <2>5. OpeningInv'
    BY <1>1, <2>1, <2>4 DEF SoloInv, OpeningInv
  <2>6. InTurnInv'
    <3>1. \A q \in Receivers : rpc'[q] \in {"idle", "input"}
      BY <2>1, <2>2
    <3> QED
      BY <1>1, <2>1, <2>4, <3>1 DEF SoloInv, InTurnInv, Up
  <2>7. LastWordInv'
    BY <1>1, <2>1, <2>4 DEF SoloInv, LastWordInv, Up, KnownWindow, LastSaid
  <2> QED
    BY <2>5, <2>6, <2>7 DEF SoloInv
<1> QED
  BY <1>2, <1>3

\* Steps of a receiver that change neither the packets nor the device, while the
\* connection is not up.
LEMMA IdleSolo ==
  ASSUME SoloInv, ~Up, connState' # "connecting", UNCHANGED dev,
         connState' = connState \/ connState' # "connected"
  PROVE  SoloInv'
BY DownSolo DEF SoloInv, InTurnInv, Up

\* The answer: its window is taken, nothing else is on its way (TCP.cpp:311-321).
LEMMA AnswerSolo ==
  ASSUME Inv, StreamInv, SoloInv, HandledAlone, NEW r \in Receivers, InputSynAck(r)
  PROVE  SoloInv'
<1>0. TypeOK
  BY DEF Inv
<1>1. /\ connState = "connecting" /\ connState' = "connected"
      /\ rpc[r] = "input" /\ pkt[r].kind = "synack" /\ UNCHANGED <<wire, pkt>>
      /\ dev' = IF dev.state = "syn" THEN [dev EXCEPT !.state = "open"] ELSE dev
  BY DEF InputSynAck
<1>2. dev.state \in {"closed", "syn"}
  BY <1>1 DEF SoloInv, OpeningInv
<1>3. CASE dev.state = "closed"
  BY <1>1, <1>3, DownSolo
<1>4. CASE dev.state = "syn"
  <2>1. /\ r \in Handled /\ Pending = <<pkt[r]>> \o wire /\ Pending # << >>
        /\ Pending[1] = pkt[r] /\ Tail(Pending) = wire /\ Pending \in Seq(Packet)
    BY <1>0, <1>1, PendingIs DEF Handled
  <2>2. /\ dev.got = 1 /\ dev.read = 1 /\ dev.seq = 1 /\ dev.told = <<1, 1>>
        /\ Len(Pending) = 1 /\ pkt[r].win = DevBuf
    BY <1>1, <1>4, <2>1 DEF SoloInv, OpeningInv
  <2>3. wire = << >>
    <3>1. wire \in Seq(Packet) /\ Len(wire) = 0
      BY <1>0, <2>1, <2>2 DEF TypeOK, DeviceTypes
    <3>2. ASSUME NEW w \in Seq(Packet), Len(w) = 0 PROVE w = << >>
      BY <3>2
    <3> QED
      BY <3>1, <3>2
  <2>4. pkt[r].seq = 0 /\ stx.seq = 0 /\ stx.seqAcked = 0
    BY <1>1 DEF StreamInv, AnswerInv, Inv, PhaseInv
  <2>5. /\ stx'.seq = 1 /\ stx'.ack = 1 /\ stx'.inWin = DevBuf /\ stx'.seqAcked = 0
        /\ stx'.pktForwarded = 1
    BY <1>0, <2>2, <2>4 DEF InputSynAck, TypeOK, TcpTypes
  <2>6. /\ dev'.state = "open" /\ dev'.got = 1 /\ dev'.seq = 1 /\ dev'.told = <<1, 1>>
    BY <1>0, <1>1, <1>4, <2>2 DEF TypeOK, DeviceTypes
  <2>7. \A q \in Receivers : rpc'[q] = "idle"
    BY <1>0, <1>1 DEF InputSynAck, Goto, TypeOK, ThreadTypes, HandledAlone
  <2>8. Pending' = << >>
    BY <1>1, <2>3, <2>7 DEF Pending, Handled
  <2>9. OpeningInv'
    BY <1>1 DEF OpeningInv
  <2>10. InTurnInv'
    BY <2>5, <2>6, <2>7, <2>8 DEF InTurnInv, Chain
  <2>11. LastWordInv'
    BY <2>5, <2>6, <2>8 DEF LastWordInv, KnownWindow
  <2> QED
    BY <2>9, <2>10, <2>11 DEF SoloInv
<1> QED
  BY <1>2, <1>3, <1>4

\* A segment: it is the next one, and its payload has the turn (TCP.cpp:331-349).
LEMMA NextSolo ==
  ASSUME TypeOK, StreamInv, SoloInv, HandledAlone, NEW r \in Receivers, InputNext(r)
  PROVE  SoloInv'
<1>1. AtSegment(r) /\ UNCHANGED <<connState, wire, pkt, dev>>
  BY DEF InputNext, NextSegment, deviceVars
<1>2. connState # "connecting"
  BY <1>1 DEF AtSegment, StreamInv, QuietInv
<1>3. CASE ~Up
  BY <1>1, <1>2, <1>3, IdleSolo
<1>4. CASE Up
  <2>1. rpc[r] = "input" /\ Chain(Pending, stx.ack, dev.seq) /\ dev.got = stx.seq
    BY <1>1, <1>4 DEF SoloInv, InTurnInv, AtSegment
  <2>2. /\ r \in Handled /\ Pending \in Seq(Packet) /\ Pending # << >>
        /\ Pending[1] = pkt[r] /\ Tail(Pending) = wire
    BY <2>1, PendingIs DEF Handled
  <2>3. pkt[r].seq = stx.ack /\ Chain(wire, After(pkt[r]), dev.seq)
    BY <2>1, <2>2, ChainTail
  <2>4. /\ stx'.ack = After(pkt[r]) /\ stx'.seq = stx.seq
        /\ stx'.inWin = pkt[r].win /\ stx'.seqAcked = pkt[r].ack
        /\ stx'.pktForwarded = stx.pktForwarded
    BY <2>3 DEF InputNext, NextSegment, TypeOK, TcpTypes, After
  <2>5. \A q \in Receivers : rpc'[q] = IF q # r THEN "idle"
                                       ELSE IF pkt[r].len > 0 THEN "forward" ELSE "idle"
    BY <2>1 DEF InputNext, NextSegment, Goto, TypeOK, ThreadTypes, HandledAlone
  <2>6. Pending' = wire
    BY <1>1, <2>5 DEF Pending, Handled
  <2>7. OpeningInv'
    BY <1>1, <1>2 DEF OpeningInv
  <2>8. InTurnInv'
    <3>1. pkt[r].seq = stx.pktForwarded
      <4>1. Holding = {}
        BY <2>1 DEF Holding, HandledAlone
      <4>2. stx.pktForwarded <= stx.ack
            /\ \A n \in stx.pktForwarded .. stx.ack - 1 : \E q \in Holding : pkt[q].seq = n
        BY <1>4 DEF StreamInv, HeldInv, Up
      <4>3. stx.pktForwarded \notin stx.pktForwarded .. stx.ack - 1
        BY <4>1, <4>2
      <4> QED
        BY <2>3, <4>2, <4>3, StateFields
    <3> QED
      BY <1>1, <1>4, <2>1, <2>3, <2>4, <2>5, <2>6, <3>1 DEF InTurnInv, Up, MyTurn
  <2>9. LastWordInv'
    <3>1. Offer(Pending[Len(Pending)]) = LastSaid
      BY <1>4, <2>2 DEF SoloInv, LastWordInv
    <3>2. LastSaid' = LastSaid
      BY <1>1 DEF LastSaid
    <3>3. CASE wire = << >>
      <4>1. Len(Pending) = 1
        <5>1. Len(Tail(Pending)) = Len(Pending) - 1 /\ Len(Pending) \in Nat
          BY <2>2
        <5> QED
          BY <2>2, <3>3, <5>1
      <4>2. Offer(pkt[r]) = LastSaid
        BY <2>2, <3>1, <4>1
      <4>3. stx'.seqAcked + stx'.inWin = LastSaid'
        BY <2>4, <3>2, <4>2 DEF Offer
      <4> QED
        BY <2>6, <3>3, <4>3 DEF LastWordInv, KnownWindow
    <3>4. CASE wire # << >>
      <4>1. wire[Len(wire)] = Pending[Len(Pending)]
        <5>1. ASSUME NEW s \in Seq(Packet), s # << >>, Tail(s) # << >>
              PROVE  Tail(s)[Len(Tail(s))] = s[Len(s)]
          BY <5>1
        <5> QED
          BY <2>2, <3>4, <5>1
      <4> QED
        BY <1>1, <2>6, <3>1, <3>2, <3>4, <4>1 DEF LastWordInv, Offer
    <3> QED
      BY <3>3, <3>4
  <2> QED
    BY <2>7, <2>8, <2>9 DEF SoloInv
<1> QED
  BY <1>3, <1>4

\* Payload that has its turn is forwarded (TCP.cpp:374-391).
LEMMA ForwardSolo ==
  ASSUME TypeOK, StreamInv, SoloInv, HandledAlone, NEW r \in Receivers, Forward(r)
  PROVE  SoloInv'
<1>1. /\ connState = "connected" /\ rpc[r] = "forward"
      /\ UNCHANGED <<connState, wire, pkt, dev>>
  BY DEF Forward, deviceVars
<1>2. /\ stx'.ack = stx.ack /\ stx'.seq = stx.seq /\ stx'.inWin = stx.inWin
      /\ stx'.seqAcked = stx.seqAcked
  BY DEF Forward, TypeOK, TcpTypes
<1>3. \A q \in Receivers : rpc'[q] = "idle" /\ rpc[q] # "input"
  BY <1>1 DEF Forward, Goto, TypeOK, ThreadTypes, HandledAlone
<1>4. Pending' = Pending
  BY <1>1, <1>3 DEF Pending, Handled
<1>5. OpeningInv'
  BY <1>1 DEF OpeningInv
<1>6. InTurnInv'
  BY <1>1, <1>2, <1>3, <1>4 DEF SoloInv, InTurnInv, Up
<1>7. LastWordInv'
  BY <1>1, <1>2, <1>4 DEF SoloInv, LastWordInv, Up, KnownWindow, LastSaid
<1> QED
  BY <1>5, <1>6, <1>7 DEF SoloInv

\* Nobody waits while the connection is up.
LEMMA NobodyWaits ==
  ASSUME Inv, StreamInv, SoloInv, HandledAlone, NEW r \in Receivers,
         \/ InputRefused(r) \/ InputReset(r) \/ InputDropped(r)
         \/ InputDefer(r) \/ InputWake(r)
         \/ ForwardDefer(r) \/ ForwardWake(r) \/ ForwardAbandon(r)
  PROVE  SoloInv'
<1>0. TypeOK
  BY DEF Inv
<1>1. UNCHANGED dev
  BY DEF InputRefused, InputReset, InputDropped, InputDefer, InputWake, ForwardDefer,
         ForwardWake, ForwardAbandon, deviceVars
<1>2. connState' \in {connState, "refused"}
  BY DEF InputRefused, InputReset, InputDropped, InputDefer, InputWake, ForwardDefer,
         ForwardWake, ForwardAbandon, tcpVars
<1>3. connState' # "connecting"
  BY DEF InputRefused, InputReset, InputDropped, InputDefer, InputWake, ForwardDefer,
         ForwardWake, ForwardAbandon, AtSegment, StreamInv, QuietInv, tcpVars
<1>4. ASSUME Up, rpc[r] = "input" PROVE pkt[r].kind = "ack" /\ pkt[r].seq = stx.ack
  <2>1. r \in Handled /\ Chain(Pending, stx.ack, dev.seq)
    BY <1>4 DEF Handled, SoloInv, InTurnInv
  <2>2. Pending \in Seq(Packet) /\ Pending # << >> /\ Pending[1] = pkt[r]
    BY <1>0, <2>1, PendingIs
  <2> QED
    BY <2>1, <2>2, ChainTail
<1>5. ~Up
  <2>1. SUFFICES ASSUME Up PROVE FALSE
    OBVIOUS
  <2>2. /\ connState = "connected" /\ rpc[r] \in {"idle", "input", "forward"}
        /\ rpc[r] = "forward" => MyTurn(r)
    BY <2>1 DEF SoloInv, InTurnInv, Up
  <2> QED
    BY <1>4, <2>1, <2>2 DEF InputRefused, InputReset, InputDropped, InputDefer, InputWake,
       ForwardDefer, ForwardWake, ForwardAbandon, AtSegment
<1> QED
  BY <1>1, <1>2, <1>3, <1>5, IdleSolo

\* What the device sends comes last, and says how far its buffer goes.
LEMMA DevSolo ==
  ASSUME Inv, SoloInv, HandledAlone, DevStep
  PROVE  SoloInv'
<1>0. TypeOK /\ WindowInv
  BY DEF Inv
<1>1. UNCHANGED <<connState, stx, rpc, pkt>>
  BY DEF DevStep, tcpVars, receiverVars
<1>2. Pending \in Seq(Packet) /\ wire \in Seq(Packet)
  BY <1>0, PendingIs DEF TypeOK, DeviceTypes
<1>3. ASSUME NEW kind \in {"synack", "ack", "rst"}, NEW len \in {0, 1},
             NEW state \in {"closed", "syn", "open"}, DevSend(kind, len, state)
      PROVE  \E p \in Packet :
               /\ Pending' = Append(Pending, p)
               /\ p.kind = kind /\ p.seq = dev.seq /\ p.len = len
               /\ p.win = dev.read + DevBuf - dev.got
               /\ Offer(p) = LastSaid'
               /\ dev'.seq = IF kind = "synack" THEN 1 ELSE dev.seq + len
               /\ dev'.state = state /\ dev'.got = dev.got /\ dev'.read = dev.read
               /\ dev'.told = <<dev.got, dev.read>>
  <2> DEFINE p == [kind |-> kind, seq |-> dev.seq, ack |-> dev.got,
                   win |-> dev.read + DevBuf - dev.got, len |-> len]
  <2>1. dev.read + DevBuf - dev.got \in Nat
    BY <1>0, StateFields, SizeTypes DEF WindowInv, HostWithin, Edge
  <2>2. p \in Packet
    BY <1>0, <2>1, StateFields DEF Packet
  <2>3. wire' = Append(wire, p)
    BY <1>3 DEF DevSend
  <2>4. /\ dev'.seq = IF kind = "synack" THEN 1 ELSE dev.seq + len
        /\ dev'.state = state /\ dev'.got = dev.got /\ dev'.read = dev.read
        /\ dev'.told = <<dev.got, dev.read>>
    BY <1>0, <1>3 DEF DevSend, TypeOK, DeviceTypes
  <2>5. /\ p.kind = kind /\ p.seq = dev.seq /\ p.len = len
        /\ p.win = dev.read + DevBuf - dev.got /\ p.ack = dev.got
    OBVIOUS
  <2>6. Offer(p) = LastSaid'
    BY <1>0, <2>1, <2>4, <2>5, StateFields, SizeTypes DEF Offer, LastSaid
  <2> HIDE DEF p
  <2>7. Handled' = Handled
    BY <1>1 DEF Handled
  <2>8. Pending' = Append(Pending, p)
    <3>1. CASE Handled = {}
      BY <2>3, <2>7, <3>1 DEF Pending
    <3>2. ASSUME NEW r \in Handled PROVE Pending' = Append(Pending, p)
      <4>1. Handled = {r} /\ (CHOOSE q \in Handled : TRUE) = r
        BY DEF HandledAlone, Handled
      <4>2. Pending = <<pkt[r]>> \o wire /\ Pending' = <<pkt[r]>> \o Append(wire, p)
        BY <1>1, <2>3, <2>7, <4>1 DEF Pending
      <4>3. ASSUME NEW x \in Packet, NEW w \in Seq(Packet)
            PROVE  <<x>> \o Append(w, p) = Append(<<x>> \o w, p)
        <5>1. <<x>> \o Append(w, p) \in Seq(Packet) /\ Append(<<x>> \o w, p) \in Seq(Packet)
          BY <2>2
        <5>2. Len(<<x>> \o Append(w, p)) = Len(w) + 2
              /\ Len(Append(<<x>> \o w, p)) = Len(w) + 2
          BY <2>2
        <5>3. \A i \in 1 .. Len(w) + 2 :
                (<<x>> \o Append(w, p))[i] = Append(<<x>> \o w, p)[i]
          BY <2>2
        <5> QED
          BY <5>1, <5>2, <5>3
      <4>4. pkt[r] \in Packet
        BY <1>0 DEF Handled, TypeOK, ThreadTypes
      <4> QED
        BY <1>2, <4>2, <4>3, <4>4
    <3> QED
      BY <3>1, <3>2
  <2> QED
    BY <2>2, <2>4, <2>5, <2>6, <2>8
<1>4. CASE DevAnswer
  <2>0. dev.state = "syn" /\ dev.seq = 0
    BY <1>4 DEF DevAnswer
  <2>1. PICK kind \in {"synack", "rst"} :
          DevSend(kind, 0, IF kind = "synack" THEN "syn" ELSE "closed")
    BY <1>4 DEF DevAnswer
  <2>2. PICK p \in Packet :
          /\ Pending' = Append(Pending, p)
          /\ p.kind = kind /\ p.win = dev.read + DevBuf - dev.got
          /\ dev'.seq = IF kind = "synack" THEN 1 ELSE dev.seq + 0
          /\ dev'.state = IF kind = "synack" THEN "syn" ELSE "closed"
          /\ dev'.got = dev.got /\ dev'.read = dev.read /\ dev'.told = <<dev.got, dev.read>>
    BY <1>3, <2>1
  <2>3. connState # "connected"
    BY <2>0 DEF SoloInv, InTurnInv
  <2>4. OpeningInv'
    <3> SUFFICES ASSUME connState = "connecting", dev'.state = "syn" PROVE OpeningInv'
      BY <1>1, <2>2 DEF OpeningInv
    <3>1. dev.got = 1 /\ dev.read = 1 /\ Pending = << >>
      BY <2>0 DEF SoloInv, OpeningInv
    <3>2. Pending' = <<p>> /\ p.win = DevBuf /\ kind = "synack"
      BY <2>2, <3>1, SizeTypes
    <3>3. Len(Pending') = 1 /\ Pending'[1] = p
      BY <3>2
    <3> QED
      BY <2>2, <3>1, <3>2, <3>3 DEF OpeningInv
  <2> QED
    BY <1>1, <2>3, <2>4 DEF SoloInv, InTurnInv, LastWordInv, Up
<1>5. CASE DevData \/ DevAck
  <2>1. dev.state = "open" /\ \E len \in {0, 1} : DevSend("ack", len, "open")
    BY <1>5 DEF DevData, DevAck
  <2>2. PICK p \in Packet, len \in {0, 1} :
          /\ Pending' = Append(Pending, p)
          /\ p.kind = "ack" /\ p.seq = dev.seq /\ p.len = len /\ Offer(p) = LastSaid'
          /\ dev'.seq = dev.seq + len /\ dev'.state = "open" /\ dev'.got = dev.got
    BY <1>3, <2>1
  <2>3. connState # "connecting" /\ Up' = Up
    BY <1>1, <2>1, <2>2 DEF SoloInv, OpeningInv, Up
  <2>4. OpeningInv'
    BY <1>1, <2>3 DEF OpeningInv
  <2>5. InTurnInv'
    <3> SUFFICES ASSUME Up PROVE Chain(Pending', stx.ack, dev'.seq)
      BY <1>1, <2>2, <2>3 DEF SoloInv, InTurnInv, MyTurn
    <3>1. Chain(Append(Pending, p), stx.ack, After(p))
      BY <1>2, <2>2, ChainAppend DEF SoloInv, InTurnInv
    <3> QED
      BY <2>2, <3>1 DEF After
  <2>6. LastWordInv'
    <3>1. Pending' # << >> /\ Pending'[Len(Pending')] = p
      BY <1>2, <2>2
    <3> QED
      BY <2>2, <3>1 DEF LastWordInv, Offer
  <2> QED
    BY <2>4, <2>5, <2>6 DEF SoloInv
<1>6. CASE DevRead
  <2>1. /\ dev.state = "open" /\ wire' = wire
        /\ dev'.seq = dev.seq /\ dev'.state = dev.state /\ dev'.got = dev.got
        /\ dev'.told = dev.told
    BY <1>0, <1>6 DEF DevRead, TypeOK, DeviceTypes
  <2>2. Pending' = Pending
    BY <1>1, <2>1 DEF Pending, Handled
  <2>3. OpeningInv'
    BY <1>1, <2>1 DEF SoloInv, OpeningInv
  <2>4. InTurnInv'
    BY <1>1, <2>1, <2>2 DEF SoloInv, InTurnInv, Up, MyTurn
  <2>5. LastWordInv'
    BY <1>1, <2>1, <2>2 DEF SoloInv, LastWordInv, Up, KnownWindow, LastSaid
  <2> QED
    BY <2>3, <2>4, <2>5 DEF SoloInv
<1>7. CASE DevReset
  <2>1. dev.state = "open" /\ dev'.state = "closed"
    BY <1>3, <1>7 DEF DevReset
  <2>2. connState' # "connecting"
    BY <1>1, <2>1 DEF SoloInv, OpeningInv
  <2> QED
    BY <2>1, <2>2, DownSolo
<1> QED
  BY <1>4, <1>5, <1>6, <1>7 DEF DevStep

\* Every step while one receiver at a time handles packets.
LEMMA SoloKept ==
  ASSUME Inv, EarlyInv, StreamInv, SoloInv, HandledAlone, HandledAlone', [Next]_vars
  PROVE  SoloInv'
<1>0. TypeOK
  BY DEF Inv
<1>1. CASE \/ Connect \/ SendLoop \/ Deconstruct \/ ClientDies
           \/ \E n \in 1 .. MaxHost : Recv(n)
  BY <1>1, ThreadsSolo
<1>2. ASSUME NEW r \in Receivers, Receive(r) PROVE SoloInv'
  BY <1>0, <1>2, TakeSolo, AnswerSolo, NextSolo, ForwardSolo, NobodyWaits DEF Receive
<1>3. CASE DevStep
  BY <1>3, DevSolo
<1>4. CASE UNCHANGED vars
  BY <1>4, StillSolo DEF vars, tcpVars, receiverVars, deviceVars
<1> QED
  BY <1>1, <1>2, <1>3, <1>4 DEF Next

LEMMA SoloStarts == Init => SoloInv
<1> SUFFICES ASSUME Init PROVE SoloInv
  OBVIOUS
<1>1. connState = "connecting" /\ dev.state = "closed"
  BY DEF Init
<1> QED
  BY <1>1 DEF SoloInv, OpeningInv, InTurnInv, LastWordInv, Up

\* A window of one byte is used up by the SYN.
LEMMA SoloWaits ==
  ASSUME Inv, SoloInv, DevBuf > 1
  PROVE  WaitsForTheDevice
<1> SUFFICES ASSUME connState = "connected", Sender \in asleep.send, wire = << >>,
                    \A r \in Receivers : rpc[r] = "idle",
                    dev.state = "open", dev.told = <<dev.got, dev.read>>
             PROVE  stx.seq >= dev.read + DevBuf
  BY DEF WaitsForTheDevice
<1>0. TypeOK /\ SleepsOnlyWhenFull
  BY DEF Inv, SleepInv
<1>1. Up /\ Pending = << >>
  BY DEF Up, Pending, Handled
<1>2. stx.inWin - (stx.seq - stx.seqAcked) <= 0
  BY <1>0 DEF SleepsOnlyWhenFull, Unacked
<1>3. dev.got = stx.seq /\ KnownWindow
  BY <1>1 DEF SoloInv, InTurnInv, LastWordInv
<1>4. dev.told[1] = stx.seq /\ dev.told[2] = dev.read
  BY <1>3
<1> QED
  BY <1>0, <1>2, <1>3, <1>4, StateFields, SizeTypes DEF KnownWindow, LastSaid

\* A sender that sleeps while nothing is on its way has filled the device's buffer,
\* as long as one receiver at a time handles packets of the connection: it is their
\* overtaking alone that leaves it waiting (TCP.cpp:201-214, 331-349). The window is
\* larger than one byte, as its unit is 256 (TCP.cpp:339).
THEOREM AloneWaitsForTheDevice ==
  DevBuf > 1 => (Spec /\ []HandledAlone => []WaitsForTheDevice)
<1> SUFFICES ASSUME DevBuf > 1 PROVE Spec /\ []HandledAlone => []WaitsForTheDevice
  OBVIOUS
<1>1. Spec => []EarlyInv
  BY Invariance, EarlyStarts, EarlyKept, PTL DEF Spec
<1>2. Inv /\ EarlyInv /\ TypeOK /\ StreamInv /\ SoloInv /\ HandledAlone /\ HandledAlone'
      /\ [Next]_vars => SoloInv'
  BY SoloKept
<1>3. Spec /\ []HandledAlone => []SoloInv
  BY <1>1, <1>2, Invariance, StreamAlways, SoloStarts, PTL DEF Spec
<1>4. Inv /\ SoloInv => WaitsForTheDevice
  BY SoloWaits
<1> QED
  BY <1>3, <1>4, Invariance, PTL

\* So it is with a device that runs on a single receiver thread, as it does when the
\* others cannot be started (USBDeviceManager.cpp:131-149).
THEOREM OneReceiverWaits ==
  DevBuf > 1 /\ (\A r, q \in Receivers : r = q) => (Spec => []WaitsForTheDevice)
<1> SUFFICES ASSUME DevBuf > 1, \A r, q \in Receivers : r = q
             PROVE  Spec => []WaitsForTheDevice
  OBVIOUS
<1>1. HandledAlone
  BY DEF HandledAlone
<1>2. []HandledAlone
  BY <1>1, PTL
<1>3. Spec /\ []HandledAlone => []WaitsForTheDevice
  BY AloneWaitsForTheDevice
<1> QED
  BY <1>2, <1>3
=============================================================================
