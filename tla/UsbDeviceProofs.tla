--------------------------- MODULE UsbDeviceProofs ---------------------------
(***************************************************************************)
(* Proofs about UsbDevice, for any receivers, clients and ports: types,    *)
(* NoResurrection and ConReaperNeverLast.                                  *)
(***************************************************************************)
EXTENDS UsbDevice, FiniteSetTheorems, TLAPS

\* A receiver that has taken a transfer and not submitted it again.
Busy == {"handle", "add", "input", "forward", "resubmit", "throw", "last"}

\* A receiver at work holds a transfer of its own, and has a connection in hand
\* only from the lookup on.
HoldInv ==
  /\ \A r \in Rx : rpc[r] \in Busy => rx[holds[r]] = "held"
  /\ \A r, s \in Rx : rpc[r] \in Busy /\ rpc[s] \in Busy /\ r # s => holds[r] # holds[s]
  /\ \A r \in Rx : inp[r] # NoConn => rpc[r] \in {"input", "forward", "resubmit", "throw"}

\* What has to do with a connection, has to do with one that was inserted; and
\* the reaper works on a connection in _conns.
Inserted ==
  /\ \A p \in Ports, c \in Clients : conns[p] = c => port[c] = p /\ tcp[c] # "none"
  /\ \A c \in Clients :
       /\ tcp[c] = "none" <=> cpc[c] \in {"idle", "insert"}
       /\ loop[c] # "off" => cpc[c] \in {"leave", "done"}
  /\ \A r \in Rx, c \in Clients : inp[r] = c => tcp[c] # "none"
  /\ \A r \in Rx : rpc[r] \in {"input", "forward"} => inp[r] # NoConn
  /\ conReaper # "wait" => reapPorts # << >> /\ Head(reapPorts) \in Open

\* A loop runs as long as somebody has its connection.
LoopInv ==
  \A c \in Clients : loop[c] \in {"run", "asleep", "late"} => Holders(c) # {}

\* Nothing refers to an object that is not there yet, or not any more.
LifeInv ==
  /\ obj # "alive" => ~Referenced
  /\ ctl # "none" => \A x \in Rx : rx[x] = "none"

IInv == TypeOK /\ HoldInv /\ Inserted /\ LoopInv /\ LifeInv

\* The device is kept as long as a connection is open, if no client is too late.
OpenInv == Open # {} => Kept

-----------------------------------------------------------------------------
(* Types. *)

\* Finitely many ports are in use, so deconstruct() can go through them.
LEMMA OpenFinite == IsFiniteSet(Open) /\ Cardinality(Open) \in Nat
<1>1. IsFiniteSet(1 .. PortMod - 1)
  BY FS_Interval, UsbAssumption
<1>2. Open \subseteq 1 .. PortMod - 1
  BY DEF Open, Ports
<1>3. IsFiniteSet(Open)
  BY <1>1, <1>2, FS_Subset
<1> QED
  BY <1>3, FS_CardinalityType

\* A sequence with one more element.
LEMMA Appended ==
  ASSUME NEW S, NEW s \in Seq(S), NEW e \in S
  PROVE  Append(s, e) \in Seq(S)
  OBVIOUS

\* Every step keeps the types.
LEMMA TypeStep ==
  ASSUME TypeOK, Inserted, [Next]_vars
  PROVE  TypeOK'
<1>1. ASSUME DeviceAdd PROVE TypeOK'
  BY <1>1
  DEF TypeOK, LifeTypes, XferTypes, ConnTypes, ReapTypes, HasConn, DeviceAdd, vars,
      busVars, lifeVars, xferVars, connVars
<1>2. ASSUME LangId PROVE TypeOK'
  BY <1>2
  DEF TypeOK, LifeTypes, XferTypes, ConnTypes, ReapTypes, HasConn, LangId, vars,
      busVars, lifeVars, xferVars, connVars
<1>3. ASSUME ControlFails PROVE TypeOK'
  BY <1>3
  DEF TypeOK, LifeTypes, XferTypes, ConnTypes, ReapTypes, HasConn, ControlFails,
      vars, busVars, lifeVars, xferVars, connVars
<1>4. ASSUME NEW started \in SUBSET Rx, SerialRead(started) PROVE TypeOK'
  <2>1. LifeTypes'
    BY <1>4
    DEF TypeOK, LifeTypes, SerialRead, Sent, NotSent, vars, busVars, lifeVars,
        xferVars, connVars
  <2>2. XferTypes'
    BY <1>4
    DEF TypeOK, XferTypes, SerialRead, Sent, NotSent, vars, busVars, lifeVars,
        xferVars, connVars
  <2>3. ConnTypes'
    BY <1>4
    DEF TypeOK, ConnTypes, HasConn, SerialRead, Sent, NotSent, vars, busVars,
        lifeVars, xferVars, connVars
  <2>4. ReapTypes'
    BY <1>4
    DEF TypeOK, ReapTypes, SerialRead, Sent, NotSent, vars, busVars, lifeVars,
        xferVars, connVars
  <2> QED
    BY <2>1, <2>2, <2>3, <2>4 DEF TypeOK
<1>5. ASSUME NEW x \in Rx, RxArrives(x) PROVE TypeOK'
  <2>1. LifeTypes'
    BY <1>5
    DEF TypeOK, LifeTypes, RxArrives, vars, busVars, lifeVars, xferVars, connVars
  <2>2. XferTypes'
    BY <1>5
    DEF TypeOK, XferTypes, RxArrives, vars, busVars, lifeVars, xferVars, connVars
  <2>3. ConnTypes'
    BY <1>5
    DEF TypeOK, ConnTypes, HasConn, RxArrives, vars, busVars, lifeVars, xferVars,
        connVars
  <2>4. ReapTypes'
    BY <1>5
    DEF TypeOK, ReapTypes, RxArrives, vars, busVars, lifeVars, xferVars, connVars
  <2> QED
    BY <2>1, <2>2, <2>3, <2>4 DEF TypeOK
<1>6. ASSUME NEW x \in Rx, RxFails(x) PROVE TypeOK'
  BY <1>6
  DEF TypeOK, LifeTypes, XferTypes, ConnTypes, ReapTypes, HasConn, RxFails, vars,
      busVars, lifeVars, xferVars, connVars
<1>7. ASSUME TxDone PROVE TypeOK'
  BY <1>7
  DEF TypeOK, LifeTypes, XferTypes, ConnTypes, ReapTypes, HasConn, TxDone, vars,
      busVars, lifeVars, xferVars, connVars
<1>8. ASSUME HotplugLeft PROVE TypeOK'
  BY <1>8
  DEF TypeOK, LifeTypes, XferTypes, ConnTypes, ReapTypes, HasConn, HotplugLeft,
      vars, busVars, lifeVars, xferVars, connVars
<1>9. ASSUME Unplug PROVE TypeOK'
  <2>1. LifeTypes'
    BY <1>9
    DEF TypeOK, LifeTypes, Unplug, vars, busVars, lifeVars, xferVars, connVars
  <2>2. XferTypes'
    BY <1>9
    DEF TypeOK, XferTypes, Unplug, vars, busVars, lifeVars, xferVars, connVars
  <2>3. ConnTypes'
    BY <1>9
    DEF TypeOK, ConnTypes, HasConn, Unplug, vars, busVars, lifeVars, xferVars,
        connVars
  <2>4. ReapTypes'
    BY <1>9
    DEF TypeOK, ReapTypes, Unplug, vars, busVars, lifeVars, xferVars, connVars
  <2> QED
    BY <2>1, <2>2, <2>3, <2>4 DEF TypeOK
<1>10. ASSUME NEW r \in Rx, NEW x \in Rx, Take(r, x) PROVE TypeOK'
  <2>1. LifeTypes'
    BY <1>10
    DEF TypeOK, LifeTypes, Take, Arrived, vars, busVars, lifeVars, xferVars,
        connVars
  <2>2. XferTypes'
    BY <1>10
    DEF TypeOK, XferTypes, Take, Arrived, vars, busVars, lifeVars, xferVars,
        connVars
  <2>3. ConnTypes'
    BY <1>10
    DEF TypeOK, ConnTypes, HasConn, Take, Arrived, vars, busVars, lifeVars,
        xferVars, connVars
  <2>4. ReapTypes'
    BY <1>10
    DEF TypeOK, ReapTypes, Take, Arrived, vars, busVars, lifeVars, xferVars,
        connVars
  <2> QED
    BY <2>1, <2>2, <2>3, <2>4 DEF TypeOK
<1>11. ASSUME NEW r \in Rx, Handle(r) PROVE TypeOK'
  BY <1>11
  DEF TypeOK, LifeTypes, XferTypes, ConnTypes, ReapTypes, HasConn, Handle, Sent,
      NotSent, GuardFree, vars, busVars, lifeVars, xferVars, connVars
<1>12. ASSUME NEW r \in Rx, HandleVersion(r) PROVE TypeOK'
  <2>1. LifeTypes'
    BY <1>12
    DEF TypeOK, LifeTypes, HandleVersion, Sent, NotSent, vars, busVars, lifeVars,
        xferVars, connVars
  <2>2. XferTypes'
    BY <1>12
    DEF TypeOK, XferTypes, HandleVersion, Sent, NotSent, vars, busVars, lifeVars,
        xferVars, connVars
  <2>3. ConnTypes'
    BY <1>12
    DEF TypeOK, ConnTypes, HasConn, HandleVersion, Sent, NotSent, vars, busVars,
        lifeVars, xferVars, connVars
  <2>4. ReapTypes'
    BY <1>12
    DEF TypeOK, ReapTypes, HandleVersion, Sent, NotSent, vars, busVars, lifeVars,
        xferVars, connVars
  <2> QED
    BY <2>1, <2>2, <2>3, <2>4 DEF TypeOK
<1>13. ASSUME NEW r \in Rx, HandleUnknown(r) PROVE TypeOK'
  BY <1>13
  DEF TypeOK, LifeTypes, XferTypes, ConnTypes, ReapTypes, HasConn, HandleUnknown,
      vars, busVars, lifeVars, xferVars, connVars
<1>14. ASSUME NEW r \in Rx, HandleThrows(r) PROVE TypeOK'
  BY <1>14
  DEF TypeOK, LifeTypes, XferTypes, ConnTypes, ReapTypes, HasConn, HandleThrows,
      vars, busVars, lifeVars, xferVars, connVars
<1>15. ASSUME NEW r \in Rx, NEW c \in Clients, HandleTcp(r, c) PROVE TypeOK'
  <2>1. LifeTypes'
    BY <1>15
    DEF TypeOK, LifeTypes, HandleTcp, GuardFree, vars, busVars, lifeVars, xferVars,
        connVars
  <2>2. XferTypes'
    BY <1>15
    DEF TypeOK, XferTypes, HandleTcp, GuardFree, vars, busVars, lifeVars, xferVars,
        connVars
  <2>3. ConnTypes'
    BY <1>15
    DEF TypeOK, ConnTypes, HasConn, HandleTcp, GuardFree, vars, busVars, lifeVars,
        xferVars, connVars
  <2>4. ReapTypes'
    BY <1>15
    DEF TypeOK, ReapTypes, HandleTcp, GuardFree, vars, busVars, lifeVars, xferVars,
        connVars
  <2> QED
    BY <2>1, <2>2, <2>3, <2>4 DEF TypeOK
<1>16. ASSUME NEW r \in Rx, NEW c \in Clients, InputConnecting(r, c) PROVE TypeOK'
  <2>1. LifeTypes'
    BY <1>16
    DEF TypeOK, LifeTypes, InputConnecting, Sent, NotSent, vars, busVars, lifeVars,
        xferVars, connVars
  <2>2. XferTypes'
    BY <1>16
    DEF TypeOK, XferTypes, InputConnecting, Sent, NotSent, vars, busVars, lifeVars,
        xferVars, connVars
  <2>3. ConnTypes'
    <3>1. port[c] \in Ports
      BY <1>16 DEF TypeOK, ConnTypes, Inserted, InputConnecting, Sent, NotSent
    <3>2. PICK q \in Ports : reapPorts' = reapPorts \/ reapPorts' = Append(reapPorts, q)
      BY <1>16, <3>1 DEF InputConnecting, Sent, NotSent
    <3>3. Append(reapPorts, q) \in Seq(Ports)
      BY <3>2, Appended DEF TypeOK, ConnTypes
    <3>4. reapPorts' \in Seq(Ports)
      BY <3>2, <3>3 DEF TypeOK, ConnTypes
    <3> QED
      BY <1>16, <3>4 DEF TypeOK, ConnTypes, InputConnecting, Sent, NotSent, vars, busVars,
        lifeVars, xferVars, connVars
  <2>4. ReapTypes'
    BY <1>16
    DEF TypeOK, ReapTypes, InputConnecting, Sent, NotSent, vars, busVars, lifeVars,
        xferVars, connVars
  <2> QED
    BY <2>1, <2>2, <2>3, <2>4 DEF TypeOK
<1>17. ASSUME NEW r \in Rx, NEW c \in Clients, InputConnected(r, c) PROVE TypeOK'
  <2>1. LifeTypes'
    BY <1>17
    DEF TypeOK, LifeTypes, InputConnected, Sent, NotSent, Close, Woken, vars,
        busVars, lifeVars, xferVars, connVars
  <2>2. XferTypes'
    BY <1>17
    DEF TypeOK, XferTypes, InputConnected, Sent, NotSent, Close, Woken, vars,
        busVars, lifeVars, xferVars, connVars
  <2>3. ConnTypes'
    <3>1. port[c] \in Ports
      BY <1>17 DEF TypeOK, ConnTypes, Inserted, InputConnected, Sent, NotSent, Close, Woken
    <3>2. PICK q \in Ports : reapPorts' = reapPorts \/ reapPorts' = Append(reapPorts, q)
      BY <1>17, <3>1 DEF InputConnected, Sent, NotSent, Close, Woken
    <3>3. Append(reapPorts, q) \in Seq(Ports)
      BY <3>2, Appended DEF TypeOK, ConnTypes
    <3>4. reapPorts' \in Seq(Ports)
      BY <3>2, <3>3 DEF TypeOK, ConnTypes
    <3> QED
      BY <1>17, <3>4 DEF TypeOK, ConnTypes, InputConnected, Sent, NotSent, Close, Woken,
        vars, busVars, lifeVars, xferVars, connVars
  <2>4. ReapTypes'
    BY <1>17
    DEF TypeOK, ReapTypes, InputConnected, Sent, NotSent, Close, Woken, vars,
        busVars, lifeVars, xferVars, connVars
  <2> QED
    BY <2>1, <2>2, <2>3, <2>4 DEF TypeOK
<1>18. ASSUME NEW r \in Rx, NEW c \in Clients, InputIgnored(r, c) PROVE TypeOK'
  BY <1>18
  DEF TypeOK, LifeTypes, XferTypes, ConnTypes, ReapTypes, HasConn, InputIgnored,
      vars, busVars, lifeVars, xferVars, connVars
<1>19. ASSUME NEW r \in Rx, AddToMux(r) PROVE TypeOK'
  BY <1>19
  DEF TypeOK, LifeTypes, XferTypes, ConnTypes, ReapTypes, HasConn, AddToMux, vars,
      busVars, lifeVars, xferVars, connVars
<1>20. ASSUME NEW r \in Rx, Forward(r) PROVE TypeOK'
  <2>1. LifeTypes'
    BY <1>20
    DEF TypeOK, LifeTypes, Forward, Close, vars, busVars, lifeVars, xferVars,
        connVars
  <2>2. XferTypes'
    BY <1>20
    DEF TypeOK, XferTypes, Forward, Close, vars, busVars, lifeVars, xferVars,
        connVars
  <2>3. ConnTypes'
    <3>1. port[inp[r]] \in Ports
      BY <1>20 DEF TypeOK, ConnTypes, XferTypes, Inserted, Forward, Close
    <3>2. PICK q \in Ports : reapPorts' = reapPorts \/ reapPorts' = Append(reapPorts, q)
      BY <1>20, <3>1 DEF Forward, Close
    <3>3. Append(reapPorts, q) \in Seq(Ports)
      BY <3>2, Appended DEF TypeOK, ConnTypes
    <3>4. reapPorts' \in Seq(Ports)
      BY <3>2, <3>3 DEF TypeOK, ConnTypes
    <3> QED
      BY <1>20, <3>4 DEF TypeOK, ConnTypes, Forward, Close, vars, busVars, lifeVars,
        xferVars, connVars
  <2>4. ReapTypes'
    BY <1>20
    DEF TypeOK, ReapTypes, Forward, Close, vars, busVars, lifeVars, xferVars,
        connVars
  <2> QED
    BY <2>1, <2>2, <2>3, <2>4 DEF TypeOK
<1>21. ASSUME NEW r \in Rx, DropConn(r) PROVE TypeOK'
  <2>1. LifeTypes'
    BY <1>21
    DEF TypeOK, LifeTypes, DropConn, CanDrop, vars, busVars, lifeVars, xferVars,
        connVars
  <2>2. XferTypes'
    BY <1>21
    DEF TypeOK, XferTypes, DropConn, CanDrop, vars, busVars, lifeVars, xferVars,
        connVars
  <2>3. ConnTypes'
    BY <1>21
    DEF TypeOK, ConnTypes, HasConn, DropConn, CanDrop, vars, busVars, lifeVars,
        xferVars, connVars
  <2>4. ReapTypes'
    BY <1>21
    DEF TypeOK, ReapTypes, DropConn, CanDrop, vars, busVars, lifeVars, xferVars,
        connVars
  <2> QED
    BY <2>1, <2>2, <2>3, <2>4 DEF TypeOK
<1>22. ASSUME NEW r \in Rx, Caught(r) PROVE TypeOK'
  BY <1>22
  DEF TypeOK, LifeTypes, XferTypes, ConnTypes, ReapTypes, HasConn, Caught, vars,
      busVars, lifeVars, xferVars, connVars
<1>23. ASSUME NEW r \in Rx, Resubmit(r) PROVE TypeOK'
  BY <1>23
  DEF TypeOK, LifeTypes, XferTypes, ConnTypes, ReapTypes, HasConn, Resubmit, vars,
      busVars, lifeVars, xferVars, connVars
<1>24. ASSUME NEW c \in Clients, ClientFind(c) PROVE TypeOK'
  BY <1>24
  DEF TypeOK, LifeTypes, XferTypes, ConnTypes, ReapTypes, HasConn, ClientFind, vars,
      busVars, lifeVars, xferVars, connVars
<1>25. ASSUME NEW c \in Clients, ClientInsert(c) PROVE TypeOK'
  <2>1. LifeTypes'
    BY <1>25
    DEF TypeOK, LifeTypes, ClientInsert, GuardFree, vars, busVars, lifeVars,
        xferVars, connVars
  <2>2. XferTypes'
    BY <1>25
    DEF TypeOK, XferTypes, ClientInsert, GuardFree, vars, busVars, lifeVars,
        xferVars, connVars
  <2>3. ConnTypes'
    <3>1. PICK q \in 0 .. PortMod - 1 :
            /\ FirstFree(q)
            /\ nextPort' = q
            /\ port' = [port EXCEPT ![c] = q]
            /\ conns' = [conns EXCEPT ![q] = c]
      BY <1>25 DEF ClientInsert
    <3>2. q \in Ports
      BY <3>1 DEF FirstFree
    <3> QED
      BY <1>25, <3>1, <3>2
      DEF TypeOK, ConnTypes, HasConn, ClientInsert, vars, busVars, lifeVars, xferVars,
          connVars
  <2>4. ReapTypes'
    BY <1>25
    DEF TypeOK, ReapTypes, ClientInsert, GuardFree, vars, busVars, lifeVars,
        xferVars, connVars
  <2> QED
    BY <2>1, <2>2, <2>3, <2>4 DEF TypeOK
<1>26. ASSUME NEW c \in Clients, ClientConnect(c) PROVE TypeOK'
  <2>1. LifeTypes'
    BY <1>26
    DEF TypeOK, LifeTypes, ClientConnect, Sent, NotSent, vars, busVars, lifeVars,
        xferVars, connVars
  <2>2. XferTypes'
    BY <1>26
    DEF TypeOK, XferTypes, ClientConnect, Sent, NotSent, vars, busVars, lifeVars,
        xferVars, connVars
  <2>3. ConnTypes'
    BY <1>26
    DEF TypeOK, ConnTypes, HasConn, ClientConnect, Sent, NotSent, vars, busVars,
        lifeVars, xferVars, connVars
  <2>4. ReapTypes'
    BY <1>26
    DEF TypeOK, ReapTypes, ClientConnect, Sent, NotSent, vars, busVars, lifeVars,
        xferVars, connVars
  <2> QED
    BY <2>1, <2>2, <2>3, <2>4 DEF TypeOK
<1>27. ASSUME NEW c \in Clients, ClientReturn(c) PROVE TypeOK'
  <2>1. LifeTypes'
    BY <1>27
    DEF TypeOK, LifeTypes, ClientReturn, vars, busVars, lifeVars, xferVars, connVars
  <2>2. XferTypes'
    BY <1>27
    DEF TypeOK, XferTypes, ClientReturn, vars, busVars, lifeVars, xferVars, connVars
  <2>3. ConnTypes'
    BY <1>27
    DEF TypeOK, ConnTypes, HasConn, ClientReturn, vars, busVars, lifeVars, xferVars,
        connVars
  <2>4. ReapTypes'
    BY <1>27
    DEF TypeOK, ReapTypes, ClientReturn, vars, busVars, lifeVars, xferVars, connVars
  <2> QED
    BY <2>1, <2>2, <2>3, <2>4 DEF TypeOK
<1>28. ASSUME NEW c \in Clients, ClientStarts(c) PROVE TypeOK'
  BY <1>28
  DEF TypeOK, LifeTypes, XferTypes, ConnTypes, ReapTypes, HasConn, ClientStarts,
      vars, busVars, lifeVars, xferVars, connVars
<1>29. ASSUME NEW c \in Clients, ClientLeaves(c) PROVE TypeOK'
  BY <1>29
  DEF TypeOK, LifeTypes, XferTypes, ConnTypes, ReapTypes, HasConn, ClientLeaves,
      CanDrop, vars, busVars, lifeVars, xferVars, connVars
<1>30. ASSUME NEW c \in Clients, LoopSend(c) PROVE TypeOK'
  <2>1. LifeTypes'
    BY <1>30
    DEF TypeOK, LifeTypes, LoopSend, Sent, NotSent, vars, busVars, lifeVars,
        xferVars, connVars
  <2>2. XferTypes'
    BY <1>30
    DEF TypeOK, XferTypes, LoopSend, Sent, NotSent, vars, busVars, lifeVars,
        xferVars, connVars
  <2>3. ConnTypes'
    BY <1>30
    DEF TypeOK, ConnTypes, HasConn, LoopSend, Sent, NotSent, vars, busVars,
        lifeVars, xferVars, connVars
  <2>4. ReapTypes'
    BY <1>30
    DEF TypeOK, ReapTypes, LoopSend, Sent, NotSent, vars, busVars, lifeVars,
        xferVars, connVars
  <2> QED
    BY <2>1, <2>2, <2>3, <2>4 DEF TypeOK
<1>31. ASSUME NEW c \in Clients, LoopSleep(c) PROVE TypeOK'
  BY <1>31
  DEF TypeOK, LifeTypes, XferTypes, ConnTypes, ReapTypes, HasConn, LoopSleep, vars,
      busVars, lifeVars, xferVars, connVars
<1>32. ASSUME NEW c \in Clients, LoopWakes(c) PROVE TypeOK'
  BY <1>32
  DEF TypeOK, LifeTypes, XferTypes, ConnTypes, ReapTypes, HasConn, LoopWakes, vars,
      busVars, lifeVars, xferVars, connVars
<1>33. ASSUME NEW c \in Clients, LoopEnds(c) PROVE TypeOK'
  <2>1. LifeTypes'
    BY <1>33
    DEF TypeOK, LifeTypes, LoopEnds, Sent, NotSent, vars, busVars, lifeVars,
        xferVars, connVars
  <2>2. XferTypes'
    BY <1>33
    DEF TypeOK, XferTypes, LoopEnds, Sent, NotSent, vars, busVars, lifeVars,
        xferVars, connVars
  <2>3. ConnTypes'
    <3>1. port[c] \in Ports
      BY <1>33 DEF TypeOK, ConnTypes, Inserted, LoopEnds, Sent, NotSent
    <3>2. PICK q \in Ports : reapPorts' = reapPorts \/ reapPorts' = Append(reapPorts, q)
      BY <1>33, <3>1 DEF LoopEnds, Sent, NotSent
    <3>3. Append(reapPorts, q) \in Seq(Ports)
      BY <3>2, Appended DEF TypeOK, ConnTypes
    <3>4. reapPorts' \in Seq(Ports)
      BY <3>2, <3>3 DEF TypeOK, ConnTypes
    <3> QED
      BY <1>33, <3>4 DEF TypeOK, ConnTypes, LoopEnds, Sent, NotSent, vars, busVars,
        lifeVars, xferVars, connVars
  <2>4. ReapTypes'
    BY <1>33
    DEF TypeOK, ReapTypes, LoopEnds, Sent, NotSent, vars, busVars, lifeVars,
        xferVars, connVars
  <2> QED
    BY <2>1, <2>2, <2>3, <2>4 DEF TypeOK
<1>34. ASSUME ConNone PROVE TypeOK'
  <2>1. LifeTypes'
    BY <1>34
    DEF TypeOK, LifeTypes, ConNone, Posted, GuardFree, Notified, vars, busVars,
        lifeVars, xferVars, connVars
  <2>2. XferTypes'
    BY <1>34
    DEF TypeOK, XferTypes, ConNone, Posted, GuardFree, Notified, vars, busVars,
        lifeVars, xferVars, connVars
  <2>3. ConnTypes'
    BY <1>34
    DEF TypeOK, ConnTypes, HasConn, ConNone, Posted, GuardFree, Notified, vars,
        busVars, lifeVars, xferVars, connVars
  <2>4. ReapTypes'
    BY <1>34
    DEF TypeOK, ReapTypes, ConNone, Posted, GuardFree, Notified, vars, busVars,
        lifeVars, xferVars, connVars
  <2> QED
    BY <2>1, <2>2, <2>3, <2>4 DEF TypeOK
<1>35. ASSUME ConDeconstruct PROVE TypeOK'
  <2>1. LifeTypes'
    BY <1>35
    DEF TypeOK, LifeTypes, ConDeconstruct, Posted, GuardFree, vars, busVars,
        lifeVars, xferVars, connVars
  <2>2. XferTypes'
    BY <1>35
    DEF TypeOK, XferTypes, ConDeconstruct, Posted, GuardFree, vars, busVars,
        lifeVars, xferVars, connVars
  <2>3. ConnTypes'
    <3> DEFINE p == Head(reapPorts)
    <3>1. p \in Ports /\ conns[p] \in Clients
      BY <1>35 DEF TypeOK, ConnTypes, ConDeconstruct, Open
    <3>2. port[conns[p]] \in Ports
      BY <3>1 DEF Inserted
    <3> QED
      BY <1>35, <3>1, <3>2
      DEF TypeOK, ConnTypes, HasConn, ConDeconstruct, vars, busVars, lifeVars, xferVars,
          connVars
  <2>4. ReapTypes'
    BY <1>35
    DEF TypeOK, ReapTypes, ConDeconstruct, Posted, GuardFree, vars, busVars,
        lifeVars, xferVars, connVars
  <2> QED
    BY <2>1, <2>2, <2>3, <2>4 DEF TypeOK
<1>36. ASSUME ConErase PROVE TypeOK'
  <2>1. LifeTypes'
    BY <1>36
    DEF TypeOK, LifeTypes, ConErase, CanDrop, Notified, vars, busVars, lifeVars,
        xferVars, connVars
  <2>2. XferTypes'
    BY <1>36
    DEF TypeOK, XferTypes, ConErase, CanDrop, Notified, vars, busVars, lifeVars,
        xferVars, connVars
  <2>3. ConnTypes'
    <3>1. reapPorts # << >>
      BY <1>36 DEF Inserted, ConErase
    <3>2. Tail(reapPorts) \in Seq(Ports)
      BY <3>1 DEF TypeOK, ConnTypes
    <3>3. loop' \in [Clients -> {"off", "run", "asleep", "late", "threw"}]
      BY <1>36 DEF TypeOK, ConnTypes, ConErase
    <3> QED
      BY <1>36, <3>2, <3>3
      DEF TypeOK, ConnTypes, ConErase, vars, busVars, lifeVars, xferVars, connVars
  <2>4. ReapTypes'
    BY <1>36
    DEF TypeOK, ReapTypes, ConErase, CanDrop, Notified, vars, busVars, lifeVars,
        xferVars, connVars
  <2> QED
    BY <2>1, <2>2, <2>3, <2>4 DEF TypeOK
<1>37. ASSUME ReapTake PROVE TypeOK'
  <2>1. LifeTypes'
    BY <1>37
    DEF TypeOK, LifeTypes, ReapTake, vars, busVars, lifeVars, xferVars, connVars
  <2>2. XferTypes'
    BY <1>37
    DEF TypeOK, XferTypes, ReapTake, vars, busVars, lifeVars, xferVars, connVars
  <2>3. ConnTypes'
    BY <1>37
    DEF TypeOK, ConnTypes, HasConn, ReapTake, vars, busVars, lifeVars, xferVars,
        connVars
  <2>4. ReapTypes'
    BY <1>37
    DEF TypeOK, ReapTypes, ReapTake, vars, busVars, lifeVars, xferVars, connVars
  <2> QED
    BY <2>1, <2>2, <2>3, <2>4 DEF TypeOK
<1>38. ASSUME ReapCancel PROVE TypeOK'
  BY <1>38
  DEF TypeOK, LifeTypes, XferTypes, ConnTypes, ReapTypes, HasConn, ReapCancel, vars,
      busVars, lifeVars, xferVars, connVars
<1>39. ASSUME ReapPost PROVE TypeOK'
  <2>1. LifeTypes'
    BY <1>39
    DEF TypeOK, LifeTypes, ReapPost, GuardFree, vars, busVars, lifeVars, xferVars,
        connVars
  <2>2. XferTypes'
    BY <1>39
    DEF TypeOK, XferTypes, ReapPost, GuardFree, vars, busVars, lifeVars, xferVars,
        connVars
  <2>3. ConnTypes'
    <3>1. PICK s \in [1 .. Cardinality(Open) -> Open] : reapPorts' = reapPorts \o s
      BY <1>39 DEF ReapPost
    <3>2. s \in Seq(Ports)
      BY <3>1, OpenFinite DEF Open
    <3> QED
      BY <1>39, <3>1, <3>2
      DEF TypeOK, ConnTypes, ReapPost, vars, busVars, lifeVars, xferVars, connVars
  <2>4. ReapTypes'
    BY <1>39
    DEF TypeOK, ReapTypes, ReapPost, GuardFree, vars, busVars, lifeVars, xferVars,
        connVars
  <2> QED
    BY <2>1, <2>2, <2>3, <2>4 DEF TypeOK
<1>40. ASSUME ReapCheck PROVE TypeOK'
  BY <1>40
  DEF TypeOK, LifeTypes, XferTypes, ConnTypes, ReapTypes, HasConn, ReapCheck,
      GuardFree, vars, busVars, lifeVars, xferVars, connVars
<1>41. ASSUME DestroyBegin PROVE TypeOK'
  BY <1>41
  DEF TypeOK, LifeTypes, XferTypes, ConnTypes, ReapTypes, HasConn, DestroyBegin,
      vars, busVars, lifeVars, xferVars, connVars
<1>42. ASSUME DestroyReceivers PROVE TypeOK'
  BY <1>42
  DEF TypeOK, LifeTypes, XferTypes, ConnTypes, ReapTypes, HasConn, DestroyReceivers,
      vars, busVars, lifeVars, xferVars, connVars
<1>43. ASSUME DestroyEnd PROVE TypeOK'
  BY <1>43
  DEF TypeOK, LifeTypes, XferTypes, ConnTypes, ReapTypes, HasConn, DestroyEnd,
      GuardFree, vars, busVars, lifeVars, xferVars, connVars
<1>44. ASSUME MgrKill PROVE TypeOK'
  BY <1>44
  DEF TypeOK, LifeTypes, XferTypes, ConnTypes, ReapTypes, HasConn, MgrKill,
      InChildren, vars, busVars, lifeVars, xferVars, connVars
<1>45. ASSUME MgrDone PROVE TypeOK'
  BY <1>45
  DEF TypeOK, LifeTypes, XferTypes, ConnTypes, ReapTypes, HasConn, MgrDone,
      InChildren, vars, busVars, lifeVars, xferVars, connVars
<1>46. ASSUME UNCHANGED vars PROVE TypeOK'
  BY <1>46
  DEF TypeOK, LifeTypes, XferTypes, ConnTypes, ReapTypes, HasConn, vars, busVars,
      lifeVars, xferVars, connVars
<1> QED
  BY <1>1, <1>2, <1>3, <1>4, <1>5, <1>6, <1>7, <1>8, <1>9, <1>10, <1>11, <1>12,
      <1>13, <1>14, <1>15, <1>16, <1>17, <1>18, <1>19, <1>20, <1>21, <1>22, <1>23,
      <1>24, <1>25, <1>26, <1>27, <1>28, <1>29, <1>30, <1>31, <1>32, <1>33, <1>34,
      <1>35, <1>36, <1>37, <1>38, <1>39, <1>40, <1>41, <1>42, <1>43, <1>44, <1>45,
      <1>46
  DEF Next, Control, Receive, Input, Connect, Loop, ConReap, Reap, Destroy
-----------------------------------------------------------------------------
(* The parts of the invariant. *)

\* A receiver at work keeps a transfer of its own.
LEMMA HoldStep ==
  ASSUME TypeOK, HoldInv, Inserted, LifeInv, [Next]_vars
  PROVE  HoldInv'
<1>1. ASSUME NEW started \in SUBSET Rx, SerialRead(started) PROVE HoldInv'
  BY <1>1
  DEF TypeOK, XferTypes, HoldInv, Busy, LifeInv, SerialRead, Sent, NotSent, vars,
      busVars, lifeVars, xferVars, connVars
<1>2. ASSUME NEW x \in Rx, RxArrives(x) PROVE HoldInv'
  BY <1>2
  DEF TypeOK, XferTypes, HoldInv, Busy, RxArrives, vars, busVars, lifeVars,
      xferVars, connVars
<1>3. ASSUME NEW x \in Rx, RxFails(x) PROVE HoldInv'
  BY <1>3
  DEF TypeOK, XferTypes, HoldInv, Busy, RxFails, vars, busVars, lifeVars, xferVars,
      connVars
<1>4. ASSUME NEW r \in Rx, NEW x \in Rx, Take(r, x) PROVE HoldInv'
  BY <1>4
  DEF TypeOK, XferTypes, HoldInv, Busy, Take, Arrived, vars, busVars, lifeVars,
      xferVars, connVars
<1>5. ASSUME NEW r \in Rx, Handle(r) PROVE HoldInv'
  BY <1>5
  DEF TypeOK, XferTypes, HoldInv, Busy, Handle, Sent, NotSent, GuardFree, vars,
      busVars, lifeVars, xferVars, connVars
<1>6. ASSUME NEW r \in Rx, HandleVersion(r) PROVE HoldInv'
  BY <1>6
  DEF TypeOK, XferTypes, HoldInv, Busy, HandleVersion, Sent, NotSent, vars, busVars,
      lifeVars, xferVars, connVars
<1>7. ASSUME NEW r \in Rx, HandleUnknown(r) PROVE HoldInv'
  BY <1>7
  DEF TypeOK, XferTypes, HoldInv, Busy, HandleUnknown, vars, busVars, lifeVars,
      xferVars, connVars
<1>8. ASSUME NEW r \in Rx, HandleThrows(r) PROVE HoldInv'
  BY <1>8
  DEF TypeOK, XferTypes, HoldInv, Busy, HandleThrows, vars, busVars, lifeVars,
      xferVars, connVars
<1>9. ASSUME NEW r \in Rx, NEW c \in Clients, HandleTcp(r, c) PROVE HoldInv'
  BY <1>9
  DEF TypeOK, XferTypes, HoldInv, Busy, HandleTcp, GuardFree, vars, busVars,
      lifeVars, xferVars, connVars
<1>10. ASSUME NEW r \in Rx, NEW c \in Clients, InputConnecting(r, c) PROVE HoldInv'
  BY <1>10
  DEF TypeOK, XferTypes, HoldInv, Busy, InputConnecting, Sent, NotSent, vars,
      busVars, lifeVars, xferVars, connVars
<1>11. ASSUME NEW r \in Rx, NEW c \in Clients, InputConnected(r, c) PROVE HoldInv'
  BY <1>11
  DEF TypeOK, XferTypes, HoldInv, Busy, InputConnected, Sent, NotSent, Close, Woken,
      vars, busVars, lifeVars, xferVars, connVars
<1>12. ASSUME NEW r \in Rx, NEW c \in Clients, InputIgnored(r, c) PROVE HoldInv'
  BY <1>12
  DEF TypeOK, XferTypes, HoldInv, Busy, InputIgnored, vars, busVars, lifeVars,
      xferVars, connVars
<1>13. ASSUME NEW r \in Rx, AddToMux(r) PROVE HoldInv'
  BY <1>13
  DEF TypeOK, XferTypes, HoldInv, Busy, AddToMux, vars, busVars, lifeVars, xferVars,
      connVars
<1>14. ASSUME NEW r \in Rx, Forward(r) PROVE HoldInv'
  BY <1>14
  DEF TypeOK, XferTypes, HoldInv, Busy, Forward, Close, vars, busVars, lifeVars,
      xferVars, connVars
<1>15. ASSUME NEW r \in Rx, DropConn(r) PROVE HoldInv'
  BY <1>15
  DEF TypeOK, XferTypes, HoldInv, Busy, DropConn, CanDrop, vars, busVars, lifeVars,
      xferVars, connVars
<1>16. ASSUME NEW r \in Rx, Caught(r) PROVE HoldInv'
  BY <1>16
  DEF TypeOK, XferTypes, HoldInv, Busy, Caught, vars, busVars, lifeVars, xferVars,
      connVars
<1>17. ASSUME NEW r \in Rx, Resubmit(r) PROVE HoldInv'
  BY <1>17
  DEF TypeOK, XferTypes, HoldInv, Busy, Resubmit, vars, busVars, lifeVars, xferVars,
      connVars
<1>18. ASSUME ReapCancel PROVE HoldInv'
  BY <1>18
  DEF TypeOK, XferTypes, HoldInv, Busy, ReapCancel, vars, busVars, lifeVars,
      xferVars, connVars
<1>19. ASSUME DestroyReceivers PROVE HoldInv'
  BY <1>19
  DEF TypeOK, XferTypes, HoldInv, Busy, DestroyReceivers, vars, busVars, lifeVars,
      xferVars, connVars
<1>20. ASSUME UNCHANGED <<rx, rpc, holds, inp>> PROVE HoldInv'
  BY <1>20
  DEF HoldInv, Busy
<1>21. ASSUME DeviceAdd \/ LangId \/ ControlFails \/ TxDone \/ HotplugLeft \/ Unplug
         \/ ConNone PROVE UNCHANGED <<rx, rpc, holds, inp>>
  BY <1>21
  DEF DeviceAdd, LangId, ControlFails, TxDone, HotplugLeft, Unplug, ConNone, Posted,
      GuardFree, Notified, vars, busVars, lifeVars, xferVars, connVars
<1>22. ASSUME ConDeconstruct \/ ConErase \/ ReapTake \/ ReapPost \/ ReapCheck \/
         DestroyBegin \/ DestroyEnd PROVE UNCHANGED <<rx, rpc, holds, inp>>
  BY <1>22
  DEF ConDeconstruct, Posted, GuardFree, ConErase, CanDrop, Notified, ReapTake,
      ReapPost, ReapCheck, DestroyBegin, DestroyEnd, vars, busVars, lifeVars,
      xferVars, connVars
<1>23. ASSUME MgrKill \/ MgrDone PROVE UNCHANGED <<rx, rpc, holds, inp>>
  BY <1>23
  DEF MgrKill, InChildren, MgrDone, vars, busVars, lifeVars, xferVars, connVars
<1>24. ASSUME NEW c \in Clients, ClientFind(c) \/ ClientInsert(c) \/
         ClientConnect(c) \/ ClientReturn(c) \/ ClientStarts(c) \/ ClientLeaves(c)
         \/ LoopSend(c) PROVE UNCHANGED <<rx, rpc, holds, inp>>
  BY <1>24
  DEF ClientFind, ClientInsert, GuardFree, ClientConnect, Sent, NotSent,
      ClientReturn, ClientStarts, ClientLeaves, CanDrop, LoopSend, vars, busVars,
      lifeVars, xferVars, connVars
<1>25. ASSUME NEW c \in Clients, LoopSleep(c) \/ LoopWakes(c) \/ LoopEnds(c) PROVE
         UNCHANGED <<rx, rpc, holds, inp>>
  BY <1>25
  DEF LoopSleep, LoopWakes, LoopEnds, Sent, NotSent, vars, busVars, lifeVars,
      xferVars, connVars
<1>26. ASSUME UNCHANGED vars PROVE UNCHANGED <<rx, rpc, holds, inp>>
  BY <1>26
  DEF vars, busVars, lifeVars, xferVars, connVars
<1> QED
  BY <1>1, <1>2, <1>3, <1>4, <1>5, <1>6, <1>7, <1>8, <1>9, <1>10, <1>11, <1>12,
      <1>13, <1>14, <1>15, <1>16, <1>17, <1>18, <1>19, <1>20, <1>21, <1>22, <1>23,
      <1>24, <1>25, <1>26
  DEF Next, Control, Receive, Input, Connect, Loop, ConReap, Reap, Destroy
\* The head of a sequence stays when it grows.
LEMMA HeadStays ==
  ASSUME NEW S, NEW s \in Seq(S), NEW e \in S, s # << >>
  PROVE  Append(s, e) # << >> /\ Head(Append(s, e)) = Head(s)
  OBVIOUS

\* What the parts say about connections fits together.
LEMMA InsertedStep ==
  ASSUME TypeOK, Inserted, [Next]_vars
  PROVE  Inserted'
<1>1. ASSUME NEW started \in SUBSET Rx, SerialRead(started) PROVE Inserted'
  BY <1>1
  DEF TypeOK, XferTypes, ConnTypes, Inserted, HasConn, Open, SerialRead, Sent,
      NotSent, vars, busVars, lifeVars, xferVars, connVars
<1>2. ASSUME NEW r \in Rx, NEW x \in Rx, Take(r, x) PROVE Inserted'
  BY <1>2
  DEF TypeOK, XferTypes, ConnTypes, Inserted, HasConn, Open, Take, Arrived, vars,
      busVars, lifeVars, xferVars, connVars
<1>3. ASSUME NEW r \in Rx, Handle(r) PROVE Inserted'
  BY <1>3
  DEF TypeOK, XferTypes, ConnTypes, Inserted, HasConn, Open, Handle, Sent, NotSent,
      GuardFree, vars, busVars, lifeVars, xferVars, connVars
<1>4. ASSUME NEW r \in Rx, HandleVersion(r) PROVE Inserted'
  BY <1>4
  DEF TypeOK, XferTypes, ConnTypes, Inserted, HasConn, Open, HandleVersion, Sent,
      NotSent, vars, busVars, lifeVars, xferVars, connVars
<1>5. ASSUME NEW r \in Rx, HandleUnknown(r) PROVE Inserted'
  BY <1>5
  DEF TypeOK, XferTypes, ConnTypes, Inserted, HasConn, Open, HandleUnknown, vars,
      busVars, lifeVars, xferVars, connVars
<1>6. ASSUME NEW r \in Rx, HandleThrows(r) PROVE Inserted'
  BY <1>6
  DEF TypeOK, XferTypes, ConnTypes, Inserted, HasConn, Open, HandleThrows, vars,
      busVars, lifeVars, xferVars, connVars
<1>7. ASSUME NEW r \in Rx, NEW c \in Clients, HandleTcp(r, c) PROVE Inserted'
  BY <1>7, UsbAssumption
  DEF TypeOK, XferTypes, ConnTypes, Inserted, HasConn, Open, HandleTcp, GuardFree,
      vars, busVars, lifeVars, xferVars, connVars
<1>8. ASSUME NEW r \in Rx, NEW c \in Clients, InputConnecting(r, c) PROVE Inserted'
  <2>1. port[c] \in Ports
    BY <1>8 DEF TypeOK, XferTypes, ConnTypes, Inserted, InputConnecting, Sent, NotSent
  <2>2. PICK q \in Ports : reapPorts' = reapPorts \/ reapPorts' = Append(reapPorts, q)
    BY <1>8, <2>1 DEF InputConnecting, Sent, NotSent
  <2>3. reapPorts # << >> => reapPorts' # << >> /\ Head(reapPorts') = Head(reapPorts)
    BY <2>2, HeadStays DEF TypeOK, ConnTypes
  <2> QED
    BY <1>8, <2>3
    DEF TypeOK, XferTypes, ConnTypes, Inserted, HasConn, Open, InputConnecting, Sent,
      NotSent, vars, busVars,
        lifeVars, xferVars, connVars
<1>9. ASSUME NEW r \in Rx, NEW c \in Clients, InputConnected(r, c) PROVE Inserted'
  <2>1. port[c] \in Ports
    BY <1>9 DEF TypeOK, XferTypes, ConnTypes, Inserted, InputConnected, Sent, NotSent,
      Close, Woken
  <2>2. PICK q \in Ports : reapPorts' = reapPorts \/ reapPorts' = Append(reapPorts, q)
    BY <1>9, <2>1 DEF InputConnected, Sent, NotSent, Close, Woken
  <2>3. reapPorts # << >> => reapPorts' # << >> /\ Head(reapPorts') = Head(reapPorts)
    BY <2>2, HeadStays DEF TypeOK, ConnTypes
  <2> QED
    BY <1>9, <2>3
    DEF TypeOK, XferTypes, ConnTypes, Inserted, HasConn, Open, InputConnected, Sent,
      NotSent, Close, Woken, vars, busVars,
        lifeVars, xferVars, connVars
<1>10. ASSUME NEW r \in Rx, NEW c \in Clients, InputIgnored(r, c) PROVE Inserted'
  BY <1>10
  DEF TypeOK, XferTypes, ConnTypes, Inserted, HasConn, Open, InputIgnored, vars,
      busVars, lifeVars, xferVars, connVars
<1>11. ASSUME NEW r \in Rx, AddToMux(r) PROVE Inserted'
  BY <1>11
  DEF TypeOK, XferTypes, ConnTypes, Inserted, HasConn, Open, AddToMux, vars,
      busVars, lifeVars, xferVars, connVars
<1>12. ASSUME NEW r \in Rx, Forward(r) PROVE Inserted'
  <2>1. port[inp[r]] \in Ports
    BY <1>12 DEF TypeOK, XferTypes, ConnTypes, Inserted, Forward, Close
  <2>2. PICK q \in Ports : reapPorts' = reapPorts \/ reapPorts' = Append(reapPorts, q)
    BY <1>12, <2>1 DEF Forward, Close
  <2>3. reapPorts # << >> => reapPorts' # << >> /\ Head(reapPorts') = Head(reapPorts)
    BY <2>2, HeadStays DEF TypeOK, ConnTypes
  <2> QED
    BY <1>12, <2>3
    DEF TypeOK, XferTypes, ConnTypes, Inserted, HasConn, Open, Forward, Close, vars, busVars,
        lifeVars, xferVars, connVars
<1>13. ASSUME NEW r \in Rx, DropConn(r) PROVE Inserted'
  BY <1>13, UsbAssumption
  DEF TypeOK, XferTypes, ConnTypes, Inserted, HasConn, Open, DropConn, vars,
      busVars, lifeVars, xferVars, connVars
<1>14. ASSUME NEW r \in Rx, Caught(r) PROVE Inserted'
  BY <1>14
  DEF TypeOK, XferTypes, ConnTypes, Inserted, HasConn, Open, Caught, vars, busVars,
      lifeVars, xferVars, connVars
<1>15. ASSUME NEW r \in Rx, Resubmit(r) PROVE Inserted'
  BY <1>15
  DEF TypeOK, XferTypes, ConnTypes, Inserted, HasConn, Open, Resubmit, vars,
      busVars, lifeVars, xferVars, connVars
<1>16. ASSUME NEW c \in Clients, ClientFind(c) PROVE Inserted'
  BY <1>16
  DEF TypeOK, XferTypes, ConnTypes, Inserted, HasConn, Open, ClientFind, vars,
      busVars, lifeVars, xferVars, connVars
<1>17. ASSUME NEW c \in Clients, ClientInsert(c) PROVE Inserted'
  BY <1>17, UsbAssumption
  DEF TypeOK, XferTypes, ConnTypes, Inserted, HasConn, Open, FirstFree,
      ClientInsert, GuardFree, vars, busVars, lifeVars, xferVars, connVars
<1>18. ASSUME NEW c \in Clients, ClientConnect(c) PROVE Inserted'
  <2>1. loop[c] = "off" /\ tcp[c] # "none"
    BY <1>18 DEF TypeOK, ConnTypes, Inserted, HasConn, ClientConnect
  <2>2. /\ cpc' = [cpc EXCEPT ![c] = cpc'[c]] /\ cpc'[c] \in {"wait", "missed", "done"}
        /\ tcp' = [tcp EXCEPT ![c] = tcp'[c]] /\ tcp'[c] # "none"
    BY <1>18, <2>1 DEF TypeOK, ConnTypes, HasConn, ClientConnect
  <2>3. ASSUME NEW d \in Clients
        PROVE  /\ tcp'[d] = "none" <=> cpc'[d] \in {"idle", "insert"}
               /\ loop[d] # "off" => cpc'[d] \in {"leave", "done"}
               /\ tcp[d] # "none" => tcp'[d] # "none"
    BY <2>1, <2>2 DEF TypeOK, ConnTypes, Inserted, HasConn
  <2>4. UNCHANGED <<rpc, inp, conns, port, loop, reapPorts, conReaper>>
    BY <1>18 DEF ClientConnect
  <2> QED
    BY <2>3, <2>4 DEF Inserted, Open
<1>19. ASSUME NEW c \in Clients, ClientReturn(c) PROVE Inserted'
  BY <1>19
  DEF TypeOK, XferTypes, ConnTypes, Inserted, HasConn, Open, ClientReturn, vars,
      busVars, lifeVars, xferVars, connVars
<1>20. ASSUME NEW c \in Clients, ClientStarts(c) PROVE Inserted'
  BY <1>20
  DEF TypeOK, XferTypes, ConnTypes, Inserted, HasConn, Open, ClientStarts, vars,
      busVars, lifeVars, xferVars, connVars
<1>21. ASSUME NEW c \in Clients, ClientLeaves(c) PROVE Inserted'
  BY <1>21
  DEF TypeOK, XferTypes, ConnTypes, Inserted, HasConn, Open, ClientLeaves, vars,
      busVars, lifeVars, xferVars, connVars
<1>22. ASSUME NEW c \in Clients, LoopSend(c) PROVE Inserted'
  BY <1>22
  DEF TypeOK, XferTypes, ConnTypes, Inserted, HasConn, Open, LoopSend, Sent,
      NotSent, vars, busVars, lifeVars, xferVars, connVars
<1>23. ASSUME NEW c \in Clients, LoopSleep(c) PROVE Inserted'
  BY <1>23
  DEF TypeOK, XferTypes, ConnTypes, Inserted, HasConn, Open, LoopSleep, vars,
      busVars, lifeVars, xferVars, connVars
<1>24. ASSUME NEW c \in Clients, LoopWakes(c) PROVE Inserted'
  BY <1>24
  DEF TypeOK, XferTypes, ConnTypes, Inserted, HasConn, Open, LoopWakes, vars,
      busVars, lifeVars, xferVars, connVars
<1>25. ASSUME NEW c \in Clients, LoopEnds(c) PROVE Inserted'
  <2>1. port[c] \in Ports
    BY <1>25 DEF TypeOK, XferTypes, ConnTypes, Inserted, LoopEnds, Sent, NotSent
  <2>2. PICK q \in Ports : reapPorts' = reapPorts \/ reapPorts' = Append(reapPorts, q)
    BY <1>25, <2>1 DEF LoopEnds, Sent, NotSent
  <2>3. reapPorts # << >> => reapPorts' # << >> /\ Head(reapPorts') = Head(reapPorts)
    BY <2>2, HeadStays DEF TypeOK, ConnTypes
  <2> QED
    BY <1>25, <2>3
    DEF TypeOK, XferTypes, ConnTypes, Inserted, HasConn, Open, LoopEnds, Sent, NotSent,
      vars, busVars,
        lifeVars, xferVars, connVars
<1>26. ASSUME ConNone PROVE Inserted'
  BY <1>26
  DEF TypeOK, XferTypes, ConnTypes, Inserted, HasConn, Open, ConNone, Posted,
      GuardFree, Notified, vars, busVars, lifeVars, xferVars, connVars
<1>27. ASSUME ConDeconstruct PROVE Inserted'
  BY <1>27
  DEF TypeOK, XferTypes, ConnTypes, Inserted, HasConn, Open, ConDeconstruct, Posted,
      GuardFree, vars, busVars, lifeVars, xferVars, connVars
<1>28. ASSUME ConErase PROVE Inserted'
  BY <1>28, UsbAssumption
  DEF TypeOK, XferTypes, ConnTypes, Inserted, HasConn, Open, ConErase, Notified,
      vars, busVars, lifeVars, xferVars, connVars
<1>29. ASSUME ReapPost PROVE Inserted'
  BY <1>29
  DEF TypeOK, XferTypes, ConnTypes, Inserted, HasConn, Open, ReapPost, GuardFree,
      vars, busVars, lifeVars, xferVars, connVars
<1>30. ASSUME DestroyReceivers PROVE Inserted'
  BY <1>30
  DEF TypeOK, XferTypes, ConnTypes, Inserted, HasConn, Open, DestroyReceivers, vars,
      busVars, lifeVars, xferVars, connVars
<1>31. ASSUME DestroyEnd PROVE Inserted'
  BY <1>31
  DEF TypeOK, XferTypes, ConnTypes, Inserted, HasConn, Open, DestroyEnd, GuardFree,
      vars, busVars, lifeVars, xferVars, connVars
<1>32. ASSUME UNCHANGED <<rpc, inp, conns, port, tcp, loop, reapPorts, conReaper, cpc>>
       PROVE  Inserted'
  BY <1>32
  DEF Inserted, HasConn, Open
<1>33. ASSUME DeviceAdd \/ LangId \/ ControlFails \/ TxDone \/ HotplugLeft \/ Unplug
         \/ ReapTake PROVE UNCHANGED <<rpc, inp, conns, port, tcp, loop, reapPorts,
         conReaper, cpc>>
  BY <1>33
  DEF DeviceAdd, LangId, ControlFails, TxDone, HotplugLeft, Unplug, ReapTake, vars,
      busVars, lifeVars, xferVars, connVars
<1>34. ASSUME ReapCancel \/ ReapCheck \/ DestroyBegin \/ MgrKill \/ MgrDone PROVE
         UNCHANGED <<rpc, inp, conns, port, tcp, loop, reapPorts, conReaper, cpc>>
  BY <1>34
  DEF ReapCancel, ReapCheck, GuardFree, DestroyBegin, MgrKill, InChildren, MgrDone,
      vars, busVars, lifeVars, xferVars, connVars
<1>35. ASSUME NEW x \in Rx, RxArrives(x) \/ RxFails(x) PROVE UNCHANGED <<rpc, inp,
         conns, port, tcp, loop, reapPorts, conReaper, cpc>>
  BY <1>35
  DEF RxArrives, RxFails, vars, busVars, lifeVars, xferVars, connVars
<1>36. ASSUME UNCHANGED vars
       PROVE  UNCHANGED <<rpc, inp, conns, port, tcp, loop, reapPorts, conReaper, cpc>>
  BY <1>36
  DEF vars, busVars, lifeVars, xferVars, connVars
<1> QED
  BY <1>1, <1>2, <1>3, <1>4, <1>5, <1>6, <1>7, <1>8, <1>9, <1>10, <1>11, <1>12,
      <1>13, <1>14, <1>15, <1>16, <1>17, <1>18, <1>19, <1>20, <1>21, <1>22, <1>23,
      <1>24, <1>25, <1>26, <1>27, <1>28, <1>29, <1>30, <1>31, <1>32, <1>33, <1>34,
      <1>35, <1>36
  DEF Next, Control, Receive, Input, Connect, Loop, ConReap, Reap, Destroy
\* Nobody gives up a connection.
LEMMA NoneDropped ==
  ASSUME LoopInv,
         \A c \in Clients : Holders(c) \subseteq Holders(c)',
         \A c \in Clients :
           loop'[c] \in {"run", "asleep", "late"} => loop[c] \in {"run", "asleep", "late"}
  PROVE  LoopInv'
  BY DEF LoopInv

\* Somebody gives one up, as CanDrop allows.
LEMMA OneDropped ==
  ASSUME LoopInv, NEW c \in Clients, NEW h, CanDrop(c, h), UNCHANGED loop,
         \A d \in Clients : Holders(d) \ {h} \subseteq Holders(d)',
         \A d \in Clients \ {c} : Holders(d) \subseteq Holders(d)'
  PROVE  LoopInv'
<1>1. \A d \in Clients \ {c} : loop'[d] \in {"run", "asleep", "late"} => Holders(d)' # {}
  BY DEF LoopInv
<1>2. ASSUME loop'[c] \in {"run", "asleep", "late"} PROVE Holders(c)' # {}
  BY <1>2 DEF LoopInv, CanDrop
<1> QED
  BY <1>1, <1>2 DEF LoopInv

\* Who has a connection whose loop runs keeps it.
LEMMA LoopStep ==
  ASSUME TypeOK, HoldInv, Inserted, LoopInv, [Next]_vars
  PROVE  LoopInv'
<1>1. ASSUME NEW r \in Rx, NEW c \in Clients, HandleTcp(r, c) PROVE LoopInv'
  <2>1. ASSUME NEW d \in Clients PROVE Holders(d) \subseteq Holders(d)'
    <3>1. inp[r] = NoConn /\ NoConn \notin Clients
      BY <1>1, UsbAssumption DEF HoldInv, HandleTcp
    <3>2. UNCHANGED <<conns, cpc>> /\ inp' = [inp EXCEPT ![r] = c]
      BY <1>1 DEF HandleTcp, connVars
    <3>3. {s \in Rx : inp[s] = d} \subseteq {s \in Rx : inp'[s] = d}
      BY <3>1, <3>2 DEF TypeOK, XferTypes
    <3> QED
      BY <3>2, <3>3 DEF Holders
  <2>2. ASSUME NEW d \in Clients, loop'[d] \in {"run", "asleep", "late"}
        PROVE  loop[d] \in {"run", "asleep", "late"}
    BY <1>1, <2>2
    DEF TypeOK, ConnTypes, Holders, HandleTcp, GuardFree, vars, busVars, lifeVars,
        xferVars, connVars
  <2> QED
    BY <2>1, <2>2, NoneDropped
<1>2. ASSUME NEW r \in Rx, NEW c \in Clients, InputConnected(r, c) PROVE LoopInv'
  <2>1. ASSUME NEW d \in Clients PROVE Holders(d) \subseteq Holders(d)'
    BY <1>2
    DEF TypeOK, XferTypes, ConnTypes, HasConn, HoldInv, Busy, Holders, Inserted,
        InputConnected, Sent, NotSent, Close, Woken, vars, busVars, lifeVars,
        xferVars, connVars
  <2>2. ASSUME NEW d \in Clients, loop'[d] \in {"run", "asleep", "late"}
        PROVE  loop[d] \in {"run", "asleep", "late"}
    BY <1>2, <2>2
    DEF TypeOK, ConnTypes, Holders, InputConnected, Sent, NotSent, Close, Woken,
        vars, busVars, lifeVars, xferVars, connVars
  <2> QED
    BY <2>1, <2>2, NoneDropped
<1>3. ASSUME NEW r \in Rx, DropConn(r) PROVE LoopInv'
  <2>1. inp[r] \in Clients /\ CanDrop(inp[r], r) /\ UNCHANGED loop
    BY <1>3 DEF TypeOK, XferTypes, ConnTypes, Inserted, Open, DropConn, connVars
  <2>2. ASSUME NEW d \in Clients PROVE Holders(d) \ {r} \subseteq Holders(d)'
    BY <1>3
    DEF TypeOK, XferTypes, ConnTypes, HasConn, Inserted, Holders, DropConn, vars,
        busVars, lifeVars, xferVars, connVars
  <2>3. ASSUME NEW d \in Clients \ {inp[r]} PROVE Holders(d) \subseteq Holders(d)'
    BY <1>3
    DEF TypeOK, XferTypes, ConnTypes, HasConn, Inserted, Holders, DropConn, vars,
        busVars, lifeVars, xferVars, connVars
  <2> QED
    BY <2>1, <2>2, <2>3, OneDropped
<1>4. ASSUME NEW c \in Clients, ClientFind(c) PROVE LoopInv'
  <2>1. ASSUME NEW d \in Clients PROVE Holders(d) \subseteq Holders(d)'
    BY <1>4
    DEF TypeOK, XferTypes, ConnTypes, HasConn, HoldInv, Busy, Holders, Inserted,
        ClientFind, vars, busVars, lifeVars, xferVars, connVars
  <2>2. ASSUME NEW d \in Clients, loop'[d] \in {"run", "asleep", "late"}
        PROVE  loop[d] \in {"run", "asleep", "late"}
    BY <1>4, <2>2
    DEF TypeOK, ConnTypes, Holders, ClientFind, vars, busVars, lifeVars, xferVars,
        connVars
  <2> QED
    BY <2>1, <2>2, NoneDropped
<1>5. ASSUME NEW c \in Clients, ClientInsert(c) PROVE LoopInv'
  <2>1. ASSUME NEW d \in Clients PROVE Holders(d) \subseteq Holders(d)'
    BY <1>5, UsbAssumption
    DEF TypeOK, XferTypes, ConnTypes, HasConn, HoldInv, Busy, Holders, Inserted,
        FirstFree, Open, ClientInsert, GuardFree, vars, busVars, lifeVars, xferVars,
        connVars
  <2>2. ASSUME NEW d \in Clients, loop'[d] \in {"run", "asleep", "late"}
        PROVE  loop[d] \in {"run", "asleep", "late"}
    BY <1>5, <2>2
    DEF TypeOK, ConnTypes, Holders, ClientInsert, GuardFree, vars, busVars,
        lifeVars, xferVars, connVars
  <2> QED
    BY <2>1, <2>2, NoneDropped
<1>6. ASSUME NEW c \in Clients, ClientConnect(c) PROVE LoopInv'
  <2>1. loop[c] = "off" /\ UNCHANGED loop
    BY <1>6 DEF TypeOK, ConnTypes, Inserted, ClientConnect, Sent, NotSent, connVars
  <2>2. ASSUME NEW d \in Clients \ {c} PROVE Holders(d) \subseteq Holders(d)'
    BY <1>6
    DEF TypeOK, ConnTypes, HasConn, Holders, ClientConnect, Sent, NotSent, vars,
        busVars, lifeVars, xferVars, connVars
  <2>3. ASSUME NEW d \in Clients PROVE Holders(d) \ {"client"} \subseteq Holders(d)'
    BY <1>6
    DEF TypeOK, ConnTypes, HasConn, Holders, ClientConnect, Sent, NotSent, vars,
        busVars, lifeVars, xferVars, connVars
  <2>4. CanDrop(c, "client")
    BY <2>1 DEF CanDrop
  <2> QED
    BY <2>1, <2>2, <2>3, <2>4, OneDropped
<1>7. ASSUME NEW c \in Clients, ClientReturn(c) PROVE LoopInv'
  <2>1. loop[c] = "off" /\ UNCHANGED loop
    BY <1>7 DEF TypeOK, ConnTypes, Inserted, ClientReturn, connVars
  <2>2. ASSUME NEW d \in Clients \ {c} PROVE Holders(d) \subseteq Holders(d)'
    BY <1>7
    DEF TypeOK, ConnTypes, HasConn, Holders, ClientReturn, vars, busVars, lifeVars,
        xferVars, connVars
  <2>3. ASSUME NEW d \in Clients PROVE Holders(d) \ {"client"} \subseteq Holders(d)'
    BY <1>7
    DEF TypeOK, ConnTypes, HasConn, Holders, ClientReturn, vars, busVars, lifeVars,
        xferVars, connVars
  <2>4. CanDrop(c, "client")
    BY <2>1 DEF CanDrop
  <2> QED
    BY <2>1, <2>2, <2>3, <2>4, OneDropped
<1>8. ASSUME NEW c \in Clients, ClientStarts(c) PROVE LoopInv'
  <2>1. ASSUME NEW d \in Clients \ {c}
        PROVE  loop'[d] = loop[d] /\ Holders(d)' = Holders(d)
    BY <1>8
    DEF TypeOK, ConnTypes, Holders, HasConn, ClientStarts, vars, busVars, lifeVars,
        xferVars
  <2>2. Holders(c)' # {}
    BY <1>8 DEF TypeOK, ConnTypes, Holders, HasConn, ClientStarts
  <2> QED
    BY <2>1, <2>2 DEF LoopInv
<1>9. ASSUME NEW c \in Clients, ClientLeaves(c) PROVE LoopInv'
  <2>1. c \in Clients /\ CanDrop(c, "client") /\ UNCHANGED loop
    BY <1>9 DEF TypeOK, XferTypes, ConnTypes, Inserted, Open, ClientLeaves, connVars
  <2>2. ASSUME NEW d \in Clients PROVE Holders(d) \ {"client"} \subseteq Holders(d)'
    BY <1>9
    DEF TypeOK, XferTypes, ConnTypes, HasConn, Inserted, Holders, ClientLeaves,
        vars, busVars, lifeVars, xferVars, connVars
  <2>3. ASSUME NEW d \in Clients \ {c} PROVE Holders(d) \subseteq Holders(d)'
    BY <1>9
    DEF TypeOK, XferTypes, ConnTypes, HasConn, Inserted, Holders, ClientLeaves,
        vars, busVars, lifeVars, xferVars, connVars
  <2> QED
    BY <2>1, <2>2, <2>3, OneDropped
<1>10. ASSUME NEW c \in Clients, LoopSend(c) PROVE LoopInv'
  <2>1. ASSUME NEW d \in Clients PROVE Holders(d) \subseteq Holders(d)'
    BY <1>10
    DEF TypeOK, XferTypes, ConnTypes, HasConn, HoldInv, Busy, Holders, Inserted,
        LoopSend, Sent, NotSent, vars, busVars, lifeVars, xferVars, connVars
  <2>2. ASSUME NEW d \in Clients, loop'[d] \in {"run", "asleep", "late"}
        PROVE  loop[d] \in {"run", "asleep", "late"}
    BY <1>10, <2>2
    DEF TypeOK, ConnTypes, Holders, LoopSend, Sent, NotSent, vars, busVars,
        lifeVars, xferVars, connVars
  <2> QED
    BY <2>1, <2>2, NoneDropped
<1>11. ASSUME NEW c \in Clients, LoopSleep(c) PROVE LoopInv'
  <2>1. ASSUME NEW d \in Clients PROVE Holders(d) \subseteq Holders(d)'
    BY <1>11
    DEF TypeOK, XferTypes, ConnTypes, HasConn, HoldInv, Busy, Holders, Inserted,
        LoopSleep, vars, busVars, lifeVars, xferVars, connVars
  <2>2. ASSUME NEW d \in Clients, loop'[d] \in {"run", "asleep", "late"}
        PROVE  loop[d] \in {"run", "asleep", "late"}
    BY <1>11, <2>2
    DEF TypeOK, ConnTypes, Holders, LoopSleep, vars, busVars, lifeVars, xferVars,
        connVars
  <2> QED
    BY <2>1, <2>2, NoneDropped
<1>12. ASSUME NEW c \in Clients, LoopWakes(c) PROVE LoopInv'
  <2>1. ASSUME NEW d \in Clients PROVE Holders(d) \subseteq Holders(d)'
    BY <1>12
    DEF TypeOK, XferTypes, ConnTypes, HasConn, HoldInv, Busy, Holders, Inserted,
        LoopWakes, vars, busVars, lifeVars, xferVars, connVars
  <2>2. ASSUME NEW d \in Clients, loop'[d] \in {"run", "asleep", "late"}
        PROVE  loop[d] \in {"run", "asleep", "late"}
    BY <1>12, <2>2
    DEF TypeOK, ConnTypes, Holders, LoopWakes, vars, busVars, lifeVars, xferVars,
        connVars
  <2> QED
    BY <2>1, <2>2, NoneDropped
<1>13. ASSUME NEW c \in Clients, LoopEnds(c) PROVE LoopInv'
  <2>1. ASSUME NEW d \in Clients PROVE Holders(d) \subseteq Holders(d)'
    BY <1>13
    DEF TypeOK, XferTypes, ConnTypes, HasConn, HoldInv, Busy, Holders, Inserted,
        LoopEnds, Sent, NotSent, vars, busVars, lifeVars, xferVars, connVars
  <2>2. ASSUME NEW d \in Clients, loop'[d] \in {"run", "asleep", "late"}
        PROVE  loop[d] \in {"run", "asleep", "late"}
    BY <1>13, <2>2
    DEF TypeOK, ConnTypes, Holders, LoopEnds, Sent, NotSent, vars, busVars,
        lifeVars, xferVars, connVars
  <2> QED
    BY <2>1, <2>2, NoneDropped
<1>14. ASSUME ConDeconstruct PROVE LoopInv'
  <2>1. ASSUME NEW d \in Clients PROVE Holders(d) \subseteq Holders(d)'
    BY <1>14
    DEF TypeOK, XferTypes, ConnTypes, HasConn, HoldInv, Busy, Holders, Inserted,
        ConDeconstruct, Posted, GuardFree, vars, busVars, lifeVars, xferVars,
        connVars
  <2>2. ASSUME NEW d \in Clients, loop'[d] \in {"run", "asleep", "late"}
        PROVE  loop[d] \in {"run", "asleep", "late"}
    BY <1>14, <2>2
    DEF TypeOK, ConnTypes, Holders, ConDeconstruct, Posted, GuardFree, vars,
        busVars, lifeVars, xferVars, connVars
  <2> QED
    BY <2>1, <2>2, NoneDropped
<1>15. ASSUME ConErase PROVE LoopInv'
  <2>1. conns[Head(reapPorts)] \in Clients /\ CanDrop(conns[Head(reapPorts)], "_conns") /\ UNCHANGED loop
    BY <1>15 DEF TypeOK, XferTypes, ConnTypes, Inserted, Open, ConErase, connVars
  <2>2. ASSUME NEW d \in Clients PROVE Holders(d) \ {"_conns"} \subseteq Holders(d)'
    BY <1>15
    DEF TypeOK, XferTypes, ConnTypes, HasConn, Inserted, Holders, ConErase,
        Notified, vars, busVars, lifeVars, xferVars, connVars
  <2>3. ASSUME NEW d \in Clients \ {conns[Head(reapPorts)]} PROVE Holders(d) \subseteq Holders(d)'
    BY <1>15
    DEF TypeOK, XferTypes, ConnTypes, HasConn, Inserted, Holders, ConErase,
        Notified, vars, busVars, lifeVars, xferVars, connVars
  <2> QED
    BY <2>1, <2>2, <2>3, OneDropped
<1>16. ASSUME UNCHANGED <<inp, conns, loop, cpc>> PROVE LoopInv'
  BY <1>16
  DEF LoopInv, Holders
<1>17. ASSUME DeviceAdd \/ LangId \/ ControlFails \/ TxDone \/ HotplugLeft \/ Unplug
         \/ ConNone PROVE UNCHANGED <<inp, conns, loop, cpc>>
  BY <1>17
  DEF DeviceAdd, LangId, ControlFails, TxDone, HotplugLeft, Unplug, ConNone, Posted,
      GuardFree, Notified, vars, busVars, lifeVars, xferVars, connVars
<1>18. ASSUME ReapTake \/ ReapCancel \/ ReapPost \/ ReapCheck \/ DestroyBegin \/
         DestroyReceivers \/ DestroyEnd PROVE UNCHANGED <<inp, conns, loop, cpc>>
  BY <1>18
  DEF ReapTake, ReapCancel, ReapPost, GuardFree, ReapCheck, DestroyBegin,
      DestroyReceivers, DestroyEnd, vars, busVars, lifeVars, xferVars, connVars
<1>19. ASSUME MgrKill \/ MgrDone PROVE UNCHANGED <<inp, conns, loop, cpc>>
  BY <1>19
  DEF MgrKill, InChildren, MgrDone, vars, busVars, lifeVars, xferVars, connVars
<1>20. ASSUME NEW started \in SUBSET Rx, SerialRead(started) PROVE UNCHANGED <<inp,
         conns, loop, cpc>>
  BY <1>20
  DEF SerialRead, Sent, NotSent, vars, busVars, lifeVars, xferVars, connVars
<1>21. ASSUME NEW x \in Rx, RxArrives(x) \/ RxFails(x) PROVE UNCHANGED <<inp, conns,
         loop, cpc>>
  BY <1>21
  DEF RxArrives, RxFails, vars, busVars, lifeVars, xferVars, connVars
<1>22. ASSUME NEW r \in Rx, NEW x \in Rx, Take(r, x) PROVE UNCHANGED <<inp, conns,
         loop, cpc>>
  BY <1>22
  DEF Take, Arrived, vars, busVars, lifeVars, xferVars, connVars
<1>23. ASSUME NEW r \in Rx, Handle(r) \/ HandleVersion(r) \/ HandleUnknown(r) \/
         HandleThrows(r) \/ AddToMux(r) \/ Forward(r) \/ Caught(r) PROVE UNCHANGED
         <<inp, conns, loop, cpc>>
  BY <1>23
  DEF Handle, Sent, NotSent, GuardFree, HandleVersion, HandleUnknown, HandleThrows,
      AddToMux, Forward, Close, Caught, vars, busVars, lifeVars, xferVars, connVars
<1>24. ASSUME NEW r \in Rx, Resubmit(r) PROVE UNCHANGED <<inp, conns, loop, cpc>>
  BY <1>24
  DEF Resubmit, vars, busVars, lifeVars, xferVars, connVars
<1>25. ASSUME NEW c \in Clients, NEW r \in Rx, InputConnecting(r, c) \/
         InputIgnored(r, c) PROVE UNCHANGED <<inp, conns, loop, cpc>>
  BY <1>25
  DEF InputConnecting, Sent, NotSent, InputIgnored, vars, busVars, lifeVars,
      xferVars, connVars
<1>26. ASSUME UNCHANGED vars PROVE UNCHANGED <<inp, conns, loop, cpc>>
  BY <1>26
  DEF vars, busVars, lifeVars, xferVars, connVars
<1> QED
  BY <1>1, <1>2, <1>3, <1>4, <1>5, <1>6, <1>7, <1>8, <1>9, <1>10, <1>11, <1>12,
      <1>13, <1>14, <1>15, <1>16, <1>17, <1>18, <1>19, <1>20, <1>21, <1>22, <1>23,
      <1>24, <1>25, <1>26
  DEF Next, Control, Receive, Input, Connect, Loop, ConReap, Reap, Destroy

\* A thread or a callback that works with the device has a reference to it.
AtWork ==
  /\ Referenced
  /\ UNCHANGED obj
  /\ ctl' # "none" => ctl # "none" /\ \A x \in Rx : rx[x] = "none" => rx'[x] = "none"

LEMMA LifeKept ==
  ASSUME LifeInv, AtWork
  PROVE  LifeInv'
  BY DEF LifeInv, AtWork

\* Who has a connection, its loop included, has the device.
LEMMA HeldReferenced ==
  ASSUME TypeOK, HoldInv, NEW c \in Clients, Holders(c) # {}
  PROVE  Referenced
<1>1. PICK h : h \in Holders(c)
  OBVIOUS
<1>2. CASE \E p \in Ports : conns[p] = c
  BY <1>2, UsbAssumption DEF Referenced, Open
<1>3. CASE cpc[c] \in HasConn
  BY <1>3 DEF HasConn, Referenced, UsedElsewhere
<1>4. CASE \E r \in Rx : inp[r] = c
  <2>1. PICK r \in Rx : inp[r] = c
    BY <1>4
  <2>2. holds[r] \in Rx /\ rx[holds[r]] = "held"
    BY <2>1, UsbAssumption DEF TypeOK, XferTypes, HoldInv, Busy
  <2> QED
    BY <2>2 DEF Referenced, UsedElsewhere
<1> QED
  BY <1>1, <1>2, <1>3, <1>4 DEF Holders

LEMMA LoopReferenced ==
  ASSUME TypeOK, HoldInv, LoopInv, NEW c \in Clients,
         loop[c] \in {"run", "asleep", "late"}
  PROVE  Referenced
  BY HeldReferenced DEF LoopInv

\* A receiver at work has the transfer's reference.
LEMMA BusyReferenced ==
  ASSUME TypeOK, HoldInv, NEW r \in Rx, rpc[r] \in Busy
  PROVE  Referenced /\ rx[holds[r]] # "none"
  BY DEF TypeOK, XferTypes, HoldInv, Referenced, UsedElsewhere

\* Nothing gets at an object that is gone.
LEMMA LifeStep ==
  ASSUME TypeOK, HoldInv, Inserted, LoopInv, LifeInv, [Next]_vars
  PROVE  LifeInv'
<1>1. ASSUME DeviceAdd PROVE LifeInv'
  BY <1>1
  DEF TypeOK, LifeTypes, LifeInv, Referenced, UsedElsewhere, Open, DeviceAdd, vars,
      busVars, lifeVars, xferVars, connVars
<1>2. ASSUME LangId PROVE LifeInv'
  <2>1. AtWork
    BY <1>2
    DEF AtWork, TypeOK, XferTypes, ReapTypes, Referenced, UsedElsewhere, Open,
        HasConn, LangId, vars, busVars, lifeVars, xferVars, connVars
  <2> QED
    BY <2>1, LifeKept
<1>3. ASSUME ControlFails PROVE LifeInv'
  <2>1. AtWork
    BY <1>3
    DEF AtWork, TypeOK, XferTypes, ReapTypes, Referenced, UsedElsewhere, Open,
        HasConn, ControlFails, vars, busVars, lifeVars, xferVars, connVars
  <2> QED
    BY <2>1, LifeKept
<1>4. ASSUME NEW started \in SUBSET Rx, SerialRead(started) PROVE LifeInv'
  <2>1. AtWork
    BY <1>4
    DEF AtWork, TypeOK, XferTypes, ReapTypes, Referenced, UsedElsewhere, Open,
        HasConn, SerialRead, Sent, NotSent, vars, busVars, lifeVars, xferVars,
        connVars
  <2> QED
    BY <2>1, LifeKept
<1>5. ASSUME NEW x \in Rx, RxArrives(x) PROVE LifeInv'
  <2>1. AtWork
    BY <1>5
    DEF AtWork, TypeOK, XferTypes, ReapTypes, Referenced, UsedElsewhere, Open,
        HasConn, RxArrives, vars, busVars, lifeVars, xferVars, connVars
  <2> QED
    BY <2>1, LifeKept
<1>6. ASSUME NEW x \in Rx, RxFails(x) PROVE LifeInv'
  <2>1. AtWork
    BY <1>6
    DEF AtWork, TypeOK, XferTypes, ReapTypes, Referenced, UsedElsewhere, Open,
        HasConn, RxFails, vars, busVars, lifeVars, xferVars, connVars
  <2> QED
    BY <2>1, LifeKept
<1>7. ASSUME TxDone PROVE LifeInv'
  <2>1. AtWork
    BY <1>7
    DEF AtWork, TypeOK, XferTypes, ReapTypes, Referenced, UsedElsewhere, Open,
        HasConn, TxDone, vars, busVars, lifeVars, xferVars, connVars
  <2> QED
    BY <2>1, LifeKept
<1>8. ASSUME HotplugLeft PROVE LifeInv'
  BY <1>8
  DEF LifeInv, Referenced, UsedElsewhere, Open, HotplugLeft, vars, busVars,
      lifeVars, xferVars, connVars
<1>9. ASSUME Unplug PROVE LifeInv'
  BY <1>9
  DEF LifeInv, Referenced, UsedElsewhere, Open, Unplug, vars, busVars, lifeVars,
      xferVars, connVars
<1>10. ASSUME NEW r \in Rx, NEW x \in Rx, Take(r, x) PROVE LifeInv'
  <2>1. AtWork
    BY <1>10
    DEF AtWork, TypeOK, XferTypes, ReapTypes, Referenced, UsedElsewhere, Open,
        HasConn, Take, Arrived, vars, busVars, lifeVars, xferVars, connVars
  <2> QED
    BY <2>1, LifeKept
<1>11. ASSUME NEW r \in Rx, Handle(r) PROVE LifeInv'
  <2>1. Referenced /\ rx[holds[r]] # "none"
    BY <1>11, BusyReferenced DEF Busy, Handle
  <2>2. AtWork
    BY <1>11, <2>1
    DEF AtWork, TypeOK, XferTypes, Handle, Sent, NotSent, GuardFree, vars, busVars,
        lifeVars, xferVars, connVars
  <2> QED
    BY <2>2, LifeKept
<1>12. ASSUME NEW r \in Rx, HandleVersion(r) PROVE LifeInv'
  <2>1. Referenced /\ rx[holds[r]] # "none"
    BY <1>12, BusyReferenced DEF Busy, HandleVersion
  <2>2. AtWork
    BY <1>12, <2>1
    DEF AtWork, TypeOK, XferTypes, HandleVersion, Sent, NotSent, vars, busVars,
        lifeVars, xferVars, connVars
  <2> QED
    BY <2>2, LifeKept
<1>13. ASSUME NEW r \in Rx, HandleUnknown(r) PROVE LifeInv'
  <2>1. Referenced /\ rx[holds[r]] # "none"
    BY <1>13, BusyReferenced DEF Busy, HandleUnknown
  <2>2. AtWork
    BY <1>13, <2>1
    DEF AtWork, TypeOK, XferTypes, HandleUnknown, vars, busVars, lifeVars, xferVars,
        connVars
  <2> QED
    BY <2>2, LifeKept
<1>14. ASSUME NEW r \in Rx, HandleThrows(r) PROVE LifeInv'
  <2>1. Referenced /\ rx[holds[r]] # "none"
    BY <1>14, BusyReferenced DEF Busy, HandleThrows
  <2>2. AtWork
    BY <1>14, <2>1
    DEF AtWork, TypeOK, XferTypes, HandleThrows, vars, busVars, lifeVars, xferVars,
        connVars
  <2> QED
    BY <2>2, LifeKept
<1>15. ASSUME NEW r \in Rx, NEW c \in Clients, HandleTcp(r, c) PROVE LifeInv'
  <2>1. Referenced /\ rx[holds[r]] # "none"
    BY <1>15, BusyReferenced DEF Busy, HandleTcp
  <2>2. AtWork
    BY <1>15, <2>1
    DEF AtWork, TypeOK, XferTypes, HandleTcp, GuardFree, vars, busVars, lifeVars,
        xferVars, connVars
  <2> QED
    BY <2>2, LifeKept
<1>16. ASSUME NEW r \in Rx, NEW c \in Clients, InputConnecting(r, c) PROVE LifeInv'
  <2>1. Referenced /\ rx[holds[r]] # "none"
    BY <1>16, BusyReferenced DEF Busy, InputConnecting
  <2>2. AtWork
    BY <1>16, <2>1
    DEF AtWork, TypeOK, XferTypes, InputConnecting, Sent, NotSent, vars, busVars,
        lifeVars, xferVars, connVars
  <2> QED
    BY <2>2, LifeKept
<1>17. ASSUME NEW r \in Rx, NEW c \in Clients, InputConnected(r, c) PROVE LifeInv'
  <2>1. Referenced /\ rx[holds[r]] # "none"
    BY <1>17, BusyReferenced DEF Busy, InputConnected
  <2>2. AtWork
    BY <1>17, <2>1
    DEF AtWork, TypeOK, XferTypes, InputConnected, Sent, NotSent, Close, Woken,
        vars, busVars, lifeVars, xferVars, connVars
  <2> QED
    BY <2>2, LifeKept
<1>18. ASSUME NEW r \in Rx, NEW c \in Clients, InputIgnored(r, c) PROVE LifeInv'
  <2>1. Referenced /\ rx[holds[r]] # "none"
    BY <1>18, BusyReferenced DEF Busy, InputIgnored
  <2>2. AtWork
    BY <1>18, <2>1
    DEF AtWork, TypeOK, XferTypes, InputIgnored, vars, busVars, lifeVars, xferVars,
        connVars
  <2> QED
    BY <2>2, LifeKept
<1>19. ASSUME NEW r \in Rx, AddToMux(r) PROVE LifeInv'
  <2>1. Referenced /\ rx[holds[r]] # "none"
    BY <1>19, BusyReferenced DEF Busy, AddToMux
  <2>2. AtWork
    BY <1>19, <2>1
    DEF AtWork, TypeOK, XferTypes, AddToMux, vars, busVars, lifeVars, xferVars,
        connVars
  <2> QED
    BY <2>2, LifeKept
<1>20. ASSUME NEW r \in Rx, Forward(r) PROVE LifeInv'
  <2>1. Referenced /\ rx[holds[r]] # "none"
    BY <1>20, BusyReferenced DEF Busy, Forward
  <2>2. AtWork
    BY <1>20, <2>1
    DEF AtWork, TypeOK, XferTypes, Forward, Close, vars, busVars, lifeVars,
        xferVars, connVars
  <2> QED
    BY <2>2, LifeKept
<1>21. ASSUME NEW r \in Rx, DropConn(r) PROVE LifeInv'
  <2>1. Referenced /\ rx[holds[r]] # "none"
    BY <1>21, BusyReferenced, UsbAssumption DEF HoldInv, Busy, DropConn
  <2>2. AtWork
    BY <1>21, <2>1
    DEF AtWork, TypeOK, XferTypes, DropConn, CanDrop, vars, busVars, lifeVars,
        xferVars, connVars
  <2> QED
    BY <2>2, LifeKept
<1>22. ASSUME NEW r \in Rx, Caught(r) PROVE LifeInv'
  <2>1. Referenced /\ rx[holds[r]] # "none"
    BY <1>22, BusyReferenced DEF Busy, Caught
  <2>2. AtWork
    BY <1>22, <2>1
    DEF AtWork, TypeOK, XferTypes, Caught, vars, busVars, lifeVars, xferVars,
        connVars
  <2> QED
    BY <2>2, LifeKept
<1>23. ASSUME NEW r \in Rx, Resubmit(r) PROVE LifeInv'
  <2>1. Referenced /\ rx[holds[r]] # "none"
    BY <1>23, BusyReferenced DEF Busy, Resubmit
  <2>2. AtWork
    BY <1>23, <2>1
    DEF AtWork, TypeOK, XferTypes, Resubmit, vars, busVars, lifeVars, xferVars,
        connVars
  <2> QED
    BY <2>2, LifeKept
<1>24. ASSUME NEW c \in Clients, ClientFind(c) PROVE LifeInv'
  <2>1. AtWork
    BY <1>24
    DEF AtWork, TypeOK, XferTypes, ReapTypes, Referenced, UsedElsewhere, Open,
        HasConn, ClientFind, vars, busVars, lifeVars, xferVars, connVars
  <2> QED
    BY <2>1, LifeKept
<1>25. ASSUME NEW c \in Clients, ClientInsert(c) PROVE LifeInv'
  <2>1. AtWork
    BY <1>25
    DEF AtWork, TypeOK, XferTypes, ReapTypes, Referenced, UsedElsewhere, Open,
        HasConn, ClientInsert, GuardFree, vars, busVars, lifeVars, xferVars,
        connVars
  <2> QED
    BY <2>1, LifeKept
<1>26. ASSUME NEW c \in Clients, ClientConnect(c) PROVE LifeInv'
  <2>1. AtWork
    BY <1>26
    DEF AtWork, TypeOK, XferTypes, ReapTypes, Referenced, UsedElsewhere, Open,
        HasConn, ClientConnect, Sent, NotSent, vars, busVars, lifeVars, xferVars,
        connVars
  <2> QED
    BY <2>1, LifeKept
<1>27. ASSUME NEW c \in Clients, ClientReturn(c) PROVE LifeInv'
  <2>1. AtWork
    BY <1>27
    DEF AtWork, TypeOK, XferTypes, ReapTypes, Referenced, UsedElsewhere, Open,
        HasConn, ClientReturn, vars, busVars, lifeVars, xferVars, connVars
  <2> QED
    BY <2>1, LifeKept
<1>28. ASSUME NEW c \in Clients, ClientStarts(c) PROVE LifeInv'
  <2>1. AtWork
    BY <1>28
    DEF AtWork, TypeOK, XferTypes, ReapTypes, Referenced, UsedElsewhere, Open,
        HasConn, ClientStarts, vars, busVars, lifeVars, xferVars, connVars
  <2> QED
    BY <2>1, LifeKept
<1>29. ASSUME NEW c \in Clients, ClientLeaves(c) PROVE LifeInv'
  <2>1. AtWork
    BY <1>29
    DEF AtWork, TypeOK, XferTypes, ReapTypes, Referenced, UsedElsewhere, Open,
        HasConn, ClientLeaves, CanDrop, vars, busVars, lifeVars, xferVars, connVars
  <2> QED
    BY <2>1, LifeKept
<1>30. ASSUME NEW c \in Clients, LoopSend(c) PROVE LifeInv'
  <2>1. AtWork
    BY <1>30, LoopReferenced
    DEF AtWork, LoopSend, Sent, NotSent, vars, busVars, lifeVars, xferVars, connVars
  <2> QED
    BY <2>1, LifeKept
<1>31. ASSUME NEW c \in Clients, LoopSleep(c) PROVE LifeInv'
  <2>1. AtWork
    BY <1>31, LoopReferenced
    DEF AtWork, LoopSleep, vars, busVars, lifeVars, xferVars, connVars
  <2> QED
    BY <2>1, LifeKept
<1>32. ASSUME NEW c \in Clients, LoopWakes(c) PROVE LifeInv'
  <2>1. AtWork
    BY <1>32, LoopReferenced
    DEF AtWork, LoopWakes, vars, busVars, lifeVars, xferVars, connVars
  <2> QED
    BY <2>1, LifeKept
<1>33. ASSUME NEW c \in Clients, LoopEnds(c) PROVE LifeInv'
  <2>1. AtWork
    BY <1>33, LoopReferenced
    DEF AtWork, LoopEnds, Sent, NotSent, vars, busVars, lifeVars, xferVars, connVars
  <2> QED
    BY <2>1, LifeKept
<1>34. ASSUME ConNone PROVE LifeInv'
  BY <1>34
  DEF TypeOK, ReapTypes, LifeInv, Referenced, UsedElsewhere, Open, ConNone, Posted,
      GuardFree, Notified, vars, busVars, lifeVars, xferVars, connVars
<1>35. ASSUME ConDeconstruct PROVE LifeInv'
  <2>1. AtWork
    BY <1>35
    DEF AtWork, TypeOK, XferTypes, ReapTypes, Referenced, UsedElsewhere, Open,
        HasConn, ConDeconstruct, Posted, GuardFree, vars, busVars, lifeVars,
        xferVars, connVars
  <2> QED
    BY <2>1, LifeKept
<1>36. ASSUME ConErase PROVE LifeInv'
  <2>1. AtWork
    BY <1>36
    DEF AtWork, TypeOK, XferTypes, ReapTypes, Referenced, UsedElsewhere, Open,
        HasConn, ConErase, CanDrop, Notified, Inserted, vars, busVars, lifeVars,
        xferVars, connVars
  <2> QED
    BY <2>1, LifeKept
<1>37. ASSUME ReapTake PROVE LifeInv'
  <2>1. AtWork
    BY <1>37
    DEF AtWork, TypeOK, XferTypes, ReapTypes, Referenced, UsedElsewhere, Open,
        HasConn, ReapTake, vars, busVars, lifeVars, xferVars, connVars
  <2> QED
    BY <2>1, LifeKept
<1>38. ASSUME ReapCancel PROVE LifeInv'
  <2>1. AtWork
    BY <1>38
    DEF AtWork, TypeOK, XferTypes, ReapTypes, Referenced, UsedElsewhere, Open,
        HasConn, ReapCancel, vars, busVars, lifeVars, xferVars, connVars
  <2> QED
    BY <2>1, LifeKept
<1>39. ASSUME ReapPost PROVE LifeInv'
  <2>1. AtWork
    BY <1>39
    DEF AtWork, TypeOK, XferTypes, ReapTypes, Referenced, UsedElsewhere, Open,
        HasConn, ReapPost, GuardFree, vars, busVars, lifeVars, xferVars, connVars
  <2> QED
    BY <2>1, LifeKept
<1>40. ASSUME ReapCheck PROVE LifeInv'
  BY <1>40
  DEF LifeInv, Referenced, UsedElsewhere, Open, ReapCheck, GuardFree, vars, busVars,
      lifeVars, xferVars, connVars
<1>41. ASSUME DestroyBegin PROVE LifeInv'
  BY <1>41
  DEF LifeInv, Referenced, UsedElsewhere, Open, DestroyBegin, vars, busVars,
      lifeVars, xferVars, connVars
<1>42. ASSUME DestroyReceivers PROVE LifeInv'
  BY <1>42
  DEF LifeInv, Referenced, UsedElsewhere, Open, DestroyReceivers, vars, busVars,
      lifeVars, xferVars, connVars
<1>43. ASSUME DestroyEnd PROVE LifeInv'
  BY <1>43
  DEF LifeInv, Referenced, UsedElsewhere, Open, DestroyEnd, GuardFree, vars,
      busVars, lifeVars, xferVars, connVars
<1>44. ASSUME MgrKill PROVE LifeInv'
  BY <1>44
  DEF LifeInv, Referenced, UsedElsewhere, Open, MgrKill, InChildren, vars, busVars,
      lifeVars, xferVars, connVars
<1>45. ASSUME MgrDone PROVE LifeInv'
  BY <1>45
  DEF LifeInv, Referenced, UsedElsewhere, Open, MgrDone, InChildren, vars, busVars,
      lifeVars, xferVars, connVars
<1>46. ASSUME UNCHANGED vars PROVE LifeInv'
  BY <1>46
  DEF LifeInv, Referenced, UsedElsewhere, Open, vars, busVars, lifeVars, xferVars,
      connVars
<1> QED
  BY <1>1, <1>2, <1>3, <1>4, <1>5, <1>6, <1>7, <1>8, <1>9, <1>10, <1>11, <1>12,
      <1>13, <1>14, <1>15, <1>16, <1>17, <1>18, <1>19, <1>20, <1>21, <1>22, <1>23,
      <1>24, <1>25, <1>26, <1>27, <1>28, <1>29, <1>30, <1>31, <1>32, <1>33, <1>34,
      <1>35, <1>36, <1>37, <1>38, <1>39, <1>40, <1>41, <1>42, <1>43, <1>44, <1>45,
      <1>46
  DEF Next, Control, Receive, Input, Connect, Loop, ConReap, Reap, Destroy
\* But for a client that is too late, only a device that is kept gets a
\* connection, and deconstruct() does not come back while one is open.
LEMMA OpenStep ==
  ASSUME TypeOK, LifeInv, OpenInv, ~TooLate, [Next]_vars
  PROVE  OpenInv'
<1>1. ASSUME NEW started \in SUBSET Rx, SerialRead(started) PROVE OpenInv'
  BY <1>1
  DEF TypeOK, XferTypes, ReapTypes, OpenInv, Kept, Open, LifeInv, SerialRead, Sent,
      NotSent, vars, busVars, lifeVars, xferVars, connVars
<1>2. ASSUME NEW x \in Rx, RxArrives(x) PROVE OpenInv'
  BY <1>2
  DEF TypeOK, XferTypes, ReapTypes, OpenInv, Kept, Open, RxArrives, vars, busVars,
      lifeVars, xferVars, connVars
<1>3. ASSUME NEW x \in Rx, RxFails(x) PROVE OpenInv'
  BY <1>3
  DEF TypeOK, XferTypes, ReapTypes, OpenInv, Kept, Open, RxFails, vars, busVars,
      lifeVars, xferVars, connVars
<1>4. ASSUME TxDone PROVE OpenInv'
  BY <1>4
  DEF TypeOK, XferTypes, ReapTypes, OpenInv, Kept, Open, TxDone, vars, busVars,
      lifeVars, xferVars, connVars
<1>5. ASSUME NEW r \in Rx, NEW x \in Rx, Take(r, x) PROVE OpenInv'
  BY <1>5
  DEF TypeOK, XferTypes, ReapTypes, OpenInv, Kept, Open, Take, Arrived, vars,
      busVars, lifeVars, xferVars, connVars
<1>6. ASSUME NEW r \in Rx, Handle(r) PROVE OpenInv'
  BY <1>6
  DEF TypeOK, XferTypes, ReapTypes, OpenInv, Kept, Open, Handle, Sent, NotSent,
      GuardFree, vars, busVars, lifeVars, xferVars, connVars
<1>7. ASSUME NEW r \in Rx, HandleVersion(r) PROVE OpenInv'
  BY <1>7
  DEF TypeOK, XferTypes, ReapTypes, OpenInv, Kept, Open, HandleVersion, Sent,
      NotSent, vars, busVars, lifeVars, xferVars, connVars
<1>8. ASSUME NEW r \in Rx, HandleUnknown(r) PROVE OpenInv'
  BY <1>8
  DEF TypeOK, XferTypes, ReapTypes, OpenInv, Kept, Open, HandleUnknown, vars,
      busVars, lifeVars, xferVars, connVars
<1>9. ASSUME NEW r \in Rx, NEW c \in Clients, InputConnecting(r, c) PROVE OpenInv'
  BY <1>9
  DEF TypeOK, XferTypes, ReapTypes, OpenInv, Kept, Open, InputConnecting, Sent,
      NotSent, vars, busVars, lifeVars, xferVars, connVars
<1>10. ASSUME NEW r \in Rx, NEW c \in Clients, InputConnected(r, c) PROVE OpenInv'
  BY <1>10
  DEF TypeOK, XferTypes, ReapTypes, OpenInv, Kept, Open, InputConnected, Sent,
      NotSent, Close, Woken, vars, busVars, lifeVars, xferVars, connVars
<1>11. ASSUME NEW r \in Rx, Caught(r) PROVE OpenInv'
  BY <1>11
  DEF TypeOK, XferTypes, ReapTypes, OpenInv, Kept, Open, Caught, vars, busVars,
      lifeVars, xferVars, connVars
<1>12. ASSUME NEW r \in Rx, Resubmit(r) PROVE OpenInv'
  BY <1>12
  DEF TypeOK, XferTypes, ReapTypes, OpenInv, Kept, Open, Resubmit, vars, busVars,
      lifeVars, xferVars, connVars
<1>13. ASSUME NEW c \in Clients, ClientInsert(c) PROVE OpenInv'
  BY <1>13
  DEF TypeOK, XferTypes, ReapTypes, OpenInv, Kept, Open, TooLate, ClientInsert,
      GuardFree, vars, busVars, lifeVars, xferVars, connVars
<1>14. ASSUME NEW c \in Clients, ClientConnect(c) PROVE OpenInv'
  BY <1>14
  DEF TypeOK, XferTypes, ReapTypes, OpenInv, Kept, Open, ClientConnect, Sent,
      NotSent, vars, busVars, lifeVars, xferVars, connVars
<1>15. ASSUME NEW c \in Clients, LoopSend(c) PROVE OpenInv'
  BY <1>15
  DEF TypeOK, XferTypes, ReapTypes, OpenInv, Kept, Open, LoopSend, Sent, NotSent,
      vars, busVars, lifeVars, xferVars, connVars
<1>16. ASSUME NEW c \in Clients, LoopEnds(c) PROVE OpenInv'
  BY <1>16
  DEF TypeOK, XferTypes, ReapTypes, OpenInv, Kept, Open, LoopEnds, Sent, NotSent,
      vars, busVars, lifeVars, xferVars, connVars
<1>17. ASSUME ConNone PROVE OpenInv'
  BY <1>17
  DEF TypeOK, XferTypes, ReapTypes, OpenInv, Kept, Open, ConNone, Posted, GuardFree,
      Notified, vars, busVars, lifeVars, xferVars, connVars
<1>18. ASSUME ConErase PROVE OpenInv'
  BY <1>18
  DEF TypeOK, XferTypes, ReapTypes, OpenInv, Kept, Open, ConErase, CanDrop,
      Notified, vars, busVars, lifeVars, xferVars, connVars
<1>19. ASSUME ReapTake PROVE OpenInv'
  BY <1>19
  DEF TypeOK, XferTypes, ReapTypes, OpenInv, Kept, Open, ReapTake, vars, busVars,
      lifeVars, xferVars, connVars
<1>20. ASSUME ReapCancel PROVE OpenInv'
  BY <1>20
  DEF TypeOK, XferTypes, ReapTypes, OpenInv, Kept, Open, ReapCancel, vars, busVars,
      lifeVars, xferVars, connVars
<1>21. ASSUME ReapPost PROVE OpenInv'
  BY <1>21
  DEF TypeOK, XferTypes, ReapTypes, OpenInv, Kept, Open, ReapPost, GuardFree, vars,
      busVars, lifeVars, xferVars, connVars
<1>22. ASSUME ReapCheck PROVE OpenInv'
  BY <1>22
  DEF TypeOK, XferTypes, ReapTypes, OpenInv, Kept, Open, ReapCheck, GuardFree, vars,
      busVars, lifeVars, xferVars, connVars
<1>23. ASSUME MgrKill PROVE OpenInv'
  BY <1>23
  DEF TypeOK, XferTypes, ReapTypes, OpenInv, Kept, Open, MgrKill, InChildren, vars,
      busVars, lifeVars, xferVars, connVars
<1>24. ASSUME UNCHANGED <<rx, reapDevs, reaper, conns>> PROVE OpenInv'
  BY <1>24
  DEF OpenInv, Kept, Open
<1>25. ASSUME DeviceAdd \/ LangId \/ ControlFails \/ HotplugLeft \/ Unplug \/
         ConDeconstruct \/ DestroyBegin PROVE UNCHANGED <<rx, reapDevs, reaper,
         conns>>
  BY <1>25
  DEF DeviceAdd, LangId, ControlFails, HotplugLeft, Unplug, ConDeconstruct, Posted,
      GuardFree, DestroyBegin, vars, busVars, lifeVars, xferVars, connVars
<1>26. ASSUME DestroyReceivers \/ DestroyEnd \/ MgrDone PROVE UNCHANGED <<rx,
         reapDevs, reaper, conns>>
  BY <1>26
  DEF DestroyReceivers, DestroyEnd, GuardFree, MgrDone, InChildren, vars, busVars,
      lifeVars, xferVars, connVars
<1>27. ASSUME NEW r \in Rx, HandleThrows(r) \/ AddToMux(r) \/ Forward(r) \/
         DropConn(r) PROVE UNCHANGED <<rx, reapDevs, reaper, conns>>
  BY <1>27
  DEF HandleThrows, AddToMux, Forward, Close, DropConn, CanDrop, vars, busVars,
      lifeVars, xferVars, connVars
<1>28. ASSUME NEW c \in Clients, NEW r \in Rx, HandleTcp(r, c) \/ InputIgnored(r, c)
         PROVE UNCHANGED <<rx, reapDevs, reaper, conns>>
  BY <1>28
  DEF HandleTcp, GuardFree, InputIgnored, vars, busVars, lifeVars, xferVars,
      connVars
<1>29. ASSUME NEW c \in Clients, ClientFind(c) \/ ClientReturn(c) \/ ClientStarts(c)
         \/ ClientLeaves(c) \/ LoopSleep(c) \/ LoopWakes(c) PROVE UNCHANGED <<rx,
         reapDevs, reaper, conns>>
  BY <1>29
  DEF ClientFind, ClientReturn, ClientStarts, ClientLeaves, CanDrop, LoopSleep,
      LoopWakes, vars, busVars, lifeVars, xferVars, connVars
<1>30. ASSUME UNCHANGED vars PROVE UNCHANGED <<rx, reapDevs, reaper, conns>>
  BY <1>30
  DEF vars, busVars, lifeVars, xferVars, connVars
<1> QED
  BY <1>1, <1>2, <1>3, <1>4, <1>5, <1>6, <1>7, <1>8, <1>9, <1>10, <1>11, <1>12,
      <1>13, <1>14, <1>15, <1>16, <1>17, <1>18, <1>19, <1>20, <1>21, <1>22, <1>23,
      <1>24, <1>25, <1>26, <1>27, <1>28, <1>29, <1>30
  DEF Next, Control, Receive, Input, Connect, Loop, ConReap, Reap, Destroy

-----------------------------------------------------------------------------
(* The theorems. *)

\* Before the device is added there is nothing yet.
LEMMA InitInv ==
  ASSUME Init
  PROVE  IInv /\ OpenInv
<1>1. 0 \in 0 .. PortMod - 1
  BY UsbAssumption, FS_CardinalityType
<1>2. TypeOK
  <2>1. LifeTypes /\ ReapTypes
    BY DEF Init, LifeTypes, ReapTypes
  <2>2. XferTypes
    BY DEF Init, XferTypes
  <2>3. ConnTypes
    BY <1>1, UsbAssumption DEF Init, ConnTypes, HasConn
  <2> QED
    BY <2>1, <2>2, <2>3 DEF TypeOK
<1>3. HoldInv /\ LoopInv
  BY DEF Init, HoldInv, LoopInv, Busy
<1>4. Inserted
  BY UsbAssumption DEF Init, Inserted
<1>5. LifeInv /\ OpenInv
  BY DEF Init, LifeInv, OpenInv, Referenced, UsedElsewhere, Open
<1> QED
  BY <1>2, <1>3, <1>4, <1>5 DEF IInv

\* Every step keeps the invariant.
LEMMA NextInv ==
  ASSUME IInv, [Next]_vars
  PROVE  IInv'
  BY TypeStep, HoldStep, InsertedStep, LoopStep, LifeStep DEF IInv

LEMMA Invariance == Spec => []IInv
<1>1. Init => IInv
  BY InitInv
<1>2. IInv /\ [Next]_vars => IInv'
  BY NextInv
<1> QED
  BY <1>1, <1>2, PTL DEF Spec

\* In every behaviour, for any receivers, clients and ports, the state is of
\* its types.
THEOREM TypeCorrect == Spec => []TypeOK
<1>1. IInv => TypeOK
  BY DEF IInv
<1> QED
  BY <1>1, Invariance, PTL

\* Once the destructor may run nothing of the device is in use: neither a
\* transfer nor a receiver nor a connection, and nobody can find it.
THEOREM DestroyedUnused == Spec => []NoResurrection
<1>1. ASSUME IInv PROVE NoResurrection
  <2>1. ASSUME obj \in {"dying", "left", "gone"}, NEW r \in Rx
        PROVE  rpc[r] \in {"none", "idle", "ended"}
    BY <1>1, <2>1, BusyReferenced DEF IInv, TypeOK, XferTypes, LifeInv, Busy
  <2> QED
    BY <1>1, <2>1 DEF IInv, LifeInv, NoResurrection
<1> QED
  BY <1>1, Invariance, PTL

\* The connection reaper never drops the last reference to the device, which
\* would make it wait for its own end, unless a client puts its connection into
\* _conns when the device was taken apart already.
THEOREM ReaperNeverJoinsItself == Spec => ConReaperNeverLast
<1> DEFINE NotLast == conReaper = "erase" => UsedElsewhere \/ Open # {Head(reapPorts)}
<1>1. Init => OpenInv
  BY InitInv
<1>2. IInv /\ OpenInv /\ ~TooLate /\ [Next]_vars => OpenInv'
  BY OpenStep DEF IInv
<1>3. IInv /\ OpenInv => NotLast
  BY DEF IInv, OpenInv, Kept, UsedElsewhere, Inserted
<1> QED
  BY <1>1, <1>2, <1>3, Invariance, PTL DEF Spec, ConReaperNeverLast
=============================================================================
