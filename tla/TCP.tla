--------------------------------- MODULE TCP ---------------------------------
(***************************************************************************)
(* One TCP connection over the mux: class TCP between a client's socket    *)
(* and the device.                                                         *)
(*                                                                         *)
(* Four kinds of threads meet in it. The client's thread runs connect();   *)
(* the connection's own loop sends what the client writes; the USB         *)
(* receivers run handle_input, each with one packet, and race although the *)
(* packets left the mux layer in order (see MuxRx); the device's           *)
(* connection reaper runs deconstruct(). A section under _lockStx or       *)
(* _lockClientSend is one step. A libgeneral Event is the set of threads   *)
(* that took a ticket from it and were not notified since.                 *)
(*                                                                         *)
(* Sequence numbers are not truncated: the code compares them for equality *)
(* and takes one difference modulo 2^32 (the macro unacked), of numbers a  *)
(* window apart.                                                           *)
(***************************************************************************)
EXTENDS Integers, Sequences

CONSTANTS
  Receivers,  \* USBDevice_receiver threads
  Connector,  \* the client's thread inside TCP::connect
  Sender,     \* the thread of TCP::loopEvent
  DevBuf,     \* the device's receive buffer, bounds the window it offers
  Mtu,        \* TCP_MTU
  MaxHost,    \* bound: bytes the client writes
  MaxDev,     \* bound: payload packets, one byte each, the device sends
  CanDie,     \* which of the ends give up: subset of {"device", "client"}
  CanRefuse   \* whether the device may answer the SYN with a RST

ASSUME ThreadsAssumption == Connector \notin Receivers /\ Sender \notin Receivers
ASSUME SizesAssumption ==
  /\ {DevBuf, Mtu} \subseteq Nat \ {0}
  /\ {MaxHost, MaxDev} \subseteq Nat
ASSUME EndsAssumption ==
  CanDie \subseteq {"device", "client"} /\ CanRefuse \in BOOLEAN

VARIABLES
  connState,   \* _connState
  stx,         \* _stx; its win never changes
  asleep,      \* _connStateDidChange, _canSendEvent, _canClientSendEvent
  fd,          \* _pfd.fd is the client's socket, not -1
  inConns,     \* the connection is in USBDevice::_conns
  reap,        \* its port was posted to _reapConnections
  cpc,         \* where connect() is
  spc, chunk,  \* where loopEvent is, bytes received and not sent yet
  rpc, pkt,    \* where each receiver is, its packet
  hostLeft,    \* bytes the client has still to write
  clientAlive, \* the client's end of the socket is open
  sendFailed,  \* history: the branch for a dead client was taken
  delivered,   \* history: sequence numbers of the payload the client got
  wire,        \* packets that left the mux layer, oldest first
  dev          \* the device's end: what it sent, got, handed on, last told us

tcpVars == <<connState, stx, asleep, fd, inConns, reap>>
loopVars == <<cpc, spc, chunk>>
receiverVars == <<rpc, pkt>>
clientVars == <<hostLeft, clientAlive, sendFailed, delivered>>
deviceVars == <<wire, dev>>
vars == <<tcpVars, loopVars, receiverVars, clientVars, deviceVars>>

Packet == [kind : {"synack", "ack", "rst"}, seq : Nat, ack : Nat, win : Nat,
           len : {0, 1}]
NoPacket == [kind |-> "rst", seq |-> 0, ack |-> 0, win |-> 0, len |-> 0]

\* Mutant: bytes in flight do not count against the window.
NothingUnacked == 0

\* The macro unacked.
Unacked == stx.seq - stx.seqAcked

\* Mutant: the comparison of MIN the wrong way round.
Most(S) == CHOOSE x \in S : \A y \in S : x >= y

\* MIN, and the two caps on len in send_data.
Least(S) == CHOOSE x \in S : \A y \in S : x <= y

-----------------------------------------------------------------------------
Init ==
  /\ connState = "connecting"
  /\ stx = [seq |-> 0, seqAcked |-> 0, ack |-> 0, acked |-> 0, inWin |-> 0,
            pktForwarded |-> 0]
  /\ asleep = [conn |-> {}, send |-> {}, client |-> {}]
  /\ fd = FALSE /\ inConns = TRUE /\ reap = FALSE
  /\ cpc = "connect" /\ spc = "off" /\ chunk = 0
  /\ rpc = [r \in Receivers |-> "idle"]
  /\ pkt = [r \in Receivers |-> NoPacket]
  /\ hostLeft = MaxHost /\ clientAlive = TRUE
  /\ sendFailed = FALSE /\ delivered = << >>
  /\ wire = << >>
  /\ dev = [state |-> "closed", seq |-> 0, got |-> 0, read |-> 0, told |-> <<0, 0>>]

-----------------------------------------------------------------------------
(* connect(), on the client's thread. *)

\* The ticket is taken before the SYN goes out, so the answer is not missed.
ConnectTicket ==
  /\ cpc = "connect"
  /\ asleep' = [asleep EXCEPT !.conn = {Connector}]
  /\ cpc' = "syn"
  /\ UNCHANGED <<connState, stx, fd, inConns, reap, spc, chunk, receiverVars,
                 clientVars, deviceVars>>

ConnectSyn ==
  /\ cpc = "syn"
  /\ stx' = [stx EXCEPT !.acked = stx.ack]
  /\ dev' = [dev EXCEPT !.state = "syn", !.got = stx.seq + 1, !.read = stx.seq + 1]
  /\ cpc' = "wait"
  /\ UNCHANGED <<connState, asleep, fd, inConns, reap, spc, chunk, receiverVars,
                 clientVars, wire>>

\* Mutant: an answer that is not a connection is not taken for an answer.
ConnectAnsweredWell ==
  /\ cpc = "wait"
  /\ Connector \notin asleep.conn
  /\ connState = "connected"
  /\ cpc' = "result"
  /\ UNCHANGED <<tcpVars, spc, chunk, receiverVars, clientVars, deviceVars>>

ConnectAnswered ==
  /\ cpc = "wait"
  /\ Connector \notin asleep.conn
  /\ cpc' = IF connState = "connected" THEN "result" ELSE "failed"
  /\ UNCHANGED <<tcpVars, spc, chunk, receiverVars, clientVars, deviceVars>>

\* send_result(RESULT_OK); the assure in writeData throws if the client left.
ConnectResult ==
  /\ cpc = "result"
  /\ cpc' = IF clientAlive THEN "own" ELSE "failed"
  /\ UNCHANGED <<tcpVars, spc, chunk, receiverVars, clientVars, deviceVars>>

\* Only now the connection gets the socket, then its loop is started.
ConnectOwn ==
  /\ cpc = "own"
  /\ fd' = TRUE
  /\ spc' = "poll"
  /\ cpc' = "done"
  /\ UNCHANGED <<connState, stx, asleep, inConns, reap, chunk, receiverVars,
                 clientVars, deviceVars>>

Connect ==
  ConnectTicket \/ ConnectSyn \/ ConnectAnswered \/ ConnectResult \/ ConnectOwn

-----------------------------------------------------------------------------
(* loopEvent and send_data, on the connection's thread. *)

Recv(n) ==
  /\ spc = "poll"
  /\ clientAlive
  /\ n <= hostLeft
  /\ chunk' = n
  /\ hostLeft' = hostLeft - n
  /\ spc' = "send"
  /\ UNCHANGED <<tcpVars, cpc, receiverVars, clientAlive, sendFailed, delivered,
                 deviceVars>>

\* Erased and let go by everybody: the destructor runs, and stopAction.
Destroyed == ~inConns /\ \A r \in Receivers : rpc[r] = "idle"

\* POLLHUP, or the socket was shut down by stopAction: send_fin, which sets
\* TH_RST, and the loop ends.
RecvClosed ==
  /\ spc = "poll"
  /\ ~clientAlive \/ Destroyed
  /\ spc' = "ended"
  /\ dev' = [dev EXCEPT !.state = "closed"]
  /\ UNCHANGED <<tcpVars, cpc, chunk, receiverVars, clientVars, wire>>

\* recv fails, as it does when the client left data unread: kill(), and the
\* exception ends the loop.
RecvFails ==
  /\ spc = "poll"
  /\ ~clientAlive
  /\ reap' = TRUE
  /\ spc' = "ended"
  /\ UNCHANGED <<connState, stx, asleep, fd, inConns, cpc, chunk, receiverVars,
                 clientVars, deviceVars>>

\* One packet: as much of the chunk as the window and the MTU allow.
SendData ==
  /\ spc = "send"
  /\ stx.inWin - Unacked > 0
  /\ LET len == Least({chunk, stx.inWin - Unacked, Mtu})
     IN /\ stx' = [stx EXCEPT !.seq = @ + len, !.acked = stx.ack]
        /\ chunk' = chunk - len
        /\ dev' = IF dev.state = "open" THEN [dev EXCEPT !.got = stx.seq + len] ELSE dev
        /\ spc' = IF chunk = len THEN "poll" ELSE "send"
  /\ UNCHANGED <<connState, asleep, fd, inConns, reap, cpc, receiverVars,
                 clientVars, wire>>

\* "at this point we *have to* wait for an ACK": the ticket is taken under
\* _lockStx.
SendSleep ==
  /\ spc = "send"
  /\ stx.inWin - Unacked <= 0
  /\ asleep' = [asleep EXCEPT !.send = @ \cup {Sender}]
  /\ spc' = "sleep"
  /\ UNCHANGED <<connState, stx, fd, inConns, reap, cpc, chunk, receiverVars,
                 clientVars, deviceVars>>

\* The assure after the wait ends the loop of a connection that is not up.
SendWake ==
  /\ spc = "sleep"
  /\ Sender \notin asleep.send
  /\ spc' = IF connState = "connected" THEN "send" ELSE "ended"
  /\ UNCHANGED <<tcpVars, cpc, chunk, receiverVars, clientVars, deviceVars>>

SendLoop == RecvClosed \/ RecvFails \/ SendData \/ SendSleep \/ SendWake

-----------------------------------------------------------------------------
(* handle_input, on the receivers. *)

Goto(r, label) == rpc' = [rpc EXCEPT ![r] = label]

\* device_data_input looks the connection up, which waits for the reaper;
\* without one it answers RST.
Take(r) ==
  /\ rpc[r] = "idle"
  /\ ~(inConns /\ connState = "dying")
  /\ wire # << >>
  /\ wire' = Tail(wire)
  /\ pkt' = [pkt EXCEPT ![r] = Head(wire)]
  /\ Goto(r, IF inConns THEN "input" ELSE "idle")
  /\ dev' = IF inConns THEN dev ELSE [dev EXCEPT !.state = "closed"]
  /\ UNCHANGED <<tcpVars, loopVars, clientVars>>

\* The SYN is answered. send_ack_nolock opens the device's end.
InputSynAck(r) ==
  /\ rpc[r] = "input"
  /\ connState = "connecting"
  /\ pkt[r].kind = "synack"
  /\ LET next == pkt[r].seq + 1
     IN stx' = [stx EXCEPT !.seq = @ + 1, !.ack = next, !.acked = next,
                           !.inWin = pkt[r].win, !.pktForwarded = next]
  /\ connState' = "connected"
  /\ asleep' = [asleep EXCEPT !.conn = {}]
  /\ Goto(r, "idle")
  /\ dev' = IF dev.state = "syn" THEN [dev EXCEPT !.state = "open"] ELSE dev
  /\ UNCHANGED <<fd, inConns, reap, loopVars, pkt, clientVars, wire>>

\* ... or refused; kill() posts the port to the reaper.
InputRefused(r) ==
  /\ rpc[r] = "input"
  /\ connState = "connecting"
  /\ pkt[r].kind = "rst"
  /\ connState' = "refused"
  /\ asleep' = [asleep EXCEPT !.conn = {}]
  /\ reap' = TRUE
  /\ Goto(r, "idle")
  /\ UNCHANGED <<stx, fd, inConns, loopVars, pkt, clientVars, deviceVars>>

InputReset(r) ==
  /\ rpc[r] = "input"
  /\ connState = "connected"
  /\ pkt[r].kind = "rst"
  /\ reap' = TRUE
  /\ Goto(r, "idle")
  /\ UNCHANGED <<connState, stx, asleep, fd, inConns, loopVars, pkt, clientVars,
                 deviceVars>>

\* A refused or dying connection drops what comes in.
InputDropped(r) ==
  /\ rpc[r] = "input"
  /\ connState \in {"refused", "dying"}
  /\ Goto(r, "idle")
  /\ UNCHANGED <<tcpVars, loopVars, pkt, clientVars, deviceVars>>

\* A segment is compared with _stx.ack: the state of the connection was looked
\* at when it came in, and is not looked at again under the lock after a wait.
AtSegment(r) ==
  \/ rpc[r] = "input" /\ connState = "connected" /\ pkt[r].kind = "ack"
  \/ rpc[r] = "again"

\* Not the next segment: wait, on the event the sender waits for as well.
InputDefer(r) ==
  /\ AtSegment(r)
  /\ pkt[r].seq # stx.ack
  /\ asleep' = [asleep EXCEPT !.send = @ \cup {r}]
  /\ Goto(r, "order")
  /\ UNCHANGED <<connState, stx, fd, inConns, reap, loopVars, pkt, clientVars,
                 deviceVars>>

InputWake(r) ==
  /\ rpc[r] = "order"
  /\ r \notin asleep.send
  /\ Goto(r, IF connState = "connected" THEN "again" ELSE "idle")
  /\ UNCHANGED <<tcpVars, loopVars, pkt, clientVars, deviceVars>>

\* The next segment: window and acknowledgement are taken as they are; payload
\* is acknowledged at once unless somebody waits for _canSendEvent.
NextSegment(r) ==
  /\ AtSegment(r)
  /\ pkt[r].seq = stx.ack
  /\ LET next == stx.ack + pkt[r].len
     IN stx' = [stx EXCEPT !.inWin = pkt[r].win, !.seqAcked = pkt[r].ack, !.ack = next,
                           !.acked = IF pkt[r].len > 0 /\ asleep.send = {} THEN next ELSE @]
  /\ Goto(r, IF pkt[r].len > 0 THEN "forward" ELSE "idle")
  /\ UNCHANGED <<connState, fd, inConns, reap, loopVars, pkt, clientVars, deviceVars>>

\* Mutant: only payload wakes who waits.
InputNextWakesForPayload(r) ==
  /\ NextSegment(r)
  /\ asleep' = IF pkt[r].len > 0 THEN [asleep EXCEPT !.send = {}] ELSE asleep

\* ... then everybody who waits for the event is notified.
InputNext(r) ==
  /\ NextSegment(r)
  /\ asleep' = [asleep EXCEPT !.send = {}]

\* Mutant: payload is forwarded as it comes.
AnyTurn(r) == TRUE

\* Forwarding has an order of its own, under _lockClientSend.
MyTurn(r) == pkt[r].seq = stx.pktForwarded

ForwardDefer(r) ==
  /\ rpc[r] = "forward"
  /\ ~MyTurn(r)
  /\ asleep' = [asleep EXCEPT !.client = @ \cup {r}]
  /\ Goto(r, "turn")
  /\ UNCHANGED <<connState, stx, fd, inConns, reap, loopVars, pkt, clientVars,
                 deviceVars>>

ForwardWake(r) ==
  /\ rpc[r] = "turn"
  /\ r \notin asleep.client
  /\ Goto(r, IF connState = "connected" THEN "forward" ELSE "idle")
  /\ UNCHANGED <<tcpVars, loopVars, pkt, clientVars, deviceVars>>

\* Its turn, but the connection is going: return, nobody is notified.
ForwardAbandon(r) ==
  /\ rpc[r] = "forward"
  /\ MyTurn(r)
  /\ connState # "connected"
  /\ Goto(r, "idle")
  /\ UNCHANGED <<tcpVars, loopVars, pkt, clientVars, deviceVars>>

\* Its turn: send() to the client. Any failure counts as a dead client.
Forward(r) ==
  /\ rpc[r] = "forward"
  /\ MyTurn(r)
  /\ connState = "connected"
  /\ stx' = [stx EXCEPT !.pktForwarded = @ + pkt[r].len]
  /\ asleep' = [asleep EXCEPT !.client = {}]
  /\ Goto(r, "idle")
  /\ \/ /\ fd /\ clientAlive
        /\ delivered' = Append(delivered, pkt[r].seq)
        /\ UNCHANGED <<sendFailed, reap>>
     \/ /\ ~(fd /\ clientAlive)
        /\ sendFailed' = TRUE
        /\ reap' = TRUE
        /\ UNCHANGED delivered
  /\ UNCHANGED <<connState, fd, inConns, loopVars, pkt, hostLeft, clientAlive,
                 deviceVars>>

Receive(r) ==
  \/ Take(r)
  \/ InputSynAck(r) \/ InputRefused(r) \/ InputReset(r) \/ InputDropped(r)
  \/ InputDefer(r) \/ InputWake(r) \/ InputNext(r)
  \/ ForwardDefer(r) \/ ForwardWake(r) \/ ForwardAbandon(r) \/ Forward(r)

-----------------------------------------------------------------------------
(* The connection reaper: deconstruct(), in two sections, and erase. It holds
   _conns_Guard meanwhile. *)

DeconstructStx ==
  /\ reap
  /\ inConns
  /\ connState # "dying"
  /\ connState' = "dying"
  /\ asleep' = [asleep EXCEPT !.conn = {}, !.send = {}]
  /\ UNCHANGED <<stx, fd, inConns, reap, loopVars, receiverVars, clientVars,
                 deviceVars>>

DeconstructErase ==
  /\ inConns
  /\ connState = "dying"
  /\ asleep' = [asleep EXCEPT !.client = {}]
  /\ inConns' = FALSE
  /\ UNCHANGED <<connState, stx, fd, reap, loopVars, receiverVars, clientVars,
                 deviceVars>>

Deconstruct == DeconstructStx \/ DeconstructErase

-----------------------------------------------------------------------------
(* The two ends. *)

ClientDies ==
  /\ "client" \in CanDie
  /\ clientAlive
  /\ clientAlive' = FALSE
  /\ UNCHANGED <<tcpVars, loopVars, receiverVars, hostLeft, sendFailed, delivered,
                 deviceVars>>

\* The device sends a packet. Its window is what is free in its buffer.
DevSend(kind, len, state) ==
  /\ wire' = Append(wire, [kind |-> kind, seq |-> dev.seq, ack |-> dev.got,
                           win |-> dev.read + DevBuf - dev.got, len |-> len])
  /\ dev' = [dev EXCEPT !.seq = IF kind = "synack" THEN 1 ELSE @ + len,
                        !.state = state, !.told = <<dev.got, dev.read>>]

\* An answer to the SYN.
DevAnswer ==
  /\ dev.state = "syn" /\ dev.seq = 0
  /\ \/ DevSend("synack", 0, "syn")
     \/ CanRefuse /\ DevSend("rst", 0, "closed")

DevData == dev.state = "open" /\ dev.seq <= MaxDev /\ DevSend("ack", 1, "open")

\* An acknowledgement or a window update, when there is something new to say.
DevAck ==
  /\ dev.state = "open"
  /\ dev.told # <<dev.got, dev.read>>
  /\ DevSend("ack", 0, "open")

\* The program on the device reads a byte.
DevRead ==
  /\ dev.state = "open" /\ dev.read < dev.got
  /\ dev' = [dev EXCEPT !.read = @ + 1]
  /\ UNCHANGED wire

DevReset ==
  /\ "device" \in CanDie
  /\ dev.state = "open"
  /\ DevSend("rst", 0, "closed")

DevStep ==
  /\ DevAnswer \/ DevData \/ DevAck \/ DevRead \/ DevReset
  /\ UNCHANGED <<tcpVars, loopVars, receiverVars, clientVars>>

Next ==
  \/ Connect
  \/ \E n \in 1 .. MaxHost : Recv(n)
  \/ SendLoop
  \/ \E r \in Receivers : Receive(r)
  \/ Deconstruct
  \/ ClientDies
  \/ DevStep

Spec == Init /\ [][Next]_vars

\* The host's threads run while they have work.
HostFairness ==
  /\ WF_vars(Connect) /\ WF_vars(SendLoop) /\ WF_vars(Deconstruct)
  /\ \A r \in Receivers : WF_vars(Receive(r))

\* A device that answers the SYN, reads what it gets and says so.
DeviceFairness ==
  WF_vars(DevStep /\ (DevAnswer \/ DevRead \/ DevAck))

FairSpec == Spec /\ HostFairness
FairPeerSpec == FairSpec /\ DeviceFairness

-----------------------------------------------------------------------------
TcpTypes ==
  /\ connState \in {"connecting", "connected", "refused", "dying"}
  /\ stx \in [seq : Nat, seqAcked : Nat, ack : Nat, acked : Nat, inWin : Nat,
              pktForwarded : Nat]
  /\ asleep \in [conn : SUBSET {Connector}, send : SUBSET (Receivers \cup {Sender}),
                 client : SUBSET Receivers]

FlagTypes ==
  /\ fd \in BOOLEAN /\ inConns \in BOOLEAN /\ reap \in BOOLEAN
  /\ clientAlive \in BOOLEAN /\ sendFailed \in BOOLEAN

ThreadTypes ==
  /\ cpc \in {"connect", "syn", "wait", "result", "own", "done", "failed"}
  /\ spc \in {"off", "poll", "send", "sleep", "ended"}
  /\ rpc \in [Receivers -> {"idle", "input", "order", "again", "forward", "turn"}]
  /\ pkt \in [Receivers -> Packet]

DataTypes ==
  /\ chunk \in Nat /\ hostLeft \in Nat
  /\ delivered \in Seq(Nat)

DeviceTypes ==
  /\ wire \in Seq(Packet)
  /\ dev \in [state : {"closed", "syn", "open"}, seq : Nat, got : Nat, read : Nat,
              told : Nat \X Nat]

TypeOK == TcpTypes /\ FlagTypes /\ ThreadTypes /\ DataTypes /\ DeviceTypes

\* "this lock will always be blocking, unless we can send more data"
\* (TCP.cpp:210-214): a sender whose wakeup is still to come has no room in
\* the window it knows of. No acknowledgement slips in between the check and
\* the wait.
SleepsOnlyWhenFull == Sender \in asleep.send => stx.inWin - Unacked <= 0

\* The host never sends past the edge of the window the device opened, also
\* when acknowledgements are handled in another order than they were sent
\* (TCP.cpp:182-241 and 339-340).
WithinDeviceWindow ==
  connState = "connected" => stx.seq <= dev.read + DevBuf

\* The client gets the payload in the order the device sent it, each piece
\* once, although several receivers hold pieces of it; and as long as no send
\* to it failed, without a gap (TCP.cpp:372-392).
DeliveredInOrder ==
  /\ \A i \in 2 .. Len(delivered) : delivered[i - 1] < delivered[i]
  /\ ~sendFailed => \A i \in 1 .. Len(delivered) : delivered[i] = i

\* Bytes in hand are sent in the end, as long as the connection is up
\* (TCP.cpp:182-241).
ChunkSent ==
  (spc = "send") ~> (spc \in {"poll", "ended"} \/ connState # "connected")

\* connect() comes back, with a connection or without (TCP.cpp:401-405).
ConnectReturns == (cpc = "wait") ~> (cpc \in {"done", "failed"})

\* "at this point we *have to* wait for an ACK" (TCP.cpp:205): when the
\* sender sleeps and nothing is on its way to it, the device has not offered
\* it any room.
WaitsForTheDevice ==
  /\ connState = "connected"
  /\ Sender \in asleep.send
  /\ wire = << >> /\ \A r \in Receivers : rpc[r] = "idle"
  /\ dev.state = "open" /\ dev.told = <<dev.got, dev.read>>
  => stx.seq >= dev.read + DevBuf
=============================================================================
