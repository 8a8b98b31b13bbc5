------------------------------ MODULE UsbDevice ------------------------------
(***************************************************************************)
(* The life of one USBDevice, from the hotplug event to its destructor,    *)
(* and of the transfers and connections that belong to it.                 *)
(*                                                                         *)
(* Threads: libusb's event thread runs the callbacks; the receivers handle *)
(* packets; clients are inside start_connect; each connection has a loop   *)
(* that reads from its client; the device's connection reaper and the      *)
(* manager's device reaper clean up; the manager's destructor stops        *)
(* everything. Nobody frees an object: the device goes with its last       *)
(* shared_ptr (Referenced) and a connection with its own (Holders), whose  *)
(* owner then runs the destructor and joins the threads of the object.     *)
(*                                                                         *)
(* What MuxRx and TCP are about is left to them: a receiver that waits for *)
(* its turn, in device_data_input or in handle_input, gets it.             *)
(***************************************************************************)
EXTENDS Integers, FiniteSets, Sequences

CONSTANTS
  Rx,         \* receive transfers, NUM_RX_LOOPS; also names their receivers
  Clients,    \* threads that may call start_connect, one connection each
  PortMod,    \* ports are uint16_t: 65536
  MaxTx,      \* bound: transmit transfers in flight
  MaxKills,   \* bound: references waiting in _reapDevices when one more failure,
              \* of those there is no end of, kills the device
  MaxCloses   \* bound: ports waiting in _reapConnections when a client closes

NoConn == "no connection"

ASSUME UsbAssumption ==
  /\ IsFiniteSet(Rx) /\ Rx # {}
  /\ IsFiniteSet(Clients) /\ NoConn \notin Clients
  /\ PortMod \in Nat /\ Cardinality(Clients) + 1 < PortMod
  /\ {MaxTx, MaxKills, MaxCloses} \subseteq Nat

VARIABLES
  plugged,      \* the device is on the bus
  left,         \* the hotplug callback for its departure ran
  obj,          \* the object: absent, alive, dying (destructor), left, gone
  ctl,          \* the control transfer in flight, which owns a reference
  active,       \* _state is MUXDEV_ACTIVE
  inMux,        \* the muxer lists it
  rx,           \* the receive transfers; all but "none" are in _rx_xfers
  rpc, holds,   \* the receivers, and the transfer each holds
  inp,          \* the connection each has found in _conns
  tx,           \* transmit transfers in flight
  conns,        \* _conns: port to connection
  nextPort,     \* _nextPort
  port,         \* each connection's _sPort
  tcp,          \* each connection's _connState
  loop,         \* each connection's loop: off, run, asleep in send_data, late
                \* (asleep, and nobody will wake it), or threw: off, and took
                \* _lockStx with it
  reapPorts,    \* _reapConnections, with the port the reaper works on
  conReaper,    \* where the connection reaper is; but for "wait" it has
                \* _conns_Guard for writing
  cpc,          \* where each client is inside start_connect
  reapDevs,     \* references in _reapDevices
  reaper,       \* where the device reaper is
  mgr           \* where the manager's destructor is

lifeVars == <<obj, ctl, active, inMux>>
xferVars == <<rx, rpc, holds, inp, tx>>
connVars == <<conns, nextPort, port, tcp, loop, reapPorts, conReaper>>
busVars == <<plugged, left>>
vars == <<busVars, lifeVars, xferVars, connVars, cpc, reapDevs, reaper, mgr>>

Ports == 1 .. PortMod - 1
Open == {p \in Ports : conns[p] # NoConn}

\* Nobody is in the section of the connection reaper under _conns_Guard.
GuardFree == conReaper = "wait"

\* Where start_connect has a reference to its connection.
HasConn == {"connect", "wait", "missed", "own", "leave"}

\* Who owns a shared_ptr to a connection.
Holders(c) ==
  {r \in Rx : inp[r] = c}
    \cup (IF cpc[c] \in HasConn THEN {"client"} ELSE {})
    \cup (IF \E p \in Ports : conns[p] = c THEN {"_conns"} ELSE {})

\* h may give its reference up: were that the last one, ~TCP joins the loop.
CanDrop(c, h) == Holders(c) = {h} => loop[c] \in {"off", "threw"}

\* Who owns a shared_ptr to the device, but for its connections: transfers in
\* their user_data, the muxer, a thread inside start_connect, the queue of the
\* device reaper and the reaper itself.
UsedElsewhere ==
  \/ ctl # "none"
  \/ \E x \in Rx : rx[x] # "none"
  \/ tx > 0
  \/ inMux
  \/ \E c \in Clients : cpc[c] \notin {"idle", "done"}
  \/ reapDevs > 0 \/ reaper # "wait"

\* Mutant: a transmit transfer has no reference of its own.
ReferencedWithoutTx == (UsedElsewhere /\ tx = 0) \/ Open # {}

\* Every TCP has one in _dev.
Referenced == UsedElsewhere \/ Open # {}

-----------------------------------------------------------------------------
Init ==
  /\ plugged = TRUE /\ left = FALSE
  /\ obj = "absent" /\ ctl = "none" /\ active = FALSE /\ inMux = FALSE
  /\ rx = [x \in Rx |-> "none"]
  /\ rpc = [r \in Rx |-> "none"]
  /\ holds = [r \in Rx |-> r]
  /\ inp = [r \in Rx |-> NoConn]
  /\ tx = 0
  /\ conns = [p \in Ports |-> NoConn] /\ nextPort = 0
  /\ port = [c \in Clients |-> 0]
  /\ tcp = [c \in Clients |-> "none"]
  /\ loop = [c \in Clients |-> "off"]
  /\ reapPorts = << >> /\ conReaper = "wait"
  /\ cpc = [c \in Clients |-> "idle"]
  /\ reapDevs = 0 /\ reaper = "wait"
  /\ mgr = "run"

\* send_packet: a transmit transfer is under way, or the device is killed, in
\* which case it throws.
Sent == plugged /\ tx < MaxTx /\ tx' = tx + 1 /\ UNCHANGED reapDevs
NotSent == ~plugged /\ reapDevs' = reapDevs + 1 /\ UNCHANGED tx

-----------------------------------------------------------------------------
(* The event thread. The device's entry in _constructing is there exactly   *)
(* while its control transfer is: both change in the same callbacks.        *)

\* device_add. It fails before there is an object, which changes nothing, or
\* after, or ends with the request for the language ids on its way.
DeviceAdd ==
  /\ mgr = "run"
  /\ plugged /\ obj = "absent"
  /\ obj' = "alive"
  /\ ctl' \in {"none", "langid"}
  /\ UNCHANGED <<busVars, active, inMux, xferVars, connVars, cpc, reapDevs, reaper, mgr>>

\* usb_get_langid_callback: the same transfer is sent again for the serial.
LangId ==
  /\ ctl = "langid"
  /\ plugged
  /\ ctl' = "serial"
  /\ UNCHANGED <<busVars, obj, active, inMux, xferVars, connVars, cpc, reapDevs,
                 reaper, mgr>>

\* The error path of both callbacks: the floating reference is deleted.
ControlFails ==
  /\ ctl # "none"
  /\ ctl' = "none"
  /\ UNCHANGED <<busVars, obj, active, inMux, xferVars, connVars, cpc, reapDevs,
                 reaper, mgr>>

\* usb_get_serial_callback: start the receive loops that can be started, send
\* the version (a failure kills the device), delete the floating reference.
\* That no loop could be started goes unnoticed: the counter counts attempts.
SerialRead(started) ==
  /\ ctl = "serial"
  /\ ~plugged => started = {}
  /\ rx' = [x \in Rx |-> IF x \in started THEN "flight" ELSE "none"]
  /\ rpc' = [r \in Rx |-> IF r \in started THEN "idle" ELSE "none"]
  /\ Sent \/ NotSent
  /\ ctl' = "none"
  /\ UNCHANGED <<busVars, obj, active, inMux, holds, inp, connVars, cpc, reaper, mgr>>

\* rx_callback, a completed transfer: post it to _arrived_xfer. A transfer
\* that completed before it could be cancelled comes "late".
RxArrives(x) ==
  /\ plugged
  /\ \/ rx[x] = "flight" /\ rx' = [rx EXCEPT ![x] = "arrived"]
     \/ rx[x] = "cancelled" /\ rx' = [rx EXCEPT ![x] = "late"]
  /\ UNCHANGED <<busVars, lifeVars, rpc, holds, inp, tx, connVars, cpc, reapDevs, reaper, mgr>>

\* rx_callback, any other status: free the transfer and kill() the device.
RxFails(x) ==
  /\ rx[x] \in {"flight", "cancelled"}
  /\ rx' = [rx EXCEPT ![x] = "none"]
  /\ reapDevs' = reapDevs + 1
  /\ UNCHANGED <<busVars, lifeVars, rpc, holds, inp, tx, connVars, cpc, reaper, mgr>>

\* tx_callback; unless the transfer completed, the device is killed.
TxDone ==
  /\ tx > 0
  /\ tx' = tx - 1
  /\ reapDevs' = reapDevs \/ (reapDevs < MaxKills /\ reapDevs' = reapDevs + 1)
  /\ UNCHANGED <<busVars, lifeVars, rx, rpc, holds, inp, connVars, cpc, reaper, mgr>>

\* usb_hotplug_cb, device left: Muxer::delete_device(bus, address).
HotplugLeft ==
  /\ mgr = "run"
  /\ ~plugged /\ ~left
  /\ left' = TRUE
  /\ inMux' = FALSE
  /\ UNCHANGED <<plugged, obj, ctl, active, xferVars, connVars, cpc, reapDevs,
                 reaper, mgr>>

Unplug ==
  /\ plugged
  /\ plugged' = FALSE
  /\ UNCHANGED <<left, lifeVars, xferVars, connVars, cpc, reapDevs, reaper, mgr>>

-----------------------------------------------------------------------------
(* Receivers. *)

Arrived == {x \in Rx : rx[x] \in {"arrived", "late"}}

\* _arrived_xfer.wait()
Take(r, x) ==
  /\ rpc[r] = "idle"
  /\ x \in Arrived
  /\ rx' = [rx EXCEPT ![x] = "held"]
  /\ rpc' = [rpc EXCEPT ![r] = "handle"]
  /\ holds' = [holds EXCEPT ![r] = x]
  /\ UNCHANGED <<busVars, lifeVars, inp, tx, connVars, cpc, reapDevs, reaper, mgr>>

\* device_data_input comes back: a control message, a packet that was dropped,
\* or one for a port without connection and the attempt to answer with a RST,
\* of which a failure is caught.
Handle(r) ==
  /\ rpc[r] = "handle"
  /\ (GuardFree /\ (Sent \/ NotSent)) \/ UNCHANGED <<tx, reapDevs>>
  /\ rpc' = [rpc EXCEPT ![r] = "resubmit"]
  /\ UNCHANGED <<busVars, lifeVars, rx, holds, inp, connVars, cpc, reaper, mgr>>

\* device_version_input, up to the call of add_device. When the answer cannot
\* be sent, send_packet kills the device and throws.
HandleVersion(r) ==
  /\ rpc[r] = "handle" /\ ~active
  /\ \/ /\ Sent
        /\ active' = TRUE
        /\ rpc' = [rpc EXCEPT ![r] = "add"]
     \/ /\ NotSent
        /\ rpc' = [rpc EXCEPT ![r] = "throw"]
        /\ UNCHANGED active
  /\ UNCHANGED <<busVars, obj, ctl, inMux, rx, holds, inp, connVars, cpc, reaper, mgr>>

\* device_version_input, a version nobody knows: kill(), and no exception.
HandleUnknown(r) ==
  /\ rpc[r] = "handle" /\ ~active
  /\ reapDevs < MaxKills
  /\ reapDevs' = reapDevs + 1
  /\ rpc' = [rpc EXCEPT ![r] = "resubmit"]
  /\ UNCHANGED <<busVars, lifeVars, rx, holds, inp, tx, connVars, cpc, reaper, mgr>>

\* _mux->add_device(_selfref.lock())
AddToMux(r) ==
  /\ rpc[r] = "add"
  /\ inMux' = TRUE
  /\ rpc' = [rpc EXCEPT ![r] = "resubmit"]
  /\ UNCHANGED <<busVars, obj, ctl, active, rx, holds, inp, tx, connVars, cpc, reapDevs,
                 reaper, mgr>>

\* A TCP packet for a connection in _conns, which takes a reference.
HandleTcp(r, c) ==
  /\ rpc[r] = "handle"
  /\ GuardFree /\ \E p \in Ports : conns[p] = c
  /\ rpc' = [rpc EXCEPT ![r] = "input"]
  /\ inp' = [inp EXCEPT ![r] = c]
  /\ UNCHANGED <<busVars, lifeVars, rx, holds, tx, connVars, cpc, reapDevs, reaper, mgr>>

\* TCP::kill, which others may do as often as they like.
Close(c) == Len(reapPorts) < MaxCloses /\ reapPorts' = Append(reapPorts, port[c])

\* TCP::handle_input, connecting: the acknowledgement goes out, or what came
\* makes no sense, or the connection is refused and closes its port. The device
\* may have meant an earlier connection with this port.
InputConnecting(r, c) ==
  /\ rpc[r] = "input" /\ inp[r] = c
  /\ tcp[c] \in {"new", "syn"}
  /\ \/ /\ tcp[c] = "syn" /\ Sent
        /\ tcp' = [tcp EXCEPT ![c] = "connected"]
        /\ rpc' = [rpc EXCEPT ![r] = "resubmit"]
        /\ UNCHANGED reapPorts
     \/ /\ (tcp[c] = "syn" /\ NotSent) \/ UNCHANGED <<tx, reapDevs>>
        /\ rpc' = [rpc EXCEPT ![r] = "throw"]
        /\ UNCHANGED <<tcp, reapPorts>>
     \/ /\ tcp' = [tcp EXCEPT ![c] = "refused"]
        /\ reapPorts' = Append(reapPorts, port[c])
        /\ rpc' = [rpc EXCEPT ![r] = "resubmit"]
        /\ UNCHANGED <<tx, reapDevs>>
  /\ UNCHANGED <<busVars, lifeVars, rx, holds, inp, conns, nextPort, port, loop,
                 conReaper, cpc, reaper, mgr>>

\* An acknowledgement wakes the sender.
Woken(c) == IF loop[c] = "asleep" THEN [loop EXCEPT ![c] = "run"] ELSE loop

\* Connected: an acknowledgement, with payload or without, or a RST. A payload
\* may have to be acknowledged at once, and is then forwarded.
InputConnected(r, c) ==
  /\ rpc[r] = "input" /\ inp[r] = c
  /\ tcp[c] = "connected" /\ loop[c] # "threw"
  /\ \/ /\ Sent \/ UNCHANGED <<tx, reapDevs>>
        /\ loop' = Woken(c)
        /\ rpc' = [rpc EXCEPT ![r] = "forward"]
        /\ UNCHANGED reapPorts
     \/ /\ loop' = Woken(c)
        /\ rpc' = [rpc EXCEPT ![r] = "resubmit"]
        /\ UNCHANGED <<tx, reapDevs, reapPorts>>
     \/ /\ NotSent
        /\ rpc' = [rpc EXCEPT ![r] = "throw"]
        /\ UNCHANGED <<loop, reapPorts>>
     \/ /\ Close(c)
        /\ rpc' = [rpc EXCEPT ![r] = "resubmit"]
        /\ UNCHANGED <<tx, reapDevs, loop>>
  /\ UNCHANGED <<busVars, lifeVars, rx, holds, inp, conns, nextPort, port, tcp,
                 conReaper, cpc, reaper, mgr>>

\* Refused or dying: nothing is done.
InputIgnored(r, c) ==
  /\ rpc[r] = "input" /\ inp[r] = c
  /\ tcp[c] \in {"refused", "dying"} /\ loop[c] # "threw"
  /\ rpc' = [rpc EXCEPT ![r] = "resubmit"]
  /\ UNCHANGED <<busVars, lifeVars, rx, holds, inp, tx, connVars, cpc, reapDevs,
                 reaper, mgr>>

\* The payload is written to the client's socket, with _lockClientSend; when
\* that fails the connection is closed.
Forward(r) ==
  /\ rpc[r] = "forward"
  /\ Close(inp[r]) \/ UNCHANGED reapPorts
  /\ rpc' = [rpc EXCEPT ![r] = "resubmit"]
  /\ UNCHANGED <<busVars, lifeVars, rx, holds, inp, tx, conns, nextPort, port, tcp,
                 loop, conReaper, cpc, reapDevs, reaper, mgr>>

\* device_data_input returns or throws and drops its reference.
DropConn(r) ==
  /\ rpc[r] \in {"resubmit", "throw"} /\ inp[r] # NoConn
  /\ CanDrop(inp[r], r)
  /\ inp' = [inp EXCEPT ![r] = NoConn]
  /\ UNCHANGED <<busVars, lifeVars, rx, rpc, holds, tx, connVars, cpc, reapDevs,
                 reaper, mgr>>

\* device_data_input throws: a wrong length, a second version packet.
HandleThrows(r) ==
  /\ rpc[r] = "handle"
  /\ rpc' = [rpc EXCEPT ![r] = "throw"]
  /\ UNCHANGED <<busVars, lifeVars, rx, holds, inp, tx, connVars, cpc, reapDevs,
                 reaper, mgr>>

\* loopEvent catches: kill(), and the loop ends after the clean-up.
Caught(r) ==
  /\ rpc[r] = "throw" /\ inp[r] = NoConn
  /\ reapDevs' = reapDevs + 1
  /\ rpc' = [rpc EXCEPT ![r] = "last"]
  /\ UNCHANGED <<busVars, lifeVars, rx, holds, inp, tx, connVars, cpc, reaper, mgr>>

\* The clean-up of loopEvent submits the transfer again. When that fails nobody
\* is told: the transfer stays in _rx_xfers and keeps its reference.
Resubmit(r) ==
  /\ rpc[r] \in {"resubmit", "last"} /\ inp[r] = NoConn
  /\ rx' = [rx EXCEPT ![holds[r]] = IF plugged THEN "flight" ELSE "lost"]
  /\ rpc' = [rpc EXCEPT ![r] = IF @ = "last" THEN "ended" ELSE "idle"]
  /\ UNCHANGED <<busVars, lifeVars, holds, inp, tx, connVars, cpc, reapDevs, reaper, mgr>>

-----------------------------------------------------------------------------
(* Clients and connections. *)

\* Muxer::start_connect finds the device, which takes a reference.
ClientFind(c) ==
  /\ cpc[c] = "idle"
  /\ inMux
  /\ cpc' = [cpc EXCEPT ![c] = "insert"]
  /\ UNCHANGED <<busVars, lifeVars, xferVars, connVars, reapDevs, reaper, mgr>>

\* Mutant: the number 0 is not passed over.
FirstFreeOrZero(q) ==
  /\ q \notin Open
  /\ \A p \in 0 .. PortMod - 1 :
       p \notin Open => (q - nextPort) % PortMod <= (p - nextPort) % PortMod

\* The loop over _nextPort: the first free number from _nextPort on, not 0.
FirstFree(q) ==
  /\ q \in Ports \ Open
  /\ \A p \in Ports \ Open : (q - nextPort) % PortMod <= (p - nextPort) % PortMod

\* start_connect, the section under _conns_Guard. _nextPort stays on the port.
ClientInsert(c) ==
  /\ cpc[c] = "insert" /\ GuardFree
  /\ \E q \in 0 .. PortMod - 1 :
       /\ FirstFree(q)
       /\ nextPort' = q
       /\ port' = [port EXCEPT ![c] = q]
       /\ conns' = [conns EXCEPT ![q] = c]
  /\ tcp' = [tcp EXCEPT ![c] = "new"]
  /\ cpc' = [cpc EXCEPT ![c] = "connect"]
  /\ UNCHANGED <<busVars, lifeVars, xferVars, loop, reapPorts, conReaper, reapDevs,
                 reaper, mgr>>

\* TCP::connect takes its ticket and sends the SYN. A connection that was
\* refused or deconstructed before is not notified of that any more. If sending
\* fails the device is killed and connect() throws.
ClientConnect(c) ==
  /\ cpc[c] = "connect"
  /\ \/ /\ Sent
        /\ tcp' = [tcp EXCEPT ![c] = IF @ = "new" THEN "syn" ELSE @]
        /\ cpc' = [cpc EXCEPT ![c] = IF tcp[c] = "new" THEN "wait" ELSE "missed"]
     \/ /\ NotSent
        /\ cpc' = [cpc EXCEPT ![c] = "done"]
        /\ UNCHANGED tcp
  /\ UNCHANGED <<busVars, lifeVars, rx, rpc, holds, inp, conns, nextPort, port, loop,
                 reapPorts, conReaper, reaper, mgr>>

\* connect() is notified: it takes the descriptor over when it is connected
\* and can tell the client so, or throws. The connection stays in _conns.
ClientReturn(c) ==
  /\ cpc[c] = "wait"
  /\ tcp[c] # "syn"
  /\ \/ tcp[c] = "connected" /\ cpc' = [cpc EXCEPT ![c] = "own"]
     \/ cpc' = [cpc EXCEPT ![c] = "done"]
  /\ UNCHANGED <<busVars, lifeVars, xferVars, connVars, reapDevs, reaper, mgr>>

\* startLoop(), whatever happened to the connection meanwhile.
ClientStarts(c) ==
  /\ cpc[c] = "own"
  /\ loop' = [loop EXCEPT ![c] = "run"]
  /\ cpc' = [cpc EXCEPT ![c] = "leave"]
  /\ UNCHANGED <<busVars, lifeVars, xferVars, conns, nextPort, port, tcp, reapPorts,
                 conReaper, reapDevs, reaper, mgr>>

\* start_connect returns and gives its references up. (When connect() throws
\* it does so as well, and there is no loop yet.)
ClientLeaves(c) ==
  /\ cpc[c] = "leave"
  /\ CanDrop(c, "client")
  /\ cpc' = [cpc EXCEPT ![c] = "done"]
  /\ UNCHANGED <<busVars, lifeVars, xferVars, connVars, reapDevs, reaper, mgr>>

\* send_data, room in the window: _lockStx is locked by hand, and when sending
\* throws nobody unlocks it.
LoopSend(c) ==
  /\ loop[c] = "run"
  /\ \/ Sent /\ UNCHANGED loop
     \/ NotSent /\ loop' = [loop EXCEPT ![c] = "threw"]
  /\ UNCHANGED <<busVars, lifeVars, rx, rpc, holds, inp, conns, nextPort, port, tcp,
                 reapPorts, conReaper, cpc, reaper, mgr>>

\* No room: the ticket is taken, which after deconstruct() is too late.
LoopSleep(c) ==
  /\ loop[c] = "run"
  /\ loop' = [loop EXCEPT ![c] = IF tcp[c] = "dying" THEN "late" ELSE "asleep"]
  /\ UNCHANGED <<busVars, lifeVars, xferVars, conns, nextPort, port, tcp, reapPorts,
                 conReaper, cpc, reapDevs, reaper, mgr>>

\* Woken by deconstruct(), send_data throws. (An acknowledgement: see Woken.)
LoopWakes(c) ==
  /\ loop[c] = "asleep" /\ tcp[c] = "dying"
  /\ loop' = [loop EXCEPT ![c] = "off"]
  /\ UNCHANGED <<busVars, lifeVars, xferVars, conns, nextPort, port, tcp, reapPorts,
                 conReaper, cpc, reapDevs, reaper, mgr>>

\* The client has hung up, and the device is told if that is possible; or the
\* socket is bad and the connection is closed.
LoopEnds(c) ==
  /\ loop[c] = "run"
  /\ \/ (Sent \/ NotSent) /\ UNCHANGED reapPorts
     \/ reapPorts' = Append(reapPorts, port[c]) /\ UNCHANGED <<tx, reapDevs>>
  /\ loop' = [loop EXCEPT ![c] = "off"]
  /\ UNCHANGED <<busVars, lifeVars, rx, rpc, holds, inp, conns, nextPort, port, tcp,
                 conReaper, cpc, reaper, mgr>>

-----------------------------------------------------------------------------
(* The connection reaper. From the lookup of the port to the notification   *)
(* it has _conns_Guard.                                                     *)

\* The device reaper is told: it looks at _conns again.
Notified == IF reaper = "asleep" THEN "check" ELSE reaper

Posted == obj \notin {"absent", "gone"} /\ GuardFree /\ reapPorts # << >>

\* USBDevice::reaper_runloop finds no connection with this port (any more).
ConNone ==
  /\ Posted /\ Head(reapPorts) \notin Open
  /\ reapPorts' = Tail(reapPorts)
  /\ reaper' = Notified
  /\ UNCHANGED <<busVars, lifeVars, xferVars, conns, nextPort, port, tcp, loop,
                 conReaper, cpc, reapDevs, mgr>>

\* Mutant: deconstruct() notifies nobody of the new state.
ConDeconstructSilently ==
  /\ Posted /\ Head(reapPorts) \in Open
  /\ conReaper' = "erase"
  /\ UNCHANGED <<busVars, lifeVars, xferVars, conns, nextPort, port, tcp, loop,
                 reapPorts, cpc, reapDevs, reaper, mgr>>

\* It finds one: TCP::deconstruct under _lockStx. When a sender threw with the
\* lock the reaper waits for it from now on.
ConDeconstruct ==
  /\ Posted /\ Head(reapPorts) \in Open
  /\ LET c == conns[Head(reapPorts)] IN
       \/ /\ loop[c] # "threw"
          /\ tcp' = [tcp EXCEPT ![c] = "dying"]
          /\ cpc' = [cpc EXCEPT ![c] = IF @ = "missed" THEN "wait" ELSE @]
          /\ conReaper' = "erase"
       \/ /\ loop[c] = "threw"
          /\ conReaper' = "locked"
          /\ UNCHANGED <<tcp, cpc>>
  /\ UNCHANGED <<busVars, lifeVars, xferVars, conns, nextPort, port, loop, reapPorts,
                 reapDevs, reaper, mgr>>

\* Mutant: nobody is told.
ConEraseSilently ==
  /\ conReaper = "erase"
  /\ LET p == Head(reapPorts) IN
       /\ \A r \in Rx : rpc[r] = "forward" => inp[r] # conns[p]
       /\ CanDrop(conns[p], "_conns")
       /\ conns' = [conns EXCEPT ![p] = NoConn]
  /\ reapPorts' = Tail(reapPorts)
  /\ conReaper' = "wait"
  /\ UNCHANGED <<busVars, lifeVars, xferVars, nextPort, port, tcp, loop, cpc, reapDevs,
                 reaper, mgr>>

\* deconstruct() under _lockClientSend, _conns.erase and the notification.
ConErase ==
  /\ conReaper = "erase"
  /\ LET p == Head(reapPorts) IN
       /\ \A r \in Rx : rpc[r] = "forward" => inp[r] # conns[p]
       /\ CanDrop(conns[p], "_conns")
       /\ conns' = [conns EXCEPT ![p] = NoConn]
  /\ reapPorts' = Tail(reapPorts)
  /\ conReaper' = "wait"
  /\ reaper' = Notified
  /\ UNCHANGED <<busVars, lifeVars, xferVars, nextPort, port, tcp, loop, cpc, reapDevs,
                 mgr>>

-----------------------------------------------------------------------------
(* The device reaper: deconstruct(), one reference of the queue after the   *)
(* other.                                                                   *)

\* Wait for a device and take it out of the muxer.
ReapTake ==
  /\ reaper = "wait" /\ reapDevs > 0
  /\ reapDevs' = reapDevs - 1
  /\ inMux' = FALSE
  /\ reaper' = "cancel"
  /\ UNCHANGED <<busVars, obj, ctl, active, xferVars, connVars, cpc, mgr>>

\* libusb_cancel_transfer does nothing to a transfer that is not in flight.
\* (Transmit transfers end by themselves sooner or later, see TxDone.)
ReapCancel ==
  /\ reaper = "cancel"
  /\ rx' = [x \in Rx |-> IF rx[x] = "flight" THEN "cancelled" ELSE rx[x]]
  /\ reaper' = "post"
  /\ UNCHANGED <<busVars, lifeVars, rpc, holds, inp, tx, connVars, cpc, reapDevs, mgr>>

\* Close every connection.
ReapPost ==
  /\ reaper = "post" /\ GuardFree
  /\ \E s \in [1 .. Cardinality(Open) -> Open] :
       /\ \A i, j \in DOMAIN s : i < j => s[i] < s[j]
       /\ reapPorts' = reapPorts \o s
  /\ reaper' = "check"
  /\ UNCHANGED <<busVars, lifeVars, xferVars, conns, nextPort, port, tcp, loop,
                 conReaper, cpc, reapDevs, mgr>>

\* Mutant: one look, whatever is still open.
ReapChecksOnce ==
  /\ reaper = "check" /\ GuardFree
  /\ reaper' = "wait"
  /\ UNCHANGED <<busVars, lifeVars, xferVars, connVars, cpc, reapDevs, mgr>>

\* The loop that waits for _conns to be empty; then the reaper lets go.
ReapCheck ==
  /\ reaper = "check" /\ GuardFree
  /\ reaper' = IF Open = {} THEN "wait" ELSE "asleep"
  /\ UNCHANGED <<busVars, lifeVars, xferVars, connVars, cpc, reapDevs, mgr>>

-----------------------------------------------------------------------------
(* ~USBDevice, on the thread that had the last reference. *)

DestroyBegin ==
  /\ obj = "alive" /\ ~Referenced
  /\ obj' = "dying"
  /\ UNCHANGED <<busVars, ctl, active, inMux, xferVars, connVars, cpc, reapDevs,
                 reaper, mgr>>

\* Mutant: the manager is not told.
DestroyReceiversSilently ==
  /\ obj = "dying"
  /\ \A r \in Rx : rpc[r] \in {"none", "idle", "ended"}
  /\ rpc' = [r \in Rx |-> "none"]
  /\ obj' = "left"
  /\ UNCHANGED <<busVars, ctl, active, inMux, rx, holds, inp, tx, connVars, cpc, reapDevs,
                 reaper, mgr>>

\* The receivers are stopped and joined, and the device leaves _children.
DestroyReceivers ==
  /\ obj = "dying"
  /\ \A r \in Rx : rpc[r] \in {"none", "idle", "ended"}
  /\ rpc' = [r \in Rx |-> "none"]
  /\ obj' = "left"
  /\ mgr' = IF mgr = "wait" THEN "kill" ELSE mgr
  /\ UNCHANGED <<busVars, ctl, active, inMux, rx, holds, inp, tx, connVars, cpc, reapDevs,
                 reaper>>

\* The connection reaper is stopped and joined, the rest is freed.
DestroyEnd ==
  /\ obj = "left"
  /\ GuardFree
  /\ reapPorts' = << >>
  /\ obj' = "gone"
  /\ UNCHANGED <<busVars, ctl, active, inMux, xferVars, conns, nextPort, port, tcp,
                 loop, conReaper, cpc, reapDevs, reaper, mgr>>

-----------------------------------------------------------------------------
(* ~USBDeviceManager. *)

InChildren == obj \in {"alive", "dying"}

\* Kill the child and wait. A child whose last reference is gone posts a null
\* reference: the queue is empty then, so the reaper takes it next and crashes.
\* Other threads may take steps before it does.
MgrKill ==
  /\ mgr \in {"run", "kill"}
  /\ InChildren
  /\ \/ Referenced /\ reapDevs' = reapDevs + 1 /\ mgr' = "wait"
     \/ ~Referenced /\ mgr' = "crashed" /\ UNCHANGED reapDevs
  /\ UNCHANGED <<busVars, lifeVars, xferVars, connVars, cpc, reaper>>

\* No children (left): stop the reaper and the event thread.
MgrDone ==
  /\ mgr \in {"run", "kill"}
  /\ ~InChildren
  /\ mgr' = "done"
  /\ UNCHANGED <<busVars, lifeVars, xferVars, connVars, cpc, reapDevs, reaper>>

-----------------------------------------------------------------------------
Control == LangId \/ ControlFails \/ \E started \in SUBSET Rx : SerialRead(started)

Input(r, c) ==
  HandleTcp(r, c) \/ InputConnecting(r, c) \/ InputConnected(r, c) \/ InputIgnored(r, c)

Receive(r) ==
  \/ \E x \in Rx : Take(r, x)
  \/ Handle(r) \/ HandleVersion(r) \/ HandleUnknown(r) \/ HandleThrows(r)
  \/ \E c \in Clients : Input(r, c)
  \/ AddToMux(r) \/ Forward(r) \/ DropConn(r) \/ Caught(r) \/ Resubmit(r)

Connect(c) ==
  ClientInsert(c) \/ ClientConnect(c) \/ ClientReturn(c) \/ ClientStarts(c) \/ ClientLeaves(c)

Loop(c) == LoopSend(c) \/ LoopSleep(c) \/ LoopWakes(c) \/ LoopEnds(c)

ConReap == ConNone \/ ConDeconstruct \/ ConErase

Reap == ReapTake \/ ReapCancel \/ ReapPost \/ ReapCheck

Destroy == DestroyBegin \/ DestroyReceivers \/ DestroyEnd

Next ==
  \/ DeviceAdd \/ Control \/ TxDone \/ HotplugLeft \/ Unplug
  \/ \E x \in Rx : RxArrives(x) \/ RxFails(x)
  \/ \E r \in Rx : Receive(r)
  \/ \E c \in Clients : ClientFind(c) \/ Connect(c) \/ Loop(c)
  \/ ConReap \/ Reap \/ Destroy \/ MgrKill \/ MgrDone

Spec == Init /\ [][Next]_vars

\* libusb reports the end of a transfer that cannot go on.
RxEnds(x) ==
  /\ ~plugged \/ rx[x] = "cancelled"
  /\ RxArrives(x) \/ RxFails(x)

\* Somebody is in ~TCP and waits for the loop, whose socket is shut down.
Joined(c) ==
  \/ conReaper = "erase" /\ conns[Head(reapPorts)] = c /\ Holders(c) = {"_conns"}
  \/ cpc[c] = "leave" /\ Holders(c) = {"client"}
  \/ \E r \in Rx : rpc[r] \in {"resubmit", "throw"} /\ Holders(c) = {r}

\* Threads that can go on do, libusb ends what it was given, a shutdown that
\* began goes on; what is written to a client's socket is read, or the client
\* goes (Forward). Nobody has to close, to connect, to unplug or to shut down.
Fairness ==
  /\ WF_vars(Control) /\ WF_vars(TxDone) /\ WF_vars(HotplugLeft)
  /\ \A x \in Rx : WF_vars(RxEnds(x))
  /\ \A r \in Rx : WF_vars(Receive(r))
  /\ \A c \in Clients : WF_vars(Connect(c))
  /\ \A c \in Clients : WF_vars(LoopWakes(c) \/ (Joined(c) /\ LoopEnds(c)))
  /\ WF_vars(ConReap) /\ WF_vars(Reap) /\ WF_vars(Destroy)
  /\ WF_vars(mgr = "kill" /\ (MgrKill \/ MgrDone))

FairSpec == Spec /\ Fairness

-----------------------------------------------------------------------------
LifeTypes ==
  /\ plugged \in BOOLEAN /\ left \in BOOLEAN
  /\ active \in BOOLEAN /\ inMux \in BOOLEAN
  /\ obj \in {"absent", "alive", "dying", "left", "gone"}
  /\ ctl \in {"none", "langid", "serial"}

XferTypes ==
  /\ rx \in [Rx -> {"none", "flight", "cancelled", "arrived", "late", "held", "lost"}]
  /\ rpc \in [Rx -> {"none", "idle", "handle", "add", "input", "forward", "resubmit",
                     "throw", "last", "ended"}]
  /\ holds \in [Rx -> Rx]
  /\ inp \in [Rx -> Clients \cup {NoConn}]
  /\ tx \in Nat

ConnTypes ==
  /\ conns \in [Ports -> Clients \cup {NoConn}]
  /\ nextPort \in 0 .. PortMod - 1
  /\ port \in [Clients -> 0 .. PortMod - 1]
  /\ tcp \in [Clients -> {"none", "new", "syn", "connected", "refused", "dying"}]
  /\ \A c \in Clients : tcp[c] # "none" => port[c] \in Ports
  /\ loop \in [Clients -> {"off", "run", "asleep", "late", "threw"}]
  /\ reapPorts \in Seq(Ports)
  /\ conReaper \in {"wait", "locked", "erase"}
  /\ cpc \in [Clients -> {"idle", "insert", "done"} \cup HasConn]

ReapTypes ==
  /\ reapDevs \in Nat
  /\ reaper \in {"wait", "cancel", "post", "check", "asleep"}
  /\ mgr \in {"run", "wait", "kill", "done", "crashed"}

\* A used connection has a port, and 0 is none.
TypeOK == LifeTypes /\ XferTypes /\ ConnTypes /\ ReapTypes

\* Once the destructor may run nothing of the device is in use: no transfer is
\* with libusb or a receiver, no connection is open, nobody can find it, and
\* nobody gets at it again (the assertions at the end of ~USBDevice, and that
\* every callback may use the device it was given).
NoResurrection ==
  obj \in {"dying", "left", "gone"} =>
    /\ ~Referenced
    /\ \A r \in Rx : rpc[r] \in {"none", "idle", "ended"}

\* A receive transfer, a reference queued for the reaper, or the reaper itself:
\* a listed device has one of these until its connections have been closed.
Kept == (\E x \in Rx : rx[x] # "none") \/ reapDevs > 0 \/ reaper # "wait"

\* A client that looked the device up before it was taken apart, and comes with
\* its connection when that is done.
TooLate == ~Kept /\ \E c \in Clients : cpc[c] = "insert"

\* The connection reaper drops the last TCP, and with it a reference to the
\* device, while it runs: were that the last one, ~USBDevice would wait on this
\* very thread for it to end. This does not happen, but for a client that came
\* too late.
ConReaperNeverLast ==
  [](~TooLate) =>
    [](conReaper = "erase" => UsedElsewhere \/ Open # {Head(reapPorts)})

\* A client that looked the device up before it was taken out of the muxer has
\* not put its connection into _conns when these are closed.
LateInsert == reaper \in {"check", "asleep"} /\ \E c \in Clients : cpc[c] = "insert"

\* The connection reaper waits for good and has _conns_Guard: for _lockStx,
\* which a sender that threw took with it, or in ~TCP for a sender that went to
\* sleep after the notification.
ConReaperHangs ==
  \/ conReaper = "locked"
  \/ /\ conReaper = "erase"
     /\ LET c == conns[Head(reapPorts)] IN loop[c] = "late" /\ Holders(c) = {"_conns"}

\* deconstruct() comes back, whatever packets, clients and other threads do
\* meanwhile, but for a late insertion or a connection reaper that hangs: its
\* loop waits for _conns to be empty, and one thread does this for all devices.
DeconstructReturns ==
  [](~LateInsert) =>
    (reaper # "wait" ~> (reaper = "wait" \/ mgr = "crashed" \/ ConReaperHangs))

\* While the device is taken apart no packet is in hand, no client is about to
\* insert, no descriptor is on request; no transfer completed before it could be
\* cancelled.
Orderly ==
  /\ \A x \in Rx : rx[x] # "late"
  /\ reaper # "wait" =>
       /\ \A x \in Rx : rx[x] \notin {"arrived", "held"}
       /\ \A c \in Clients : cpc[c] # "insert"
       /\ ctl = "none"

\* A reference that is never given up: of a transfer that libusb refused, of a
\* client that took its ticket after deconstruct() or waits in ~TCP for a sender
\* that did so, or of the connections that a hanging reaper leaves open.
Stuck ==
  \/ \E x \in Rx : rx[x] = "lost"
  \/ \E c \in Clients : tcp[c] = "dying" /\ cpc[c] = "missed"
  \/ \E c \in Clients : loop[c] = "late" /\ cpc[c] = "leave" /\ Holders(c) = {"client"}
  \/ ConReaperHangs

Gone == obj = "gone" \/ mgr = "crashed"

\* A killed device is destroyed when its teardown is orderly, or one of four
\* references is left over that nobody ever drops.
KilledDeviceDies == []Orderly => (reapDevs > 0 ~> (Gone \/ Stuck))

\* And then the manager's destructor comes back.
ShutdownEnds == []Orderly => (mgr = "wait" ~> (mgr \in {"done", "crashed"} \/ Stuck))
=============================================================================
