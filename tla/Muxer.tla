-------------------------------- MODULE Muxer --------------------------------
(***************************************************************************)
(* The muxer's two registries, the devices and the clients, and the        *)
(* notifications that keep listening clients informed.                     *)
(*                                                                         *)
(* add_device, the delete_* functions and the Listen request run on        *)
(* different threads (USB receivers, the reaper of each device manager,    *)
(* the libusb and mDNS callbacks, one loop per client). A section under    *)
(* _devicesGuard or _clientsGuard is one step when nothing blocks in it;   *)
(* a loop that sends to clients is one step per message and holds its      *)
(* guard in between.                                                       *)
(***************************************************************************)
EXTENDS Integers, Sequences, FiniteSets, Functions

CONSTANTS
  Devices,    \* the Device objects the managers create
  Serial,     \* Serial[d]: what d->_serial holds
  Conn,       \* Conn[d]: "usb" or "wifi", d->_conntype
  Pairing,    \* the wifi devices whose serial starts with WIFIPAIR
  Removals,   \* Removals[d]: the calls that take d out, see RemovalCalls
  Order,      \* the devices in the iteration order of _devices (by address)
  Clients,    \* the Client objects
  MaxId,      \* MAXID, INT_MAX/2 in the code
  AddsAlone,  \* bound: no other call is under way during an add_device
  EarlyDelete \* whether a device may be removed before its add_device returned

\* delete: delete_device(dev), from a device's deconstruct().
\* left: delete_device(bus, address), from the libusb hotplug callback.
\* service: delete_wifi_device_with_serial and
\*   delete_wifi_pairing_device_with_ip, from the discovery callbacks.
RemovalCalls == {"delete", "left", "service"}

ASSUME MuxerAssumption ==
  /\ Serial \in [Devices -> STRING]
  /\ Conn \in [Devices -> {"usb", "wifi"}]
  /\ Pairing \subseteq {d \in Devices : Conn[d] = "wifi"}
  /\ Removals \in [Devices -> SUBSET RemovalCalls]
  /\ \A d \in Devices :
       /\ "left" \in Removals[d] => Conn[d] = "usb"
       /\ "service" \in Removals[d] => d \in Pairing
  /\ Order \in Seq(Devices)
  /\ Range(Order) = Devices /\ Len(Order) = Cardinality(Devices)
  /\ MaxId \in Nat /\ Cardinality(Devices) < MaxId
  /\ {AddsAlone, EarlyDelete} \subseteq BOOLEAN

VARIABLES
  registered,  \* _devices
  id,          \* dev->_id of every object
  newid,       \* _newid
  call,        \* call[d][op]: progress of each call made about device d
  todo,        \* todo[d][op]: clients a sending call has yet to come to
  cstate,      \* each client: is it in _clients, is _isListening set
  lpc,         \* each client's thread inside the Listen request
  listing,     \* the devices notify_alldevices has yet to send
  view         \* what a client believes: Attached ids without a Detached

vars == <<registered, id, newid, call, todo, cstate, lpc, listing, view>>

Calls == {"add"} \cup RemovalCalls
IsWifi(d) == IF Conn[d] = "wifi" THEN 1 ELSE 0
Number(i) == i \div 2      \* the id without the connection type bit

InProgress(d, op) == call[d][op] \notin {"new", "done"}
Goto(d, op, pc) == call' = [call EXCEPT ![d][op] = pc]

\* delete_wifi_* notify while they still hold _devicesGuard for writing.
DevicesReadable == \A d \in Devices : ~InProgress(d, "service")

\* Mutant: notify_alldevices sends from a copy of the list, with no guard.
OnlyServiceHolds == DevicesReadable

\* notify_alldevices sends while it holds _devicesGuard for reading.
DevicesWritable == DevicesReadable /\ \A c \in Clients : lpc[c] # "sending"

\* Every notify_* sends while it holds _clientsGuard for reading.
ClientsWritable ==
  \A d \in Devices, op \in Calls : call[d][op] # "sending"

InClients == {c \in Clients : cstate[c] \in {"connected", "listening"}}

\* Mutant: the candidate is not compared with the devices that are there.
TakeIt(start) == start

\* One pass of the retryID loop over _devices: each device whose number is
\* the candidate moves the candidate on; earlier ones are not looked at again.
ScanFrom(start) ==
  LET scan[i \in 0 .. Len(Order)] ==
        IF i = 0 THEN start
        ELSE IF Order[i] \in registered /\ Number(id[Order[i]]) = scan[i - 1]
          THEN scan[i - 1] + 1
          ELSE scan[i - 1]
  IN scan[Len(Order)]

\* Mutant: numbers from 0, though "there can be no device with ID 1 or 0".
NumberFromZero == ScanFrom(newid) - 1

\* Leaving the range starts over with candidate 1.
NextNewId == LET n == ScanFrom(newid) IN IF n > MaxId THEN ScanFrom(1) ELSE n

-----------------------------------------------------------------------------
Init ==
  /\ registered = {}
  /\ id = [d \in Devices |-> 0]
  /\ newid = 1
  /\ call = [d \in Devices |-> [op \in Calls |-> "new"]]
  /\ todo = [d \in Devices |-> [op \in Calls |-> {}]]
  /\ cstate = [c \in Clients |-> "new"]
  /\ lpc = [c \in Clients |-> "idle"]
  /\ listing = [c \in Clients |-> {}]
  /\ view = [c \in Clients |-> {}]

\* Mutant: the connection type is not flipped before the search.
SameConnection(d) ==
  {e \in registered : Serial[e] = Serial[d] /\ Conn[e] = Conn[d]}

\* The devices of the other connection type id_for_device would match.
Siblings(d) ==
  {e \in registered : Serial[e] = Serial[d] /\ Conn[e] # Conn[d]}

MayStartAdd ==
  AddsAlone => \A d \in Devices, op \in Calls : ~InProgress(d, op)

\* add_device, first section: id_for_device, under its own read guard.
AddLookup(d) ==
  /\ call[d]["add"] = "new"
  /\ MayStartAdd
  /\ EarlyDelete \/ \A op \in RemovalCalls : call[d][op] = "new"
  /\ DevicesReadable
  /\ \/ /\ Siblings(d) = {}
        /\ Goto(d, "add", "pick")
        /\ UNCHANGED id
     \/ \E e \in Siblings(d) :
          /\ id' = [id EXCEPT ![d] = 2 * Number(id[e]) + IsWifi(d)]
          /\ Goto(d, "add", "insert")
  /\ UNCHANGED <<registered, newid, todo, cstate, lpc, listing, view>>

\* Second section: a fresh number. _newid is read and written under a guard
\* taken for reading only.
AddPick(d) ==
  /\ call[d]["add"] = "pick"
  /\ DevicesReadable
  /\ newid' = NextNewId
  /\ id' = [id EXCEPT ![d] = 2 * NextNewId + IsWifi(d)]
  /\ Goto(d, "add", "insert")
  /\ UNCHANGED <<registered, todo, cstate, lpc, listing, view>>

\* Third section: insert, under the write guard. A pairing device is added
\* with notify = false. USB devices go through preflight before the next step.
AddInsert(d) ==
  /\ call[d]["add"] = "insert"
  /\ DevicesWritable
  /\ registered' = registered \cup {d}
  /\ Goto(d, "add", IF d \in Pairing THEN "done" ELSE "notify")
  /\ UNCHANGED <<id, newid, todo, cstate, lpc, listing, view>>

MayStartRemoval(d) ==
  /\ EarlyDelete \/ call[d]["add"] = "done"
  /\ AddsAlone => \A e \in Devices : ~InProgress(e, "add")

\* delete_device(dev): notifies whether or not there was something to erase.
DeleteDevice(d) ==
  /\ "delete" \in Removals[d] /\ call[d]["delete"] = "new"
  /\ MayStartRemoval(d)
  /\ DevicesWritable
  /\ registered' = registered \ {d}
  /\ Goto(d, "delete", "notify")
  /\ UNCHANGED <<id, newid, todo, cstate, lpc, listing, view>>

\* delete_device(bus, address) and the delete_wifi_* functions search first:
\* no match, no notification. The latter keep the write guard, see
\* DevicesReadable.
DeleteMatching(d, op) ==
  /\ op \in Removals[d] /\ call[d][op] = "new"
  /\ MayStartRemoval(d)
  /\ DevicesWritable
  /\ registered' = registered \ {d}
  /\ Goto(d, op, IF d \in registered THEN "notify" ELSE "done")
  /\ UNCHANGED <<id, newid, todo, cstate, lpc, listing, view>>

\* Mutant: the list of devices is read again before sending.
BeginNotifyReadsDevices(d, op) ==
  /\ call[d][op] = "notify"
  /\ DevicesReadable
  /\ todo' = [todo EXCEPT ![d][op] = InClients]
  /\ Goto(d, op, "sending")
  /\ UNCHANGED <<registered, id, newid, cstate, lpc, listing, view>>

\* notify_device_add / notify_device_remove take _clientsGuard ...
BeginNotify(d, op) ==
  /\ call[d][op] = "notify"
  /\ todo' = [todo EXCEPT ![d][op] = InClients]
  /\ Goto(d, op, "sending")
  /\ UNCHANGED <<registered, id, newid, cstate, lpc, listing, view>>

\* ... send to one client after the other, skipping who does not listen ...
NotifyClient(d, op, c) ==
  /\ call[d][op] = "sending"
  /\ c \in todo[d][op]
  /\ todo' = [todo EXCEPT ![d][op] = @ \ {c}]
  /\ view' = IF cstate[c] # "listening" THEN view
             ELSE IF op = "add" THEN [view EXCEPT ![c] = @ \cup {id[d]}]
             ELSE [view EXCEPT ![c] = @ \ {id[d]}]
  /\ UNCHANGED <<registered, id, newid, call, cstate, lpc, listing>>

\* ... and release it.
EndNotify(d, op) ==
  /\ call[d][op] = "sending"
  /\ todo[d][op] = {}
  /\ Goto(d, op, "done")
  /\ UNCHANGED <<registered, id, newid, todo, cstate, lpc, listing, view>>

\* add_client
AddClient(c) ==
  /\ cstate[c] = "new"
  /\ ClientsWritable
  /\ cstate' = [cstate EXCEPT ![c] = "connected"]
  /\ UNCHANGED <<registered, id, newid, call, todo, lpc, listing, view>>

\* delete_client, once the client's own loop has ended.
DeleteClient(c) ==
  /\ c \in InClients
  /\ lpc[c] = "idle"
  /\ ClientsWritable
  /\ cstate' = [cstate EXCEPT ![c] = "gone"]
  /\ view' = [view EXCEPT ![c] = {}]
  /\ UNCHANGED <<registered, id, newid, call, todo, lpc, listing>>

\* The Listen request: first _isListening, no guard held ... (Bound: a client
\* asks once.)
Listen(c) ==
  /\ cstate[c] = "connected"
  /\ lpc[c] = "idle"
  /\ cstate' = [cstate EXCEPT ![c] = "listening"]
  /\ lpc' = [lpc EXCEPT ![c] = "list"]
  /\ UNCHANGED <<registered, id, newid, call, todo, listing, view>>

\* ... then notify_alldevices, with _devicesGuard held for reading.
BeginList(c) ==
  /\ lpc[c] = "list"
  /\ DevicesReadable
  /\ listing' = [listing EXCEPT ![c] = registered]
  /\ lpc' = [lpc EXCEPT ![c] = "sending"]
  /\ UNCHANGED <<registered, id, newid, call, todo, cstate, view>>

ListDevice(c, d) ==
  /\ lpc[c] = "sending"
  /\ d \in listing[c]
  /\ listing' = [listing EXCEPT ![c] = @ \ {d}]
  /\ view' = [view EXCEPT ![c] = @ \cup {id[d]}]
  /\ UNCHANGED <<registered, id, newid, call, todo, cstate, lpc>>

EndList(c) ==
  /\ lpc[c] = "sending"
  /\ listing[c] = {}
  /\ lpc' = [lpc EXCEPT ![c] = "idle"]
  /\ UNCHANGED <<registered, id, newid, call, todo, cstate, listing, view>>

\* What the calls that are under way do next.
Continue(d, op) ==
  \/ op = "add" /\ (AddPick(d) \/ AddInsert(d))
  \/ BeginNotify(d, op)
  \/ \E c \in Clients : NotifyClient(d, op, c)
  \/ EndNotify(d, op)

ContinueListen(c) ==
  BeginList(c) \/ EndList(c) \/ \E d \in Devices : ListDevice(c, d)

Next ==
  \/ \E d \in Devices :
       \/ AddLookup(d)
       \/ DeleteDevice(d)
       \/ \E op \in {"left", "service"} : DeleteMatching(d, op)
       \/ \E op \in Calls : Continue(d, op)
  \/ \E c \in Clients :
       AddClient(c) \/ DeleteClient(c) \/ Listen(c) \/ ContinueListen(c)

Spec == Init /\ [][Next]_vars

\* A call that has begun runs on its thread until it returns. Nobody has to
\* call anything.
FairSpec ==
  /\ Spec
  /\ \A d \in Devices, op \in Calls : WF_vars(Continue(d, op))
  /\ \A c \in Clients : WF_vars(ContinueListen(c))

-----------------------------------------------------------------------------
Ids == 0 .. 2 * MaxId + 1

TypeOK ==
  /\ registered \subseteq Devices
  /\ id \in [Devices -> Ids]
  /\ newid \in 1 .. MaxId
  /\ call \in [Devices -> [Calls ->
                 {"new", "pick", "insert", "notify", "sending", "done"}]]
  /\ todo \in [Devices -> [Calls -> SUBSET Clients]]
  /\ cstate \in [Clients -> {"new", "connected", "listening", "gone"}]
  /\ lpc \in [Clients -> {"idle", "list", "sending"}]
  /\ listing \in [Clients -> SUBSET Devices]
  /\ view \in [Clients -> SUBSET Ids]

\* "assign it a fresh ID" (Muxer.cpp:131): no two devices in the list answer
\* to the same id.
IdsUnique ==
  \A d, e \in registered : id[d] = id[e] => d = e

\* The connections of one device share a number, and only they do: the id
\* with the other type bit is the same phone (Muxer.cpp:124-126).
NumberIsDevice ==
  \A d, e \in registered :
    (Number(id[d]) = Number(id[e])) <=> (Serial[d] = Serial[e])

\* Both at once: ids are unique, and their numbers are the phones.
IdsSound == IdsUnique /\ NumberIsDevice

\* When nothing is under way a listening client knows exactly the devices
\* that are there, whichever way Listen and the device calls interleaved
\* (Client.cpp:394-395, Muxer.cpp:413-458 and 513-535). Pairing devices are
\* not announced, so a client may or may not know them.
Quiet ==
  /\ \A d \in Devices, op \in Calls : ~InProgress(d, op)
  /\ \A c \in Clients : lpc[c] = "idle"

ViewExact ==
  Quiet => \A c \in Clients : cstate[c] = "listening" =>
    /\ {id[d] : d \in registered \ Pairing} \subseteq view[c]
    /\ view[c] \subseteq {id[d] : d \in registered}

\* Every call returns: the two guards, which delete_wifi_* and
\* notify_alldevices hold while they send, are never waited for in a circle.
CallsReturn ==
  /\ \A d \in Devices : \A op \in {"add"} \cup Removals[d] :
       InProgress(d, op) ~> (call[d][op] = "done")
  /\ \A c \in Clients : (lpc[c] = "list") ~> (lpc[c] = "idle")
=============================================================================
