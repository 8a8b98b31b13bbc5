# A TLA+ verification of usbmuxd2

usbmuxd2 is a daemon that multiplexes TCP-like connections from local clients
to iOS devices, over USB or over the network. It is a threaded C++ program:
every device, client, connection and manager has threads of its own, and they
meet in a handful of guarded tables and events. The specifications here are
about what those threads do to each other. All paths below are relative to
`src/usbmuxd2/`.

## 1. The system

| Component | State it keeps | Operations | Meets the others through |
|---|---|---|---|
| USB receive path: `Devices/USBDevice.cpp` `device_data_input`, `Devices/USBDevice_receiver.cpp` | `_arrived_xfer` (completed transfers), `_muxdev.rx_seq`, `_data_in_event` | one receiver thread per transfer: take, check the length, wait for the sequence number, dispatch, submit again | libusb callbacks post transfers; dispatch calls `TCP::handle_input` |
| TCP connection: `TCP.cpp` | `_connState`, `_stx`, `_pfd`, three events, two locks | `connect`, `loopEvent`/`send_data`, `handle_input`, `kill`, `deconstruct` | client thread, its own loop, all receivers, the connection reaper |
| USB device: `Devices/USBDevice.cpp` | `_conns`, `_nextPort`, rx and tx transfers, receivers | `start_connect`, `closeConnection`, `kill`, `deconstruct`, `send_packet`, destructor | muxer, manager, reaper threads |
| USB device manager: `Manager/USBDeviceManager.cpp` | `_constructing`, `_children`, `_reapDevices` | hotplug, descriptor callbacks, `device_add`, `rx_callback`, reaper, shutdown | libusb event thread, muxer |
| Muxer: `Muxer.cpp` | `_devices`, `_clients`, `_newid` | `add_device`, `delete_*`, `add_client`, `delete_client`, `notify_*`, `start_connect` | called by every other thread |
| Client: `Client.cpp` | `_isListening`, `_connectTag`, receive buffer | request loop, `processData`, `writeData`, `kill` | muxer; hands its socket to a TCP connection |
| Client manager: `Manager/ClientManager.cpp` | listening socket, children, `_reapClients` | accept, reaper, shutdown | clients, muxer |
| WIFI session and device: `Devices/WIFIConnectionSession.cpp`, `Devices/WIFIDevice.cpp` | worker thread, stop/reconnect/update flags, back-off | `start`, `stop`, `requestReconnectNow`, `notifyDiscoveryUpdate` | discovery callbacks, muxer |
| WIFI discovery: `Manager/WIFIDeviceManager-avahi.cpp`, `-mDNS.cpp` | browser, resolvers, restart flag | callbacks, loop, restart, clean-up | muxer, sessions |
| Configuration: `sysconf/sysconf.cpp` | cached configuration, pair record files | get, set, delete | clients, preflight |
| Preflight: `sysconf/preflight.cpp` | none | a chain of blocking calls | called from `add_device` |
| Main: `main.cpp` | lock file, signal flag | start, stop, signals | all managers |

Hard behaviours, and what makes a component correct:

* **Receive path.** Transfers complete in order, but receivers reach `_usbLck`
  in any order. Correct: packets are taken over in the order sent, only
  repetitions are thrown away, no transfer is lost, nobody sleeps for a packet
  that is not coming, also when the 16 bit number wraps.
* **TCP connection.** Packets are *ordered* at `_usbLck` but *handled* after it
  is released, so `handle_input` sees them in any order. Correct: the client's
  stream has no disorder and no gap, the device's window is respected, nobody
  misses a wakeup, a connection attempt ends.
* **Muxer.** Every operation is several guarded sections. Correct: ids are
  unique, the two connections of a phone share a number, a listening client
  ends up knowing exactly the devices there are, no circle of guards.
* **Device life cycle.** Teardown from several sides at once (hotplug, a failed
  transfer, an exception of a receiver, shutdown). Correct: every transfer and
  connection is gone before the object is, and teardown ends.
* **Client.** Requests split over several reads, a peer that leaves at any
  moment, the hand-over of the socket while the reaper and the loop use it.
  Correct: one owner of the descriptor, an answer to every request, no loop that
  destroys its own client.
* **WIFI session.** `start` and `stop` from several threads, notifications
  against a sleeping worker. Correct: one worker, no request is missed, the
  session knows the last address, stop ends and is for good.
* **WIFI discovery.** Requests to look again from any thread while the loop
  replaces what they would tell. Correct: every request leads to a new look,
  every paired phone on the network is found, stopping ends.
* **Configuration.** Reads without the lock, records written in place. Correct:
  the table of addresses has exactly what the records say.

`PROJECT.json` lists every hazard at its line, with the properties that cover
it or the reason that none does.

## 2. The modules

| Module | Models | Notes |
|---|---|---|
| `MuxLink` | what the receive path promises: packets 0, 1, 2, ... in order, each once | abstract |
| `MuxRx` | `device_data_input` and the receiver threads | implements `MuxLink` |
| `MuxRxProofs` | proofs about `MuxRx` | |
| `Muxer` | `_devices`, `_clients`, ids, notifications, Listen | |
| `MuxerProofs` | proofs about `Muxer` | |
| `TCP` | one connection between a client and the device | |
| `TCPProofs` | proofs about `TCP` | |
| `UsbDevice` | one USB device from hotplug to destructor: references, transfers, connections, reapers, shutdown | |
| `UsbDeviceProofs` | proofs about `UsbDevice` | |
| `ClientLink` | what a local client is promised: one answer for a request, or a connection, and one end | abstract |
| `Client` | local clients and their manager: accept, read, answer, hand over, reap, shut down | implements `ClientLink` |
| `ClientProofs` | proofs about `Client` | |
| `WifiSession` | a wifi device and its heartbeat sessions | |
| `WifiSessionProofs` | proofs about `WifiSession` | |
| `PairRecords` | the pair record files and the table of addresses | used by `WifiDiscovery` |
| `WifiDiscovery` | avahi's loop and callbacks, requests to look again, saving and deleting records | extends `PairRecords` |
| `WifiDiscoveryProofs` | proofs about `WifiDiscovery` and `PairRecords` | |
| `MC...` | instances for TLC | |

Definitions keep the source's names, and `map` in `PROJECT.json` gives the lines
each of them models. A few definitions commented `Mutant:` are wrong on purpose:
they stand next to the definition they would replace, and a property is only
kept when such a replacement breaks it.

### MuxRx

State: `submitted` counts the transfers inside libusb, `arrived` is
`_arrived_xfer`, `pc`/`pkt` are the receivers, `sleeping` the tickets of
`_data_in_event` not notified yet. `accepted` and `dropped` are history. One
iteration of a receiver is `Arrive`, then `RejectLength`, or `Defer` (any number
of times), `Accept` or `Discard`, then `Dispatch` or `DispatchThrows`. What
happens with `_usbLck` held is one step. `MustWait` is the loop condition as
written, including its second comparison, of which only one side is truncated
to 16 bits. The number 2^16 is the constant `SeqMod`.

The transfer goes back to libusb on every path, and an exception ends the loop
of that receiver and kills the device: the model keeps running after that, with
fewer receivers, as the code does until the reaper gets to it. USB delivers
reliably and in order; `MaxDup` packets may be repeated, because the code has a
branch for that.

### Muxer

`call[d][op]` is the progress of each call made about device `d`: `add_device`
(`add`), and the three ways out, `delete_device(dev)`, `delete_device(bus,
address)` and the `delete_wifi_*` functions. `add_device` is three sections
(look for the other connection, pick a number, insert) and then a notification;
a removal is one section and a notification. A notification takes the clients
under `_clientsGuard` and is one step per client. `view` is what a client makes
of the messages. The guards are not variables: who holds one follows from the
call's progress (`DevicesWritable`, `DevicesReadable`, `ClientsWritable`).
`ScanFrom` is the `retryID` loop over the list, in the list's order.

### TCP

Threads: the client's thread in `connect()` (`cpc`), the loop (`spc`), the
receivers (`rpc`, `pkt`), the connection reaper (`Deconstruct*`). `stx` is
`_stx`. `asleep` holds, per event, who has a ticket and has not been notified:
taking a ticket under the lock and sleeping after its release is what the code
relies on, and what makes `asleep.send = {}` the call `members()`.
`_canSendEvent` is shared by the sender and by receivers that wait for an older
packet, as in the code. The device is a correct peer: it answers the SYN, sends
payload and acknowledgements when it likes, keeps `DevBuf` bytes and announces
what is free of them. `wire` is the ordered output of the mux layer that
`MuxRx` is proved to give; a receiver takes the oldest packet (`Take`) and
then races. The way to the device is immediate: `send_packet` hands packets to
libusb in order under `_lockStx`, and nothing the connection reads depends on
when they arrive.

`_connState` is read without a lock after a wait; `AtSegment` and `ForwardDefer`
keep that: a receiver that has passed the check goes on although the connection
may be dying by the time it has the lock.

### UsbDevice

Nobody frees a device: it goes with the last `shared_ptr`, on the thread that
had it. `Referenced` lists the owners: transfers (in their `user_data`), the
muxer, every connection in `_conns`, a client inside `start_connect`, the queue
and the hands of the device reaper. `obj` is where the object is, `ctl` the
control transfer of the set-up, `rx` the state of each receive transfer. A
transfer that completed before it could be cancelled is `late`; one whose
submission failed is `lost`, and keeps its reference. `rpc` and `holds` are the
receivers. What a packet does to the order of the link and to the stream of a
connection is in `MuxRx` and `TCP`; here it ends in one of the `Handle*` actions,
by what it means for the device, or finds a connection (`HandleTcp`) and goes on as
`Input*` and `Forward`, with a reference to it (`inp`).

A connection goes with its last `shared_ptr` as well (`Holders`): who drops that one
runs `~TCP` and waits for the connection's loop (`CanDrop`). `tcp` is `_connState`,
`cpc` where its client is in `start_connect`, `loop` its thread: running, asleep for
an acknowledgement, asleep `late`, with a ticket taken after the last notification,
or `threw`. `send_data` takes `_lockStx` by hand, so that a `send_packet` that throws
(`TCP.cpp:238`) leaves it locked: `threw` is a loop that ended with the lock.

The device's `reaper_runloop` is `ConNone`, or `ConDeconstruct` and `ConErase`, which
are one section under `_conns_Guard` (`GuardFree` is everybody else's look at it).
It waits for good, with the guard, at a connection whose lock is gone, or in `~TCP`
for a loop that sleeps late: `ConReaperHangs`. `ReapTake`, `ReapCancel`, `ReapPost`
and `ReapCheck` are `deconstruct()` on the thread of the manager, `Destroy*` is
`~USBDevice` and `Mgr*` is `~USBDeviceManager`. A child whose last reference
went before the manager kills it makes the manager post a null reference and its
reaper crash: `mgr = "crashed"`. The properties about progress admit that end;
it is listed as a hazard.

The properties about progress say what holds up to the ends the code allows, and
name each of these:

* `LateInsert`, a premise: a client between the look-up and the insertion into
  `_conns` when these are closed leaves a connection nobody closes, and
  `deconstruct()` waits for it with the thread of all devices.
* `ConReaperHangs`, an end: `deconstruct()` waits for `_conns` to be empty, and
  never comes back. Unplugging a device while a client sends is enough.
* `Orderly`, a premise: no packet in hand and no late completion while the device is
  taken apart. These leave a transfer that nobody cancels, or list the device again.
* `Stuck`, an end: a reference that is never given up. It is that of a transfer whose
  submission was refused (nobody looks at the result of `libusb_submit_transfer`,
  `USBDevice_receiver.cpp:28`), of a client that took its ticket in `connect()` after
  the teardown, of one that waits in `~TCP` for a loop asleep too late, or of the
  connections that a hanging reaper leaves open. There is no fifth.

`ConReaperNeverLast` has the premise that no client is `TooLate`: it found the device
before the teardown and inserts its connection after it. Two such clients are
enough: a connection that closes twice has its port posted twice, the second
connection is given the same number and is taken out by the second post, and its
reference is the last one. The connection reaper then runs `~USBDevice`, which joins
it. Without the premise TLC finds this with two clients.

### Client

`cl[c]` is one connection to the daemon's socket: the peer, the socket and who
owns its descriptor (`owners`), the object, and `loop`, where its thread is. A
request is `Length` units of which the first `Header` are the header; `Read`
takes any portion of what is there, and `AfterRead` is `recv_data`: the header
has to come with the first two reads. What a request does to other components is
in their modules; here it is served (answered), or it asks for a connection
(`Connect*`, `Grant`, `HandOver`), at the end of which the descriptor belongs to
the `TCP` object and the client's loop ends with "graceful kill". The reaper is
`Take`, `ReapDelete`, `ReapStop`, `ReapJoin`; the destructor, on whatever thread
had the last reference, `Destroy*`; `~ClientManager` is `Mgr*`. `Deleted` is
`Muxer::delete_client`: only who finds the client in the list kills it, so it is
usually reaped once, and twice when the manager kills it as well.

As for USB devices, the manager may kill a child that has no reference left:
`mgr = "crashed"`. A peer sends its next request after it has the answer to the
last; `recv_data` forgets what came after a request, so another peer would lose
bytes (a hazard).

`ClientLink` is the client's side of it. Under `Phase`, every step of `Client`
is one of its steps or invisible.

### WifiSession

One `WIFIDevice`, the session objects it has one after the other, and the threads
that call into them: discovery (`disc`), clients that ask for a reconnect, the
manager's reaper and the destructor. `th[t]` is the progress of a call, one step
per access to a flag or to `_worker`, since a session has no lock; `so[s].wk` is
where the worker is in `runloop`, from one read of the flags to the next.
A worker has a reference to the device in the places `Holding`. `_worker` is
joinable unless `wk = "none"`; joining it twice, or starting it again while it
runs, sets `crashed`, as `std::thread` throws or terminates there. Waits are
timed in the code and may end at any moment in the model. `mode` stands for the
options `allowHeartlessWifi` and `retryWifiSession`.

The code does not keep these calls apart, and much goes wrong if they meet: a
worker joined twice, an old version written over a newer one, a session created
after teardown. `raced` remembers that such a meeting happened (`"calls"`), that a
client asked a worker past its last look at the flags (`"ending"`), or that a call
came after `deconstruct()` (`"late"`); `late` has the sessions such calls made. The
properties say what holds unless it did; each kind of meeting is a hazard.
`StoppedForGood` allows the last kind: nothing keeps a client from asking for a
reconnect after teardown, and its session then runs for a device that left. What
the code gives is that the worker that was stopped is gone and stays so, because
`stopSession` takes the session out of the device before it stops it
(`WIFIDevice.cpp:77`).

### PairRecords and WifiDiscovery

`PairRecords` has the files, `gKnownMacAddrs` (`cache`) and its lock. A file is
`"torn"` from `fopen` to `fclose`, and for good if the write fails; the table is
filled file by file. `WifiDiscovery` has the threads: avahi's loop with the
callbacks it runs, clients that save, delete and ask for a refresh, the reaper,
the destructor. `poll` and `quit` are avahi's poll object, `found` the services
reported and not yet resolved. A phone's devices are numbered: `made` counts them,
`listed` are those in the muxer, `quiet` those without `_rediscoverOnDestruct`,
`queue` is `_reapDevices`. The look-up of a device and what is done to it are steps of
their own (`Add` and `Again`, `Unpair` and `Forget`), as are `delete_device` and the
look at the flag in `WIFIDevice::deconstruct` (`Reap`, `Test`): other threads come in
between. `pairing` are the pairing devices.

A thread that has read `_simple_poll` holds a pointer that `Free` makes `stale`; using it may
crash, and so may reading the table while somebody fills it (`crashed`, which the
properties admit). A poll object made by an `init_avahi` that then failed is
`"bare"`: the code polls it as if it were complete.

Three properties have premises, and each is a hazard: `RemovalsApart` (no
DeletePairRecord while a phone is looked up), `ServerReturns` (avahi's server is
there when browsers are made), `StopApart` (the destructor does not come while
the loop replaces the poll object) and, for `PairedPhoneFound`, that no device is
`ToldTooLate`: the loop has the device of a phone that was unpaired and paired again,
the reaper deletes it and finds its flag cleared, and only then the loop sets the
flag (`WIFIDeviceManager-avahi.cpp:289`). The phone is then not listed, and nobody
looks for it.

## 3. The runs

| Run | Question | Instance | Result |
|---|---|---|---|
| `mux_order` | order, loss, transfers: implementation of `MuxLink` | 3 receivers, 9 packets of all kinds, numbers modulo 5 | holds |
| `mux_live` | are sleepers woken, is everything taken over | 3 receivers, 5 packets, 1 repetition, no wrap | holds |
| `mux_wrap` | does a receiver get through across the wrap | 3 receivers, numbers modulo 8, 9 packets | violated |
| `muxer` | ids, numbers, views of clients, do calls return | a phone on USB and wifi, a second phone, a pairing service; one `add_device` at a time | holds |
| `muxer_race` | ids with two `add_device` at once | 2 USB phones | violated |
| `tcp_stream` | window, wakeups, stream | 2 receivers, window 2, 3 bytes out, 2 in, both ends may go | holds |
| `tcp_progress` | are bytes sent, does `connect` return | 1 receiver, window 2, 3 bytes out, 2 in | holds |
| `tcp_stale` | is a sender only blocked by the device | 2 receivers, nobody goes | violated |
| `usb_life` | is nothing used after it is gone, does teardown end | 1 receiver, 1 client, 1 transmit transfer in flight | holds |
| `wifi` | one worker, no lost update, no lost request, teardown ends | 1 client, 1 session at a time, 2 versions, all modes | holds |
| `client` | one owner of a descriptor, answers, no leak, shutdown ends | 2 clients, requests of 3 units with a header of 2 | holds |
| `discovery` | is the table complete, are phones found and forgotten, does stop end | 2 clients, 2 phones, of which one comes and goes, 2 requests, 1 fault | holds |

**Bounds.** With three receivers there is one that waits for a packet which
itself waits, and `SeqMod = 5` with nine packets wraps almost twice with every
receiver on either side of the wrap; the proofs cover any number of either. `mux_live` stays
below the wrap since `mux_wrap` shows what happens there. Four devices are one
of each kind the id assignment tells apart. `MaxId` is out of reach: the wrap of
`_newid` is not explored. A client listens once. For a connection, a window of
two bytes and three bytes to send fill it and need an update; two receivers are
enough for one packet to overtake another. Sequence numbers are not truncated
in `TCP`, see the head of the module. `usb_life` has one receiver and one client,
each of which meets every other thread: what two of them could do to each other
matters to the safety properties, and these are proved for any number (the reuse of
a port by a second client is the reason for a premise, see `UsbDevice`). `MaxTx`
bounds the packets in flight, `MaxKills` and `MaxCloses` how many references and
ports may already wait when another failure or close adds one, where the code
has no limit. Two clients share the accept loop, the reaper and the manager and
nothing else; a request of three units lets the header come with one, two or too
many reads. In `wifi` a second session at the same time only comes from a call
after teardown while a thread still has the old one, which the proof of
`StoppedForGood` covers for any number; with one, a late call makes its session when
the old one is free again. Two versions are an update, and `MaxKills` is as above. In `discovery` two requests of two clients are every
pair of requests, of the same client or not; the second phone is the other entry
of the table, whose record never changes; one fault is a lost device, a server
that fails or a service that leaves. `CHECK_DEADLOCK` is off where the system
may come to rest: nothing forces a device or a client to go on.

**Fairness.** A host thread is weakly fair: the scheduler lets a thread that can
run do so, and the code's loops do not give up. Nothing is assumed of locks
beyond that (a step under a lock is one step). In `tcp_progress` the device is
fair in reading and acknowledging, because the sender waits for it; that is the
peer's promise and not the host's, and the properties are not claimed without
it. In `usb_life` libusb ends every transfer that was cancelled or whose device is
unplugged, which is its contract; a transfer that is neither may stay for good,
and nobody has to connect, close, unplug or shut down. What is written to a client's
socket there is read or refused in the end, and a connection's loop ends once `~TCP`
has shut its socket down; otherwise the loop may stay in `poll`. `muxer` assumes a client
that accepts what is sent to it, as a blocking `send` does. In `client` peers are
free, and a device need not answer: the properties have the premise
`DevicesAnswer`. In `wifi` the calls of libimobiledevice return, the heartbeat
within its timeout of 15 seconds, so that a connected worker looks at its flags;
discovery, clients and the phone are free. In `discovery` nobody has to ask, come
or fail.

## 4. Where code and comments disagree

1. `mux_wrap`: `USBDevice.cpp:398` compares a truncated number with
   `txseq + size()`, which is not truncated. A receiver that had to wait with
   one of the last numbers before the wrap keeps waiting for good, and with it
   everybody behind. `USBDevice_receiver.cpp:26`: "Always re-submit transfer".
2. `muxer_race`: `Muxer.cpp:132`, two `add_device` calls take the same number.
   `Muxer.cpp:131`: "assign it a fresh ID".
3. `tcp_stale`: `TCP.cpp:339`, two pure acknowledgements carry the same sequence
   number, so either may be applied last; the older window stays. `TCP.cpp:205`:
   "we *have to* wait for an ACK". With one receiver at a time it cannot happen
   (`AloneWaitsForTheDevice`).

More was seen that no comment contradicts, and is kept as hazards or premises: a
pure acknowledgement overtaken by the payload that follows it waits for a number
that is past (`TCP.cpp:331`); the id of a device that left is given away before
the clients have been told (`Muxer.cpp:189`); payload that arrives before
`TCP.cpp:411` goes to descriptor -1 and kills a connection whose client is well
(`TCP.cpp:383`); an unplugged device may stay for good, for the transfer in a
receiver's hands (`USBDevice_receiver.cpp:28`) or for the lock of a sender that threw
(`TCP.cpp:238`); a port that is posted twice closes a later connection
(`USBDevice.cpp:223`); a phone paired again just when its old device goes may stay
unlisted (`WIFIDeviceManager-avahi.cpp:289`); what `raced` and the other premises of
`WifiDiscovery` exclude.

## 5. What is proved

All proofs are for every value of the constants that meets the named assumptions
(`ReceiversAssumption`, `SeqModAssumption`, `BoundsAssumption`,
`MuxerAssumption`, `ThreadsAssumption`, `SizesAssumption`, ...), unlike the runs.
Where the code relies on calls that do not meet and nothing keeps them apart, a
theorem has that as its premise, in the open: it says what the missing lock or
order would have to give.

**MuxRxProofs.** `TypeCorrect`: types, in particular `rx_seq < SeqMod`.
`TransfersStayConserved`: each transfer has one owner, for any set of receivers.
`InOrder`, `NoFreshPacketDropped` and `ImplementsLink` need `MaxDup = 0`: with
fewer receivers than sequence numbers and no repetition by the device, packets
are taken over in order across every wrap, none is thrown away, and every step is
a step of `MuxLink` or leaves its state alone. Order alone is not inductive: that
the expected number denotes *the* next packet needs `OrderInv`: what left the
queue and was not taken over is held by distinct receivers (`PendingDistinct`)
and is exactly what lies between the packets taken over and those still queued
(`PendingInRange`, `PendingCounted`). So there are at most `N` of them, and with
`N < SeqMod` equal numbers modulo `SeqMod` mean equal packets.
(With repetitions the claim fails by design: a repeated packet old enough has the
number of a new one.)
`SleepersWait`: a receiver that sleeps has an older packet to wait for. It needs
`MaxDup = 0` and, since disagreement 1 is exactly its failure across the wrap,
`MaxPkts + N <= SeqMod`: all numbers the receivers can compare are below the
modulus. `SleepInv` says that no sleeper holds the next packet; who holds it never
waits (`NextNeverWaits`), and a packet that becomes the next wakes everybody.

**MuxerProofs**, for any number of devices, clients and calls. `TypeCorrect` has no
premise: numbers stay below `MaxId` because at most one is given out for each device
(`NumberInv`), so the wrap of `_newid` is never reached by fewer devices than that.
`IdsStaySound` needs `ChoicesApart` (at most one device between the lookup of its
number and its insertion, which disagreement 2 is the failure of) and `OneEach` (a
phone has one connection of a type at a time). `IdInv` and `PhoneInv` say that
numbers are phones and ids are numbers with the type of the connection, also of the
device that has picked its number and is not inserted yet. That the walk over the
device list finds a number nobody has is `FreshNumber`, from `ScanResult`, what one
pass computes: the pass is a recursive function, and its value at the end of the
list follows from a least position where it would go wrong (`LeastNat`), an
induction without an operator as parameter.
`ViewsStayExact` needs `Orderly`: one `add_device` at a time, while no other device
leaves, and a device leaves after its `add_device` returned. A device may be taken
out by several calls at once. The view is exact only when nothing is under way; in
between, `KnownInv` says that a device a listening client does not know of is
still due to be announced to it, by a notification or in the answer to its
request, and `GoneInv` that what it knows and is gone will be reported. `CallInv`
adds that nobody has the id of a device that is leaving, without which a late
notification takes a newer device away.
`BoundsSuffice` ties the premises to the run: `AddsAlone` without `EarlyDelete`, and
one removal for a device, make the calls orderly, so the `muxer` run checks
properties under premises that are theorems there.

**TCPProofs.** `TypeCorrect`; `WindowRespected`: the host never sends past the end
of the device's buffer; `NoLostWakeup`: a sender that sleeps has a full window.
The first two support each other: windows are natural numbers only because the
device's data fits its buffer. The window property is not inductive; the
strengthening `WindowInv` says that *every* offer made so far, on the wire, in a
receiver's hands or in `_stx`, ends within the device's buffer, whose end only
moves forward. This is why it does not matter in which order acknowledgements
are handled (and disagreement 3 is about progress only). `PhaseInv` ties the phases of
the threads to the connection, and `SleepInv` says that a ticket of the sender
means it is asleep on a full window: whatever opens the window notifies.
`StreamDelivered`: the client gets the device's payload in order, each piece once,
and without a gap unless a send failed. `StreamInv` says where payload is that was
accepted and not forwarded: each piece with one receiver (`HeldInv`), and who sleeps
there has no turn yet (`WaitInv`). `TurnsNotMissed` and
`AnswerNotMissed` are about sleeping: no receiver sleeps through its turn, and
`connect()` does not sleep when its answer, a refusal or the end is there.
`AloneWaitsForTheDevice` and `OneReceiverWaits` are the other half of disagreement 3:
if one receiver at a time handles packets of the connection (`HandledAlone`), or
there is only one, then a sender that sleeps with nothing on its way has filled the
device's buffer. So overtaking is the only cause. `SoloInv` says of the packets that
are still to be handled that each is the next one when it is looked at (`InTurnInv`),
and that the last of them offers what the device announced last (`LastWordInv`). The
device's buffer is larger than one byte: the unit of its window is 256.

**UsbDeviceProofs**, from `UsbAssumption`, for any number of receivers, clients
and ports. `TypeCorrect`; `DestroyedUnused`: once the destructor may run nothing
is in use, and nobody gets at the device again; `ReaperNeverJoinsItself`: unless a
client is `TooLate`, the connection reaper never drops the last reference (the
destructor would join it). None is inductive. `HoldInv` ties a receiver that is busy to the transfer it
holds, which keeps the device. `Inserted` says that what has to do with a connection
has to do with one that was inserted under its port, `LoopInv` that somebody has the
connection of a loop that runs, so that no loop outlives it and uses the device.
`LifeInv` says that a reference only comes from one there is: an object that is
absent or being destroyed has none. `OpenInv` is what the last theorem needs: as long
as a connection is open the device is `Kept`, by a receive transfer, a queued
reference or the reaper that waits for the connection; a client that is `TooLate` is
who would open one when nothing of these is left.

**ClientProofs**, from `ClientAssumption` (finitely many clients) and
`NobodyAssumption`. `TypeCorrect`; `DescriptorsOwned`: a descriptor has one owner
at most and stays open under a loop that uses it, and while a loop runs somebody
else has a reference to its client. The property is nearly inductive: `OwnInv` adds
`Origin`, that before a client is accepted it has no object, no thread, no owner and
no reference, so that none of them appears again at its end.
`ImplementsClientLink`: under `Phase` every step is a step of `ClientLink` or leaves
its state alone, so each request has one answer or becomes a connection, and a
socket ends once. It rests on `OwnInv`: only of a client whose loop runs with its own
open socket is an answer an answer, and the socket that is closed is one that was
open and not handed over.

**WifiSessionProofs**, from `SessionAssumption`, for any number of clients, sessions,
updates and references. `TypeCorrect` without a condition; `NeverCrashes` and
`KeepsUpToDate` as long as calls of a session do not meet and none comes late
(`raced = {}`); `StopsForGood` with any number of late calls. The first two need each
other, and none is inductive. `Sound` says: until
`deconstruct()` there is one session and it is the device's (`Together`); from then
on the device has none, and what still runs is the reaper's (`Apart`); at most one
thread is inside a call (`Exclusive`); who joins has a worker and who makes one has
none (`Joining`); a version on its way to the session is the device's (`Telling`,
`Told`). For `StopsForGood` the same holds up to the first late call, and what is left
then is weaker and kept by every further call: `Parted` says that the device has no
session or a late one, that nobody but the reaper is inside a call that starts or
stops an older one, and that only what the reaper is about to join still runs. Nothing
in the code keeps calls apart: the theorems say exactly what the missing lock would
have to give.

**WifiDiscoveryProofs**, from `DiscoveryAssumption` and `RecordsAssumption`, for any
number of phones, clients, requests and faults. `TypeCorrect`, in particular that
only the holder of the lock fills the table; `TableIsComplete`. `KeepInv` is about a
table that is being filled: a record changed meanwhile has a client that waits to
fill it again, and what was not read yet is not in the table, so that nothing of an
older filling survives. `DeletedStayUnlisted`: once whoever deleted a record is through, its
phone's device is not listed, or is queued for the reaper and will not be looked for
again, as long as no record is deleted while the loop is about a phone
(`RemovalsApart`). `UnlistedInv` says who still answers for such a phone: its address
is in the table only until the deleting client fills it again, its device stays only
until that client has told it to go (`DeletedInv`), which may be another device than
the one listed now (`TellsOf`), and the loop adds or keeps only phones that have a
record (`AddInv`). `DevicesOK` gives that a phone has one listed device, and that the
one the reaper has deleted is not listed again.

**Model-checked only.** Every safety invariant and action property of the passing runs
is proved. The liveness properties are not, as their proofs rest on fairness and
`ENABLED`, which are beyond this prover: `EveryPacketAccepted`, `CallsReturn`,
`ChunkSent`, `ConnectReturns`, `DeconstructReturns`, `KilledDeviceDies`, `ShutdownEnds`,
`RefreshAnswered`, `RequestAnswered`, `LeaverDies`, `PairedPhoneFound`, `StopEnds`. For
some of them the proofs give the part that is safety: no sender, receiver or
`connect()` sleeps through what it waits for.

## 6. What is not modelled

* In the modules above: the mux v1 link, the version handshake and
  exceptions of `send_packet` in `MuxRx` and `TCP` (`UsbDevice` has both), the
  control protocol (it logs), the gathering code of `USBDevice.cpp:412-441` (never
  reached, line 390 rejects first), `TCP::flush_data` (never called), the ring of
  `_payloadBuf`, unexpected poll events, `notify_device_paired` and the lists sent
  on request, the contents of requests.
* Several USB devices at once: the key of `_constructing`
  (`USBDeviceManager.cpp:330`) and a device that comes back on its address.
* The mDNSResponder back end of discovery, an alternative to avahi at build time
  with a loop of its own.
* Main: one thread that starts the managers and deletes them in a fixed order.
  That order is the reason for the premise of `Client`'s `ShutdownEnds`. A lost
  signal and the race of two starting instances for the lock file are hazards.
* The configuration apart from pair records: values are read, changed and written
  without a lock (a hazard), with nothing else that depends on them.
* Preflight, logging, option parsing, the protocol header: no state of their own,
  or no behaviour.

Libraries (libgeneral, libusb, avahi, libimobiledevice) are modelled by how the
code uses them. What would come next: two USB devices, with the one reaper they
share, and the acknowledgement that is held back (`TCP.cpp:342`).
