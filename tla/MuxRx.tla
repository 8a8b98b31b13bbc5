-------------------------------- MODULE MuxRx --------------------------------
(***************************************************************************)
(* The receive path of one USB device on an established mux v2 link:       *)
(* USBDevice::device_data_input and the USBDevice_receiver threads that    *)
(* call it.                                                                *)
(*                                                                         *)
(* The device numbers its packets modulo SeqMod (2^16 in the code).        *)
(* Completed transfers are posted in order to _arrived_xfer; each receiver *)
(* thread takes the oldest one, puts it back into sequence under _usbLck,  *)
(* handles it with the lock released and submits the transfer again.       *)
(***************************************************************************)
EXTENDS Integers, Sequences, FiniteSets

CONSTANTS
  Receivers,  \* the receiver threads, one per entry of _rx_xfers
  SeqMod,     \* the sequence numbers are uint16_t: 65536
  MaxPkts,    \* bound: packets the device sends
  MaxDup,     \* bound: packets the device repeats
  Kinds       \* the kinds of transfer the device may send, see Packet

Whole == "whole"  \* one mux packet in one transfer
Torn  == "torn"   \* a transfer whose length is not the one in its mux header
Odd   == "odd"    \* a whole packet the protocol above rejects with an exception

ASSUME ReceiversAssumption ==
  /\ IsFiniteSet(Receivers)
  /\ Receivers # {}
ASSUME SeqModAssumption ==
  /\ SeqMod \in Nat
  /\ Cardinality(Receivers) < SeqMod
ASSUME KindsAssumption == Kinds \subseteq {Whole, Torn, Odd}
ASSUME BoundsAssumption == MaxPkts \in Nat /\ MaxDup \in Nat

VARIABLES
  sent,       \* packets the device has sent, not counting repetitions
  dups,       \* repetitions it has sent
  submitted,  \* transfers waiting inside libusb
  arrived,    \* _arrived_xfer: the packets of completed transfers, oldest first
  pc,         \* where each receiver is in loopEvent / device_data_input
  pkt,        \* the packet each receiver holds or held last
  rx_seq,     \* _muxdev.rx_seq
  sleeping,   \* receivers whose _data_in_event ticket is not notified yet
  accepted,   \* history: packet numbers in the order their sequence was taken
  dropped,    \* history: packet numbers discarded as duplicates
  kills       \* calls of kill(), which the reaper thread picks up

vars == <<sent, dups, submitted, arrived, pc, pkt, rx_seq, sleeping,
          accepted, dropped, kills>>

N == Cardinality(Receivers)  \* _rx_xfers.size()

Packet == [num : Nat, kind : {Whole, Torn, Odd}]

\* v2.tx_seq as the device writes it into the mux header.
TxSeq(p) == p.num % SeqMod

\* Mutant: off by one.
NextSeqSkipsOne == (rx_seq + 2) % SeqMod

\* (uint16_t)(_muxdev.rx_seq + 1)
NextSeq == (rx_seq + 1) % SeqMod

\* Mutant: a packet next but one is not waited for.
WaitsForGapsOfTwo(txseq) == NextSeq + 1 < txseq

\* The condition of the inner loop. The right hand side of the second
\* comparison is not truncated to 16 bits: txseq + size() is a size_t.
MustWait(txseq) ==
  \/ NextSeq < txseq
  \/ (rx_seq + 1 + N) % SeqMod < txseq + N

-----------------------------------------------------------------------------
Init ==
  /\ sent = 0
  /\ dups = 0
  /\ submitted = N
  /\ arrived = << >>
  /\ pc = [r \in Receivers |-> "idle"]
  /\ pkt = [r \in Receivers |-> [num |-> 0, kind |-> Whole]]
  /\ rx_seq = SeqMod - 1       \* send_packet(MUX_PROTO_SETUP) stores 0xffff
  /\ sleeping = {}
  /\ accepted = << >>
  /\ dropped = {}
  /\ kills = 0

\* The device fills the next transfer, whose callback posts it.
DeviceSend(kind) ==
  /\ submitted > 0
  /\ sent < MaxPkts
  /\ submitted' = submitted - 1
  /\ arrived' = Append(arrived, [num |-> sent, kind |-> kind])
  /\ sent' = sent + 1
  /\ UNCHANGED <<dups, pc, pkt, rx_seq, sleeping, accepted, dropped, kills>>

\* The device repeats a packet it has sent before.
DeviceRepeat(num) ==
  /\ submitted > 0
  /\ dups < MaxDup
  /\ num < sent
  /\ submitted' = submitted - 1
  /\ arrived' = Append(arrived, [num |-> num, kind |-> Whole])
  /\ dups' = dups + 1
  /\ UNCHANGED <<sent, pc, pkt, rx_seq, sleeping, accepted, dropped, kills>>

\* _arrived_xfer.wait() returns the oldest completed transfer.
Arrive(r) ==
  /\ pc[r] = "idle"
  /\ arrived # << >>
  /\ arrived' = Tail(arrived)
  /\ pkt' = [pkt EXCEPT ![r] = Head(arrived)]
  /\ pc' = [pc EXCEPT ![r] = "input"]
  /\ UNCHANGED <<sent, dups, submitted, rx_seq, sleeping, accepted, dropped,
                 kills>>

\* The length check comes before the sequence number is looked at. The
\* exception ends the loop of this receiver, after the transfer went back.
RejectLength(r) ==
  /\ pc[r] = "input"
  /\ pkt[r].kind = Torn
  /\ pc' = [pc EXCEPT ![r] = "ended"]
  /\ submitted' = submitted + 1
  /\ kills' = kills + 1
  /\ UNCHANGED <<sent, dups, arrived, pkt, rx_seq, sleeping, accepted, dropped>>

\* Holding _usbLck, the receiver sees whether it must wait: on entry only if
\* its packet is not the next one, after a wakeup by the loop condition alone.
Defers(r) ==
  \/ /\ pc[r] = "input"
     /\ pkt[r].kind # Torn
     /\ NextSeq # TxSeq(pkt[r])
     /\ MustWait(TxSeq(pkt[r]))
  \/ /\ pc[r] = "wait"
     /\ r \notin sleeping
     /\ MustWait(TxSeq(pkt[r]))

\* ... and whether it gets past the loop.
Proceeds(r) ==
  \/ /\ pc[r] = "input"
     /\ pkt[r].kind # Torn
     /\ NextSeq = TxSeq(pkt[r]) \/ ~MustWait(TxSeq(pkt[r]))
  \/ /\ pc[r] = "wait"
     /\ r \notin sleeping
     /\ ~MustWait(TxSeq(pkt[r]))

\* getNextEvent() under the lock, then unlock and waitForEvent().
Defer(r) ==
  /\ Defers(r)
  /\ pc' = [pc EXCEPT ![r] = "wait"]
  /\ sleeping' = sleeping \cup {r}
  /\ UNCHANGED <<sent, dups, submitted, arrived, pkt, rx_seq, accepted,
                 dropped, kills>>

\* Mutants: the counter is not truncated; nobody is notified.
AcceptUntruncated(r) ==
  /\ Proceeds(r)
  /\ NextSeq = TxSeq(pkt[r])
  /\ rx_seq' = rx_seq + 1
  /\ sleeping' = {}
  /\ pc' = [pc EXCEPT ![r] = "dispatch"]
  /\ accepted' = Append(accepted, pkt[r].num)
  /\ UNCHANGED <<sent, dups, submitted, arrived, pkt, dropped, kills>>

AcceptSilently(r) ==
  /\ Proceeds(r)
  /\ NextSeq = TxSeq(pkt[r])
  /\ rx_seq' = TxSeq(pkt[r])
  /\ pc' = [pc EXCEPT ![r] = "dispatch"]
  /\ accepted' = Append(accepted, pkt[r].num)
  /\ UNCHANGED <<sent, dups, submitted, arrived, pkt, sleeping, dropped, kills>>

\* The packet is the next one: take its number, notifyAll() on leaving scope.
Accept(r) ==
  /\ Proceeds(r)
  /\ NextSeq = TxSeq(pkt[r])
  /\ rx_seq' = TxSeq(pkt[r])
  /\ sleeping' = {}
  /\ pc' = [pc EXCEPT ![r] = "dispatch"]
  /\ accepted' = Append(accepted, pkt[r].num)
  /\ UNCHANGED <<sent, dups, submitted, arrived, pkt, dropped, kills>>

\* "Discarding duplicated MUX packet"; notifyAll() on leaving scope as well.
Discard(r) ==
  /\ Proceeds(r)
  /\ NextSeq # TxSeq(pkt[r])
  /\ sleeping' = {}
  /\ pc' = [pc EXCEPT ![r] = "idle"]
  /\ submitted' = submitted + 1
  /\ dropped' = dropped \cup {pkt[r].num}
  /\ UNCHANGED <<sent, dups, arrived, pkt, rx_seq, accepted, kills>>

\* The protocol switch, with the lock released; the handler returns.
Dispatch(r) ==
  /\ pc[r] = "dispatch"
  /\ pkt[r].kind = Whole
  /\ pc' = [pc EXCEPT ![r] = "idle"]
  /\ submitted' = submitted + 1
  /\ UNCHANGED <<sent, dups, arrived, pkt, rx_seq, sleeping, accepted, dropped,
                 kills>>

\* Mutant: the transfer is lost when the handler throws.
DispatchThrowsKeeping(r) ==
  /\ pc[r] = "dispatch"
  /\ pkt[r].kind = Odd
  /\ pc' = [pc EXCEPT ![r] = "ended"]
  /\ kills' = kills + 1
  /\ UNCHANGED <<sent, dups, submitted, arrived, pkt, rx_seq, sleeping, accepted,
                 dropped>>

\* The handler throws: submit the transfer, kill() the device, end the loop.
DispatchThrows(r) ==
  /\ pc[r] = "dispatch"
  /\ pkt[r].kind = Odd
  /\ pc' = [pc EXCEPT ![r] = "ended"]
  /\ submitted' = submitted + 1
  /\ kills' = kills + 1
  /\ UNCHANGED <<sent, dups, arrived, pkt, rx_seq, sleeping, accepted, dropped>>

\* One iteration of a receiver from _usbLck onwards.
Process(r) ==
  \/ RejectLength(r)
  \/ Defer(r)
  \/ Accept(r)
  \/ Discard(r)
  \/ Dispatch(r)
  \/ DispatchThrows(r)

Device ==
  \/ \E kind \in Kinds : DeviceSend(kind)
  \/ \E num \in 0 .. sent - 1 : DeviceRepeat(num)

Next ==
  \/ Device
  \/ \E r \in Receivers : Arrive(r) \/ Process(r)

Spec == Init /\ [][Next]_vars

\* Every receiver is a thread of its own: it does not stop while it has work,
\* and a notified one gets _usbLck again. The device promises nothing.
FairSpec == Spec /\ \A r \in Receivers : WF_vars(Arrive(r)) /\ WF_vars(Process(r))

-----------------------------------------------------------------------------
TypeOK ==
  /\ sent \in Nat
  /\ dups \in Nat
  /\ submitted \in Int
  /\ arrived \in Seq(Packet)
  /\ pc \in [Receivers -> {"idle", "input", "wait", "dispatch", "ended"}]
  /\ pkt \in [Receivers -> Packet]
  /\ rx_seq \in 0 .. SeqMod - 1
  /\ sleeping \subseteq Receivers
  /\ accepted \in Seq(Nat)
  /\ dropped \subseteq Nat
  /\ kills \in Nat

\* Packets are taken over in the order the device sent them, each of them
\* once, although the receivers race for _usbLck and the 16 bit sequence
\* number wraps (USBDevice.cpp:397-409).
AcceptedInOrder == \A i \in 1 .. Len(accepted) : accepted[i] = i - 1

\* What is thrown away as a duplicate (USBDevice.cpp:405-408) has been taken
\* over before: no packet is lost because it overtook an older one.
DroppedOnlyDuplicates == \A n \in dropped : n < Len(accepted)

\* Every transfer is inside libusb, in _arrived_xfer or with exactly one
\* receiver: none is lost and none is submitted twice, whatever path a
\* receiver takes out of device_data_input (USBDevice_receiver.cpp:24-37).
TransfersConserved ==
  submitted + Len(arrived)
    + Cardinality({r \in Receivers : pc[r] \notin {"idle", "ended"}}) = N

\* A receiver waits only for a packet that is still on its way: some older
\* packet than the one it holds has not been taken over
\* (USBDevice.cpp:398-403).
SleepersWaitForOlder ==
  \A r \in sleeping : \E n \in 0 .. pkt[r].num - 1 :
    n \notin {accepted[i] : i \in 1 .. Len(accepted)}

\* Every packet that arrives is taken over in the end.
EveryPacketAccepted ==
  \A n \in 0 .. MaxPkts - 1 :
    (sent > n) ~> (\E i \in 1 .. Len(accepted) : accepted[i] = n)

\* "Always re-submit transfer" (USBDevice_receiver.cpp:26): a receiver that
\* holds a transfer gives it back.
AlwaysResubmit ==
  \A r \in Receivers :
    (pc[r] = "input") ~> (pc[r] \in {"idle", "ended"})

\* The link the protocols see.
Link == INSTANCE MuxLink WITH sent <- sent, accepted <- accepted
LinkSpec == Link!Spec
=============================================================================
