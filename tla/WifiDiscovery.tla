---------------------------- MODULE WifiDiscovery ----------------------------
(***************************************************************************)
(* The discovery of phones on the network with avahi, and the pair records *)
(* that say which of them are known.                                       *)
(*                                                                         *)
(* Threads: discovery's loop, on which avahi also runs its callbacks; the  *)
(* clients that save and delete records and ask for a refresh; the reaper  *)
(* of wifi devices; the manager's destructor. Everybody who wants the loop *)
(* to look again makes it leave the poll object, whose pointer it reads    *)
(* while the loop may be replacing the object.                             *)
(*                                                                         *)
(* A phone has one address. Avahi and the network are modelled from how    *)
(* the callbacks use them: a browser reports every service that is there   *)
(* once, a resolver fails only for one that left, and the poll loop ends   *)
(* after a quit, however long ago, or a failure, never with 0 (so that     *)
(* _shouldRestart makes no difference).                                    *)
(***************************************************************************)
EXTENDS PairRecords, Integers, Sequences

CONSTANTS
  Clients,             \* threads with requests
  loop, reaper, dtor,  \* the other threads
  Near,                \* phones that may come to the network; the records of the
                       \* others stay as they are
  Pairable,            \* phones with a pairing service
  MaxJobs,             \* bound: requests of the clients
  MaxFaults            \* bound: devices that are lost, failures of avahi's server, and
                       \* services that leave

ASSUME DiscoveryAssumption ==
  /\ loop # reaper /\ loop # dtor /\ reaper # dtor
  /\ {loop, reaper, dtor} \cap Clients = {}
  /\ Threads = {loop, reaper, dtor} \cup Clients
  /\ Near \subseteq Phones /\ Pairable \subseteq Near
  /\ {MaxJobs, MaxFaults} \subseteq Nat

VARIABLES
  th,        \* the threads
  poll,      \* _simple_poll: "none", without a client or a browser ("bare"), "full"
  quit,      \* quit was called on it
  stopping,  \* _isStopping
  net,       \* services that are announced
  found,     \* those that the browsers have reported and nobody has resolved
  made,      \* number of WIFIDevices made for each phone; one is <<phone, number>>
  listed,    \* those that the muxer lists
  quiet,     \* those without _rediscoverOnDestruct
  queue,     \* _reapDevices, with the one the reaper works on
  pairing,   \* phones whose pairing service is listed
  jobs,      \* number of requests so far
  faults,    \* number of faults so far
  crashed    \* a freed poll object was used, or a table that was changing

env == <<net, jobs, faults>>
avahi == <<poll, quit, found>>
devices == <<made, listed, quiet, queue, pairing>>
vars == <<records, th, avahi, stopping, devices, env, crashed>>

Services == (Near \X {"phone"}) \cup (Pairable \X {"pair"})
Jobs == {"save", "remove", "refresh", "none"}

\* Where the thread is, the phone it is about and the number of the device it got
\* from the muxer, what the client asked for, and if what the thread has (the
\* pointer, the file) was taken away meanwhile.
Thread ==
  [at : {"idle", "write", "lock", "load", "unpair", "forget", "ask", "quit", "join",
         "done", "make", "poll", "find", "add", "again", "free", "ended", "test"},
   ph : Phones \cup {Nobody}, n : Nat, job : Jobs, stale : BOOLEAN]

Init ==
  /\ RecordsInit
  /\ th = [t \in Threads |-> [at |-> IF t = loop THEN "poll" ELSE "idle",
                              ph |-> Nobody, n |-> 0, job |-> "none", stale |-> FALSE]]
  /\ poll = "full" /\ quit = FALSE /\ found = {}
  /\ stopping = FALSE
  /\ made = [p \in Phones |-> 0]
  /\ listed = {} /\ quiet = {} /\ queue = << >> /\ pairing = {}
  /\ net = {} /\ jobs = 0 /\ faults = 0
  /\ crashed = FALSE

-----------------------------------------------------------------------------
At(t, place) == ~crashed /\ th[t].at = place
To(t, place) == th' = [th EXCEPT ![t].at = place]
Phone(t) == th[t].ph

\* The device that the thread got from the muxer.
InHand(t) == <<th[t].ph, th[t].n>>

\* The phone's device in the muxer, of which there is one at most.
Listed(p) == {d \in listed : d[1] = p}

\* get_wifi_device_with_serial: the thread goes on with what it found.
Got(t, place) ==
  \E d \in Listed(Phone(t)) :
    th' = [th EXCEPT ![t].at = place, ![t].n = d[2]]

\* Back to the thread's own business.
Returns(t) == th' = [th EXCEPT ![t] = [at |-> IF t = loop THEN "poll" ELSE "idle",
                                       ph |-> Nobody, n |-> 0, job |-> "none", stale |-> FALSE]]

-----------------------------------------------------------------------------
(* The clients' requests. *)

Begins(c, place, p, job) ==
  /\ At(c, "idle") /\ ~stopping /\ jobs < MaxJobs
  /\ jobs' = jobs + 1
  /\ th' = [th EXCEPT ![c] = [at |-> place, ph |-> p, n |-> 0, job |-> job, stale |-> FALSE]]
  /\ UNCHANGED <<avahi, stopping, devices, net, faults, crashed>>

\* SavePairRecord
Save(c, p) == Begins(c, "write", p, "save") /\ Truncate(p)

\* The file is written; or not, and the client's loop ends.
Written(c) ==
  /\ At(c, "write")
  /\ WriteOut(Phone(c), th[c].stale)
  /\ th' = [th EXCEPT ![c].at = "lock", ![c].stale = FALSE]
  /\ UNCHANGED <<avahi, stopping, devices, env, crashed>>

WriteFails(c) ==
  /\ At(c, "write")
  /\ Returns(c)
  /\ UNCHANGED <<records, avahi, stopping, devices, env, crashed>>

\* DeletePairRecord. Whoever writes the file at this moment writes to nowhere.
Remove(c, p) ==
  /\ At(c, "idle") /\ ~stopping /\ jobs < MaxJobs
  /\ Unlink(p)
  /\ jobs' = jobs + 1
  /\ th' = [t \in Threads |->
             CASE t = c -> [at |-> "lock", ph |-> p, n |-> 0, job |-> "remove", stale |-> FALSE]
               [] t # c /\ th[t].at = "write" /\ th[t].ph = p -> [th[t] EXCEPT !.stale = TRUE]
               [] OTHER -> th[t]]
  /\ UNCHANGED <<avahi, stopping, devices, net, faults, crashed>>

\* RefreshWifiDiscovery
Refresh(c) == Begins(c, "ask", Nobody, "refresh") /\ UNCHANGED records

\* Mutant: nobody is told of the new record.
AfterLoadQuiet(job) == IF job = "remove" THEN "unpair" ELSE IF job = "save" THEN "idle" ELSE "find"

\* What comes after the table is filled; for discovery's loop, the lookup.
AfterLoad(job) ==
  CASE job = "save" -> "ask" [] job = "remove" -> "unpair" [] OTHER -> "find"

\* The table is filled again, for a client or for discovery's loop.
Lock(t) ==
  /\ At(t, "lock")
  /\ LoadBegin(t)
  /\ To(t, "load")
  /\ UNCHANGED <<avahi, stopping, devices, env, crashed>>

Fill(t) ==
  /\ At(t, "load")
  /\ Load(t)
  /\ UNCHANGED <<th, avahi, stopping, devices, env, crashed>>

Unlock(t) ==
  /\ At(t, "load")
  /\ LoadEnd(t)
  /\ To(t, AfterLoad(th[t].job))
  /\ UNCHANGED <<avahi, stopping, devices, env, crashed>>

\* cleanup_wifi_device_after_unpair: the lookup,
Unpair(c) ==
  /\ At(c, "unpair")
  /\ Got(c, "forget") \/ (Listed(Phone(c)) = {} /\ Returns(c))
  /\ UNCHANGED <<records, avahi, stopping, devices, env, crashed>>

\* Mutant: the device is killed as if it had been lost.
QuietedNot(d) == quiet
Quieted(d) == quiet \cup {d}

\* setRediscoverOnDestruct(false) and kill(), if the device is listed still or not.
Forget(c) ==
  /\ At(c, "forget")
  /\ quiet' = Quieted(InHand(c))
  /\ queue' = Append(queue, InHand(c))
  /\ Returns(c)
  /\ UNCHANGED <<records, avahi, stopping, made, listed, pairing, env, crashed>>

-----------------------------------------------------------------------------
(* request_restart and stopAction *)

\* The pointer is read: there is no object and nothing to do, or there is one.
\* Requests end here when the manager is stopping.
Ask(t) ==
  /\ At(t, "ask")
  /\ IF poll = "none" \/ (stopping /\ t # dtor)
       THEN IF t = dtor THEN To(t, "join") ELSE Returns(t)
       ELSE To(t, "quit")
  /\ UNCHANGED <<records, avahi, stopping, devices, env, crashed>>

\* Mutant: only a loop that is in the poll object can be told.
QuitsNow(t) == th[loop].at = "poll"
Quits(t) == TRUE

Quit(t) ==
  /\ At(t, "quit")
  /\ IF th[t].stale
       THEN crashed' \in BOOLEAN /\ UNCHANGED quit
       ELSE quit' = (quit \/ Quits(t)) /\ UNCHANGED crashed
  /\ IF t = dtor THEN To(t, "join") ELSE Returns(t)
  /\ UNCHANGED <<records, poll, found, stopping, devices, env>>

\* ~WIFIDeviceManager, when the client manager is gone,
Stop ==
  /\ At(dtor, "idle")
  /\ \A c \in Clients : At(c, "idle")
  /\ stopping' = TRUE
  /\ To(dtor, "ask")
  /\ UNCHANGED <<records, avahi, devices, env, crashed>>

\* waits for the loop.
Join ==
  /\ At(dtor, "join") /\ At(loop, "ended")
  /\ To(dtor, "done")
  /\ UNCHANGED <<records, avahi, stopping, devices, env, crashed>>

-----------------------------------------------------------------------------
(* The reaper: WIFIDevice::deconstruct *)

\* The session was stopped (WifiSession), and the muxer forgets the device.
Reap ==
  /\ At(reaper, "idle") /\ queue # << >>
  /\ listed' = listed \ {Head(queue)}
  /\ To(reaper, "test")
  /\ UNCHANGED <<records, avahi, stopping, made, quiet, queue, pairing, env, crashed>>

\* request_device_rediscovery, if that is to be.
Test ==
  /\ At(reaper, "test")
  /\ To(reaper, IF Head(queue) \in quiet THEN "idle" ELSE "ask")
  /\ queue' = Tail(queue)
  /\ UNCHANGED <<records, avahi, stopping, made, listed, quiet, pairing, env, crashed>>

-----------------------------------------------------------------------------
(* loopEvent *)

\* init_avahi: all of it, or not all of it; then loopEvent sleeps, and polls what
\* there is. Nothing is polled if not even the poll object could be made, until
\* the next try.
Make ==
  /\ At(loop, "make")
  /\ \/ poll' = "full" /\ found' = net /\ To(loop, "poll")
     \/ poll' = "bare" /\ found' = {} /\ To(loop, IF stopping THEN "ended" ELSE "poll")
  /\ quit' = FALSE
  /\ UNCHANGED <<records, stopping, devices, env, crashed>>

MakeFails ==
  /\ At(loop, "make") /\ stopping
  /\ To(loop, "ended")
  /\ UNCHANGED <<records, avahi, stopping, devices, env, crashed>>

\* Mutant: the loop does not look if the manager stops.
AfterPollAgain == "free"
AfterPoll == IF stopping THEN "ended" ELSE "free"

PollEnds ==
  /\ At(loop, "poll") /\ quit
  /\ To(loop, AfterPoll)
  /\ UNCHANGED <<records, avahi, stopping, devices, env, crashed>>

\* cleanup_avahi: whoever has the pointer has it no more. (Reading it between the
\* free and the NULL is no different from reading it before.)
Free ==
  /\ At(loop, "free")
  /\ poll' = "none" /\ found' = {}
  /\ th' = [t \in Threads |->
             CASE t = loop -> [th[t] EXCEPT !.at = "make"]
               [] th[t].at = "quit" -> [th[t] EXCEPT !.stale = TRUE]
               [] OTHER -> th[t]]
  /\ UNCHANGED <<records, quit, stopping, devices, env, crashed>>

-----------------------------------------------------------------------------
(* The callbacks *)

\* avahi_resolve_callback of a phone: sysconf_udid_for_macaddr fills an empty table
\* first
Found(p) ==
  /\ At(loop, "poll") /\ <<p, "phone">> \in found
  /\ found' = found \ {<<p, "phone">>}
  /\ th' = [th EXCEPT ![loop].at = IF cache = {} THEN "lock" ELSE "find", ![loop].ph = p]
  /\ UNCHANGED <<records, poll, quit, stopping, devices, env, crashed>>

\* and looks into it. While somebody fills it, an entry that is there may not be
\* seen, and the map may be walked into nowhere.
Find ==
  /\ At(loop, "find")
  /\ \/ Phone(loop) \in cache /\ To(loop, "add")
     \/ (Phone(loop) \notin cache \/ holder # Nobody) /\ Returns(loop)
  /\ crashed' \in IF holder = Nobody THEN {FALSE} ELSE BOOLEAN
  /\ UNCHANGED <<records, avahi, stopping, devices, env>>

\* The rest: there is a device, or the pairing service makes room for a new one.
Add ==
  /\ At(loop, "add")
  /\ LET p == Phone(loop)
         d == <<p, made[p] + 1>> IN
       \/ Got(loop, "again") /\ UNCHANGED devices
       \/ /\ Listed(p) = {}
          /\ made' = [made EXCEPT ![p] = @ + 1]
          /\ listed' = listed \cup {d}
          /\ pairing' = pairing \ {p}
          /\ Returns(loop)
          /\ UNCHANGED <<quiet, queue>>
  /\ UNCHANGED <<records, avahi, stopping, env, crashed>>

\* The device that there is, or was a moment ago, gets the new address and
\* setRediscoverOnDestruct(true).
Again ==
  /\ At(loop, "again")
  /\ quiet' = quiet \ {InHand(loop)}
  /\ Returns(loop)
  /\ UNCHANGED <<records, avahi, stopping, made, listed, queue, pairing, env, crashed>>

\* avahi_resolve_callback of a pairing service: not for an address that is listed.
FoundPairing(p) ==
  /\ At(loop, "poll") /\ <<p, "pair">> \in found
  /\ found' = found \ {<<p, "pair">>}
  /\ pairing' = IF Listed(p) = {} THEN pairing \cup {p} ELSE pairing
  /\ UNCHANGED <<records, th, poll, quit, stopping, made, listed, quiet, queue, env, crashed>>

ResolveFails(s) ==
  /\ At(loop, "poll") /\ s \in found \ net
  /\ found' = found \ {s}
  /\ UNCHANGED <<records, th, poll, quit, stopping, devices, env, crashed>>

\* Services come and go. AVAHI_BROWSER_REMOVE matters for a pairing service.
Announced(s) ==
  /\ ~crashed /\ s \notin net
  /\ net' = net \cup {s}
  /\ found' = IF poll = "full" THEN found \cup {s} ELSE found
  /\ UNCHANGED <<records, th, poll, quit, stopping, devices, jobs, faults, crashed>>

Withdrawn(s) ==
  /\ At(loop, "poll") /\ s \in net /\ faults < MaxFaults
  /\ faults' = faults + 1
  /\ net' = net \ {s}
  /\ pairing' = IF poll = "full" /\ s[2] = "pair" THEN pairing \ {s[1]} ELSE pairing
  /\ UNCHANGED <<records, th, avahi, stopping, made, listed, quiet, queue, jobs, crashed>>

\* avahi_client_callback, avahi_browse_callback: the server is gone.
ServerFails ==
  /\ At(loop, "poll") /\ poll = "full" /\ faults < MaxFaults
  /\ faults' = faults + 1
  /\ quit' = TRUE /\ found' = {}
  /\ UNCHANGED <<records, th, poll, stopping, devices, net, jobs, crashed>>

\* A session that fails kills its device (WifiSession).
DeviceLost(p) ==
  /\ ~crashed /\ faults < MaxFaults
  /\ faults' = faults + 1
  /\ \E d \in Listed(p) : queue' = Append(queue, d)
  /\ UNCHANGED <<records, th, avahi, stopping, made, listed, quiet, pairing, net, jobs,
                 crashed>>

-----------------------------------------------------------------------------
Reload(t) == Lock(t) \/ Fill(t) \/ Unlock(t)
Client(c) ==
  Written(c) \/ WriteFails(c) \/ Reload(c) \/ Unpair(c) \/ Forget(c) \/ Ask(c) \/ Quit(c)
Reaper == Reap \/ Test \/ Ask(reaper) \/ Quit(reaper)
Destructor == Ask(dtor) \/ Quit(dtor) \/ Join
Loop ==
  \/ Make \/ MakeFails \/ PollEnds \/ Free
  \/ Reload(loop) \/ Find \/ Add \/ Again
  \/ \E p \in Near : Found(p) \/ FoundPairing(p)
  \/ \E s \in Services : ResolveFails(s)

Next ==
  \/ \E c \in Clients :
       \/ Client(c) \/ Refresh(c)
       \/ \E p \in Near : Save(c, p) \/ Remove(c, p)
  \/ Reaper \/ Destructor \/ Stop \/ Loop \/ ServerFails
  \/ \E s \in Services : Announced(s) \/ Withdrawn(s)
  \/ \E p \in Near : DeviceLost(p)

Spec == Init /\ [][Next]_vars

\* The threads go on. Clients need not ask for anything, phones need not come, and
\* nothing has to fail.
Fairness ==
  /\ \A c \in Clients : WF_vars(Client(c))
  /\ WF_vars(Reaper) /\ WF_vars(Destructor) /\ WF_vars(Loop)

FairSpec == Spec /\ Fairness

-----------------------------------------------------------------------------
\* The types; who fills the table has the lock.
TypeOK ==
  /\ RecordsTypeOK
  /\ th \in [Threads -> Thread]
  /\ poll \in {"none", "bare", "full"} /\ {quit, stopping, crashed} \subseteq BOOLEAN
  /\ net \subseteq Services /\ found \subseteq Services
  /\ made \in [Phones -> Nat] /\ pairing \subseteq Phones
  /\ listed \subseteq Phones \X Nat /\ quiet \subseteq Phones \X Nat
  /\ queue \in Seq(Phones \X Nat)
  /\ jobs \in 0 .. MaxJobs /\ faults \in 0 .. MaxFaults
  /\ \A t \in Threads : th[t].at = "load" <=> holder = t

\* Somebody has yet to put a change of the record into the table.
Changing(p) == \E c \in Clients : th[c].at \in {"write", "lock"} /\ th[c].ph = p

\* When nobody fills the table, it has every record whose change is complete, or is
\* empty and will be filled, and no record that was removed.
TableComplete ==
  holder = Nobody =>
    \A p \in Phones : ~Changing(p) =>
      /\ file[p] = "whole" => p \in cache \/ cache = {}
      /\ file[p] = "none" => p \notin cache

\* Premise: nobody deletes a record while discovery looks one up.
Removing == \E c \in Clients : th[c].job = "remove"
RemovalsApart == [](th[loop].at \in {"lock", "load", "find", "add", "again"} => ~Removing)

Queued(d) == \E i \in DOMAIN queue : queue[i] = d

\* Once a phone's record was deleted, it is not listed any more or will not be when
\* the reaper gets to it, which then does not look for it.
UnpairedUnlisted ==
  RemovalsApart =>
    [](\A p \in Phones :
         file[p] = "none" /\ (\A c \in Clients : th[c].ph # p) =>
           \A d \in Listed(p) : d \in quiet /\ Queued(d))

\* Whoever asks to look again, for a new pairing, a lost device or a client, gets
\* new browsers.
RequestAnswered ==
  (\E t \in Clients \cup {reaper} : th[t].at = "ask") ~>
    (th[loop].at = "make" \/ stopping \/ crashed)

\* Premise: avahi's server is there whenever browsers are made.
ServerReturns == [](poll # "bare")

\* Discovery found a device that was about to go for good, and tells it to have
\* itself looked for when it is gone already.
ToldTooLate ==
  /\ th[loop].at = "again"
  /\ InHand(loop) \in quiet \ listed /\ ~Queued(InHand(loop))

\* A paired phone on the network is found, whatever was asked, saved or lost before,
\* unless its former device is told too late.
PairedPhoneFound ==
  (RemovalsApart /\ ServerReturns /\ [](~ToldTooLate)) =>
    \A p \in Near :
      <>[](<<p, "phone">> \in net /\ file[p] = "whole" /\ ~stopping) =>
        []<>(crashed \/ \E d \in Listed(p) : ~Queued(d))

\* Premise: the manager is not destroyed while the loop replaces the poll object.
StopApart == [](th[dtor].at \in {"ask", "quit"} => th[loop].at \notin {"free", "make"})

\* The manager's destructor is not left waiting.
StopEnds == StopApart => (th[dtor].at = "ask" ~> (th[dtor].at = "done" \/ crashed))
=============================================================================
