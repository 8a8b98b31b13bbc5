------------------------ MODULE WifiDiscoveryProofs ------------------------
(***************************************************************************)
(* Proofs about WifiDiscovery, for any number of phones, clients, requests *)
(* and faults: types, that the table of addresses has what the pair        *)
(* records say, and that the phone of a deleted record is not listed.      *)
(***************************************************************************)
EXTENDS WifiDiscovery, TLAPS

-----------------------------------------------------------------------------
(* What the variables are that have nothing to do with records or devices. *)

EnvOK ==
  /\ poll \in {"none", "bare", "full"}
  /\ quit \in BOOLEAN /\ stopping \in BOOLEAN /\ crashed \in BOOLEAN
  /\ net \subseteq Services /\ found \subseteq Services
  /\ jobs \in 0 .. MaxJobs /\ faults \in 0 .. MaxFaults

\* The threads' steps keep it.
LEMMA EnvStep == EnvOK /\ [Next]_vars => EnvOK'
<1> SUFFICES ASSUME EnvOK, [Next]_vars PROVE EnvOK'
  OBVIOUS
<1> USE DEF EnvOK
<1>0. MaxJobs \in Nat /\ MaxFaults \in Nat /\ Near \subseteq Phones
  BY DiscoveryAssumption
<1>1. ASSUME NEW c \in Clients, NEW place, NEW p, NEW job, Begins(c, place, p, job) PROVE EnvOK'
  BY <1>0, <1>1 DEF Begins, avahi, devices
<1>2. ASSUME NEW c \in Clients, NEW p \in Near, Save(c, p) \/ Remove(c, p) PROVE EnvOK'
  <2>1. CASE Save(c, p)
    BY <1>1, <2>1 DEF Save
  <2>2. CASE Remove(c, p)
    BY <1>0, <2>2 DEF Remove, avahi, devices
  <2> QED
    BY <1>2, <2>1, <2>2
<1>3. ASSUME NEW c \in Clients, Refresh(c) PROVE EnvOK'
  BY <1>1, <1>3 DEF Refresh
<1>4. ASSUME NEW t, Written(t) \/ WriteFails(t) \/ Lock(t) \/ Fill(t) \/ Unlock(t) \/ Ask(t)
      PROVE  EnvOK'
  BY <1>4 DEF Written, WriteFails, Lock, Fill, Unlock, Ask, avahi, devices, env
<1>5. ASSUME NEW t, Quit(t) PROVE EnvOK'
  <2>1. quit' \in BOOLEAN
    BY <1>5 DEF Quit, Quits
  <2>2. crashed' \in BOOLEAN
    BY <1>5 DEF Quit
  <2> QED
    BY <1>5, <2>1, <2>2 DEF Quit, devices, env
<1>6. ASSUME NEW t, Unpair(t) \/ Forget(t) PROVE EnvOK'
  BY <1>6 DEF Unpair, Forget, avahi, env
<1>7. CASE Stop \/ Join \/ MakeFails \/ PollEnds \/ Free
  BY <1>7 DEF Stop, Join, MakeFails, PollEnds, Free, avahi, devices, env
<1>8. CASE Make
  BY <1>8 DEF Make, devices, env
<1>9. CASE Find
  BY <1>9 DEF Find, avahi, devices, env
<1>10. CASE Add \/ Again
  BY <1>10 DEF Add, Again, avahi, env
<1>11. ASSUME NEW p \in Near, Found(p) \/ FoundPairing(p) PROVE EnvOK'
  BY <1>0, <1>11 DEF Found, FoundPairing, devices, env
<1>12. ASSUME NEW s \in Services, ResolveFails(s) \/ Announced(s) PROVE EnvOK'
  BY <1>12 DEF ResolveFails, Announced, devices, env
<1>13. ASSUME NEW s \in Services, Withdrawn(s) PROVE EnvOK'
  BY <1>0, <1>13 DEF Withdrawn, avahi
<1>14. CASE ServerFails
  BY <1>0, <1>14 DEF ServerFails, devices
<1>15. ASSUME NEW p \in Near, DeviceLost(p) PROVE EnvOK'
  BY <1>0, <1>15 DEF DeviceLost, avahi
<1>16. CASE Reap \/ Test
  BY <1>16 DEF Reap, Test, avahi, env
<1>17. CASE UNCHANGED vars
  BY <1>17 DEF vars, avahi, devices, env
<1>18. ASSUME NEW c \in Clients, Client(c) PROVE EnvOK'
  BY <1>4, <1>5, <1>6, <1>18 DEF Client, Reload
<1>19. CASE Reaper \/ Destructor
  BY <1>4, <1>5, <1>7, <1>16, <1>19 DEF Reaper, Destructor
<1>20. CASE Loop
  BY <1>4, <1>7, <1>8, <1>9, <1>10, <1>11, <1>12, <1>20 DEF Loop, Reload
<1> QED
  BY <1>2, <1>3, <1>7, <1>12, <1>13, <1>14, <1>15, <1>17, <1>18, <1>19, <1>20 DEF Next

-----------------------------------------------------------------------------
(* Devices. *)

\* A device that was made: <<phone, number>>.
Known(d) == d \in Phones \X Nat /\ d[2] <= made[d[1]]

\* The muxer lists one device of a phone at most. A new device has a number that no
\* device had that is about. The device whose flag the reaper tests is not listed.
DevicesOK ==
  /\ made \in [Phones -> Nat] /\ pairing \subseteq Phones
  /\ quiet \subseteq Phones \X Nat /\ queue \in Seq(Phones \X Nat)
  /\ \A d \in listed : Known(d)
  /\ \A d, e \in listed : d[1] = e[1] => d = e
  /\ \A i \in DOMAIN queue : Known(queue[i])
  /\ \A t \in Threads : th[t].at \in {"forget", "again"} => Known(InHand(t))
  /\ th[loop].at = "add" => th[loop].ph \in Phones
  /\ th[reaper].at = "test" => queue # << >> /\ Head(queue) \notin listed

\* Where a thread has a device in hand, or is about to make one.
AboutDevices == {"add", "forget", "again", "test"}

\* Nobody begins to work with a device.
Calm ==
  \A t \in Threads :
    th'[t].at \in AboutDevices =>
      th'[t].at = th[t].at /\ th'[t].ph = th[t].ph /\ th'[t].n = th[t].n

LEMMA CalmDevices ==
  ASSUME DevicesOK, Calm, UNCHANGED <<made, listed, quiet, queue>>, pairing' \subseteq Phones
  PROVE  DevicesOK'
  BY DiscoveryAssumption DEF DevicesOK, Calm, AboutDevices, Known, InHand

\* One thread goes somewhere else.
LEMMA OneCalm ==
  ASSUME th \in [Threads -> Thread], NEW t \in Threads, NEW r,
         th' = [th EXCEPT ![t] = r], r.at \notin AboutDevices
  PROVE  Calm
  BY DEF Calm

LEMMA ToCalm ==
  ASSUME th \in [Threads -> Thread], NEW t \in Threads, NEW place,
         place \notin AboutDevices, To(t, place)
  PROVE  Calm
<1> DEFINE r == [th[t] EXCEPT !.at = place]
<1>1. th' = [th EXCEPT ![t] = r] /\ r.at = place
  BY DEF To, Thread
<1> HIDE DEF r
<1> QED
  BY <1>1, OneCalm

LEMMA ReturnsCalm ==
  ASSUME th \in [Threads -> Thread], NEW t \in Threads, Returns(t)
  PROVE  Calm
<1> DEFINE r == [at |-> IF t = loop THEN "poll" ELSE "idle", ph |-> Nobody, n |-> 0,
                 job |-> "none", stale |-> FALSE]
<1>1. th' = [th EXCEPT ![t] = r] /\ r.at \notin AboutDevices
  BY DEF Returns, AboutDevices
<1> HIDE DEF r
<1> QED
  BY <1>1, OneCalm

\* The steps of a thread that is not about a device.
LEMMA OthersDevices ==
  ASSUME DevicesOK, th \in [Threads -> Thread], NEW t \in Threads,
         \/ Written(t) \/ WriteFails(t) \/ Reload(t) \/ Ask(t) \/ Quit(t)
         \/ t = dtor /\ (Stop \/ Join)
         \/ t = loop /\ (Make \/ MakeFails \/ PollEnds)
         \/ t \in Clients /\ (Refresh(t) \/ \E p \in Near : Save(t, p))
         \/ t = loop /\ \E p \in Near : Found(p)
  PROVE  DevicesOK'
<1>1. UNCHANGED devices
  BY DEF Written, WriteFails, Reload, Lock, Fill, Unlock, Ask, Quit, Stop, Join, Make,
         MakeFails, PollEnds, Refresh, Save, Begins, Found
<1>2. CASE \E place : To(t, place) /\ place \notin AboutDevices
  BY <1>1, <1>2, ToCalm, CalmDevices DEF DevicesOK, devices
<1>3. CASE Returns(t)
  BY <1>1, <1>3, ReturnsCalm, CalmDevices DEF DevicesOK, devices
<1>4. CASE th' = th
  BY <1>1, <1>4, CalmDevices DEF Calm, DevicesOK, devices
<1>5. ASSUME NEW r, th' = [th EXCEPT ![t] = r], r.at \notin AboutDevices
      PROVE  DevicesOK'
  BY <1>1, <1>5, OneCalm, CalmDevices DEF DevicesOK, devices
<1>6. CASE Written(t)
  <2> DEFINE r == [th[t] EXCEPT !.at = "lock", !.stale = FALSE]
  <2>1. th' = [th EXCEPT ![t] = r]
    BY <1>6 DEF Written
  <2>2. r.at = "lock"
    BY DEF Thread
  <2> HIDE DEF r
  <2> QED
    BY <1>5, <2>1, <2>2 DEF AboutDevices
<1>7. ASSUME NEW place \in {"write", "ask"}, NEW p, NEW job, Begins(t, place, p, job)
      PROVE  DevicesOK'
  <2> DEFINE r == [at |-> place, ph |-> p, n |-> 0, job |-> job, stale |-> FALSE]
  <2>1. th' = [th EXCEPT ![t] = r] /\ r.at = place
    BY <1>7 DEF Begins
  <2> HIDE DEF r
  <2> QED
    BY <1>5, <2>1 DEF AboutDevices
<1>8. ASSUME t = loop, NEW p \in Near, Found(p) PROVE DevicesOK'
  <2> DEFINE place == IF cache = {} THEN "lock" ELSE "find"
             r == [th[t] EXCEPT !.at = place, !.ph = p]
  <2>1. th' = [th EXCEPT ![t] = r] /\ place \in {"lock", "find"}
    BY <1>8 DEF Found
  <2> HIDE DEF place
  <2>2. r.at = place
    BY DEF Thread
  <2> HIDE DEF r
  <2> QED
    BY <1>5, <2>1, <2>2 DEF AboutDevices
<1>9. CASE Reload(t)
  <2>1. th' = th \/ \E place \in {"load", "ask", "unpair", "find"} : To(t, place)
    BY <1>9 DEF Reload, Lock, Fill, Unlock, AfterLoad
  <2> QED
    BY <1>2, <1>4, <2>1 DEF AboutDevices
<1>10. CASE WriteFails(t) \/ Ask(t) \/ Quit(t)
  <2>1. Returns(t) \/ \E place \in {"join", "quit"} : To(t, place)
    BY <1>10 DEF WriteFails, Ask, Quit
  <2> QED
    BY <1>2, <1>3, <2>1 DEF AboutDevices
<1>11. CASE t = dtor /\ (Stop \/ Join)
  BY <1>2, <1>11 DEF Stop, Join, AboutDevices
<1>12. CASE t = loop /\ (Make \/ MakeFails \/ PollEnds)
  <2>1. \E place \in {"poll", "ended", "free"} : To(t, place)
    BY <1>12 DEF Make, MakeFails, PollEnds, AfterPoll
  <2> QED
    BY <1>2, <2>1 DEF AboutDevices
<1> QED
  BY <1>6, <1>7, <1>8, <1>9, <1>10, <1>11, <1>12 DEF Refresh, Save

\* A thread gets what the muxer lists.
LEMMA GotDevices ==
  ASSUME DevicesOK, th \in [Threads -> Thread], NEW t \in Threads,
         NEW place \in {"forget", "again"}, Got(t, place), UNCHANGED devices, t # reaper
  PROVE  DevicesOK'
<1>1. PICK d \in listed : d[1] = th[t].ph /\ th' = [th EXCEPT ![t].at = place, ![t].n = d[2]]
  BY DEF Got, Listed, Phone
<1>2. Known(d) /\ d = <<d[1], d[2]>>
  BY <1>1 DEF DevicesOK, Known
<1>3. th[t] \in Thread
  OBVIOUS
<1>4. th'[t].at = place /\ th'[t].ph = d[1] /\ th'[t].n = d[2]
  BY <1>1, <1>3 DEF Thread
<1>5. \A u \in Threads \ {t} : th'[u] = th[u]
  BY <1>1
<1>6. \A u \in Threads : th'[u].at \in {"forget", "again"} => Known(InHand(u))'
  BY <1>2, <1>4, <1>5 DEF DevicesOK, Known, InHand, devices
<1> QED
  BY <1>4, <1>5, <1>6, DiscoveryAssumption DEF DevicesOK, Known, devices

\* One more device is in the queue.
LEMMA PostDevices ==
  ASSUME DevicesOK, Calm, NEW d, Known(d), queue' = Append(queue, d),
         quiet' \subseteq Phones \X Nat, UNCHANGED <<made, listed, pairing>>
  PROVE  DevicesOK'
<1>1. queue \in Seq(Phones \X Nat) /\ d \in Phones \X Nat
  BY DEF DevicesOK, Known
<1>2. /\ queue' \in Seq(Phones \X Nat)
      /\ queue # << >> => queue' # << >> /\ Head(queue') = Head(queue)
      /\ \A i \in DOMAIN queue' : queue'[i] = d \/ (i \in DOMAIN queue /\ queue'[i] = queue[i])
  BY <1>1
<1>3. \A i \in DOMAIN queue' : Known(queue[i])'
  BY <1>2 DEF DevicesOK, Known
<1> QED
  BY <1>2, <1>3, DiscoveryAssumption DEF DevicesOK, Calm, AboutDevices, Known, InHand

\* Every step keeps it.
LEMMA DevicesStep ==
  ASSUME DevicesOK, th \in [Threads -> Thread], cache \subseteq Phones, [Next]_vars
  PROVE  DevicesOK'
<1>0. /\ Clients \subseteq Threads /\ loop \in Threads /\ reaper \in Threads /\ dtor \in Threads
      /\ loop \notin Clients /\ reaper \notin Clients /\ loop # reaper /\ Near \subseteq Phones
  BY DiscoveryAssumption
<1>1. ASSUME NEW c \in Clients, Unpair(c) PROVE DevicesOK'
  <2>1. Got(c, "forget") \/ Returns(c)
    BY <1>1 DEF Unpair
  <2>2. UNCHANGED devices
    BY <1>1 DEF Unpair
  <2> QED
    BY <1>0, <2>1, <2>2, GotDevices, ReturnsCalm, CalmDevices DEF DevicesOK, devices
<1>2. ASSUME NEW c \in Clients, Forget(c) PROVE DevicesOK'
  <2>1. Known(InHand(c))
    BY <1>0, <1>2 DEF Forget, At, DevicesOK
  <2>2. quiet' \subseteq Phones \X Nat
    BY <1>2, <2>1 DEF Forget, Quieted, DevicesOK, Known
  <2>3. Calm
    BY <1>0, <1>2, ReturnsCalm DEF Forget
  <2> QED
    BY <1>2, <2>1, <2>2, <2>3, PostDevices DEF Forget
<1>3. ASSUME NEW p \in Near, DeviceLost(p) PROVE DevicesOK'
  <2>1. PICK d \in Listed(p) : queue' = Append(queue, d)
    BY <1>3 DEF DeviceLost
  <2>2. Known(d)
    BY <2>1 DEF Listed, DevicesOK
  <2>3. Calm
    BY <1>3 DEF DeviceLost, Calm
  <2> QED
    BY <1>3, <2>1, <2>2, <2>3, PostDevices DEF DeviceLost, DevicesOK
<1>4. CASE Reap
  <2> DEFINE r == [th[reaper] EXCEPT !.at = "test"]
  <2>1. th' = [th EXCEPT ![reaper] = r]
    BY <1>4 DEF Reap, To
  <2>2. \A u \in Threads \ {reaper} : th'[u] = th[u]
    BY <2>1
  <2>3. th'[reaper].at = "test"
    BY <1>0, <2>1 DEF Thread
  <2>4. \A u \in Threads : th'[u].at \in {"forget", "again"} => Known(InHand(u))'
    BY <1>4, <2>2, <2>3 DEF DevicesOK, Known, InHand, Reap
  <2> QED
    BY <1>0, <1>4, <2>2, <2>3, <2>4 DEF DevicesOK, Known, Reap, At
<1>5. CASE Test
  <2>1. Calm
    <3>1. \E place \in {"idle", "ask"} : To(reaper, place)
      BY <1>5 DEF Test
    <3> QED
      BY <1>0, <3>1, ToCalm DEF AboutDevices
  <2>2. th[reaper].at = "test" /\ queue # << >> /\ queue' = Tail(queue)
    BY <1>5 DEF Test, At, DevicesOK
  <2>3. /\ queue' \in Seq(Phones \X Nat)
        /\ \A i \in DOMAIN queue' : i + 1 \in DOMAIN queue /\ queue'[i] = queue[i + 1]
    BY <2>2 DEF DevicesOK
  <2>4. \A i \in DOMAIN queue' : Known(queue[i])'
    BY <1>5, <2>3 DEF DevicesOK, Known, Test
  <2>5. th'[reaper].at # "test"
    <3> DEFINE r == [th[reaper] EXCEPT !.at = IF Head(queue) \in quiet THEN "idle" ELSE "ask"]
    <3>1. th' = [th EXCEPT ![reaper] = r]
      BY <1>5 DEF Test, To
    <3>2. r.at # "test"
      BY <1>0 DEF Thread
    <3> HIDE DEF r
    <3> QED
      BY <1>0, <3>1, <3>2
  <2>6. \A t \in Threads : th'[t].at \in {"forget", "again"} => Known(InHand(t))'
    BY <1>5, <2>1 DEF DevicesOK, Calm, AboutDevices, InHand, Known, Test
  <2> QED
    <3>1. /\ made' \in [Phones -> Nat] /\ pairing' \subseteq Phones
          /\ quiet' \subseteq Phones \X Nat
          /\ \A d \in listed' : Known(d)'
          /\ \A d, e \in listed' : d[1] = e[1] => d = e
      BY <1>5 DEF DevicesOK, Known, Test
    <3>2. th'[loop].at = "add" => th'[loop].ph \in Phones
      BY <1>0, <2>1 DEF DevicesOK, Calm, AboutDevices
    <3> QED
      BY <2>3, <2>4, <2>5, <2>6, <3>1, <3>2 DEF DevicesOK
<1>6. CASE Add
  <2>0. PICK p, d : p = Phone(loop) /\ d = <<p, made[p] + 1>>
    OBVIOUS
  <2>1. CASE Got(loop, "again") /\ UNCHANGED devices
    BY <1>0, <2>1, GotDevices
  <2>2. CASE ~(Got(loop, "again") /\ UNCHANGED devices)
    <3>1. /\ Listed(p) = {} /\ made' = [made EXCEPT ![p] = @ + 1]
          /\ listed' = listed \cup {d} /\ pairing' = pairing \ {p} /\ Returns(loop)
          /\ UNCHANGED <<quiet, queue>>
      BY <1>6, <2>0, <2>2 DEF Add
    <3>2. Calm
      BY <1>0, <3>1, ReturnsCalm
    <3>3. p \in Phones /\ made[p] \in Nat
      BY <1>6, <2>0 DEF Add, At, DevicesOK, Phone
    <3>4. /\ made' \in [Phones -> Nat] /\ made'[p] = made[p] + 1
          /\ \A q \in Phones : made[q] <= made'[q]
      BY <3>1, <3>3 DEF DevicesOK
    <3>5. \A e : Known(e) => Known(e)'
      BY <3>4 DEF Known, DevicesOK
    <3>6. Known(d)' /\ ~Known(d)
      <4>1. d[1] = p /\ d[2] = made[p] + 1 /\ d \in Phones \X Nat
        BY <2>0, <3>3
      <4> QED
        BY <3>3, <3>4, <4>1 DEF Known
    <3>7. /\ \A e \in listed' : Known(e)'
          /\ \A e, f \in listed' : e[1] = f[1] => e = f
      <4>1. \A e \in listed : e[1] # p
        BY <3>1 DEF Listed
      <4>2. d[1] = p
        BY <2>0
      <4>3. \A e \in listed' : e = d \/ e \in listed
        BY <3>1
      <4> QED
        BY <3>5, <3>6, <4>1, <4>2, <4>3 DEF DevicesOK
    <3>8. \A i \in DOMAIN queue' : Known(queue[i])'
      BY <3>1, <3>5 DEF DevicesOK
    <3>9. \A t \in Threads : th'[t].at \in {"forget", "again"} => Known(InHand(t))'
      BY <3>2, <3>5 DEF DevicesOK, Calm, AboutDevices, InHand, Known
    <3>10. th'[reaper].at = "test" => queue' # << >> /\ Head(queue') \notin listed'
      <4>1. ASSUME queue # << >> PROVE Known(Head(queue))
        BY <4>1 DEF DevicesOK
      <4> QED
        BY <1>0, <3>1, <3>2, <3>6, <4>1 DEF DevicesOK, Calm, AboutDevices
    <3>11. th'[loop].at = "add" => th'[loop].ph \in Phones
      BY <1>0, <3>2 DEF DevicesOK, Calm, AboutDevices
    <3>12. pairing' \subseteq Phones /\ quiet' \subseteq Phones \X Nat /\ queue' \in Seq(Phones \X Nat)
      BY <3>1 DEF DevicesOK
    <3> QED
      BY <3>4, <3>7, <3>8, <3>9, <3>10, <3>11, <3>12 DEF DevicesOK
  <2> QED
    BY <2>1, <2>2
<1>7. CASE Again
  <2>1. Calm
    BY <1>0, <1>7, ReturnsCalm DEF Again
  <2> QED
    BY <1>7, <2>1, DiscoveryAssumption DEF DevicesOK, Calm, AboutDevices, Known, InHand, Again
<1>8. CASE Free
  <2>1. ASSUME NEW t \in Threads, th'[t].at \in AboutDevices PROVE th'[t] = th[t]
    <3>1. th'[t] = CASE t = loop -> [th[t] EXCEPT !.at = "make"]
                     [] th[t].at = "quit" -> [th[t] EXCEPT !.stale = TRUE]
                     [] OTHER -> th[t]
      BY <1>8 DEF Free
    <3>2. th[t] \in Thread
      OBVIOUS
    <3>3. CASE t = loop
      BY <2>1, <3>1, <3>2, <3>3 DEF Thread, AboutDevices
    <3>4. CASE t # loop /\ th[t].at = "quit"
      <4>1. th'[t] = [th[t] EXCEPT !.stale = TRUE]
        BY <3>1, <3>4
      <4> QED
        BY <2>1, <3>2, <3>4, <4>1 DEF Thread, AboutDevices
    <3> QED
      BY <3>1, <3>3, <3>4
  <2>2. Calm
    BY <2>1 DEF Calm
  <2> QED
    BY <1>8, <2>2, CalmDevices DEF Free, DevicesOK, devices
<1>9. ASSUME NEW c \in Clients, NEW p \in Near, Remove(c, p) PROVE DevicesOK'
  <2>1. ASSUME NEW t \in Threads, th'[t].at \in AboutDevices PROVE th'[t] = th[t]
    <3>1. th'[t] =
            CASE t = c -> [at |-> "lock", ph |-> p, n |-> 0, job |-> "remove", stale |-> FALSE]
              [] t # c /\ th[t].at = "write" /\ th[t].ph = p -> [th[t] EXCEPT !.stale = TRUE]
              [] OTHER -> th[t]
      BY <1>9 DEF Remove
    <3>2. th[t] \in Thread
      OBVIOUS
    <3>3. CASE t = c
      BY <2>1, <3>1, <3>3 DEF AboutDevices
    <3>4. CASE t # c /\ th[t].at = "write" /\ th[t].ph = p
      <4>1. th'[t] = [th[t] EXCEPT !.stale = TRUE]
        BY <3>1, <3>4
      <4> QED
        BY <2>1, <3>2, <3>4, <4>1 DEF Thread, AboutDevices
    <3> QED
      BY <3>1, <3>3, <3>4
  <2>2. Calm
    BY <2>1 DEF Calm
  <2> QED
    BY <1>9, <2>2, CalmDevices DEF Remove, DevicesOK, devices
<1>10. CASE \/ \E p \in Near : FoundPairing(p)
            \/ \E s \in Services : ResolveFails(s) \/ Announced(s) \/ Withdrawn(s)
            \/ ServerFails \/ UNCHANGED vars
  <2>1. UNCHANGED <<th, made, listed, quiet, queue>> /\ pairing' \subseteq Phones
    BY <1>0, <1>10
    DEF DevicesOK, FoundPairing, ResolveFails, Announced, Withdrawn, ServerFails, vars, devices
  <2> QED
    BY <2>1, CalmDevices DEF Calm
<1>11. ASSUME NEW c \in Clients, Client(c) PROVE DevicesOK'
  BY <1>0, <1>1, <1>2, <1>11, OthersDevices DEF Client
<1>12. CASE Reaper \/ Destructor \/ Stop
  BY <1>0, <1>4, <1>5, <1>12, OthersDevices DEF Reaper, Destructor
<1>13. CASE Find
  <2>1. UNCHANGED devices
    BY <1>13 DEF Find
  <2>2. CASE Returns(loop)
    BY <1>0, <2>1, <2>2, ReturnsCalm, CalmDevices DEF DevicesOK, devices
  <2>3. CASE Phone(loop) \in cache /\ To(loop, "add")
    <3> DEFINE r == [th[loop] EXCEPT !.at = "add"]
    <3>1. th' = [th EXCEPT ![loop] = r] /\ r.at = "add" /\ r.ph \in Phones
      BY <1>0, <2>3 DEF To, Thread, Phone
    <3> HIDE DEF r
    <3>2. th'[loop] = r /\ \A t \in Threads \ {loop} : th'[t] = th[t]
      BY <1>0, <3>1
    <3> QED
      BY <1>0, <2>1, <3>1, <3>2 DEF DevicesOK, Known, InHand, devices
  <2> QED
    BY <1>13, <2>2, <2>3 DEF Find
<1>14. CASE Loop
  BY <1>0, <1>6, <1>7, <1>8, <1>10, <1>13, <1>14, OthersDevices DEF Loop
<1>15. ASSUME NEW c \in Clients, Refresh(c) \/ \E p \in Near : Save(c, p) PROVE DevicesOK'
  BY <1>0, <1>15, OthersDevices
<1> QED
  BY <1>3, <1>9, <1>10, <1>11, <1>12, <1>14, <1>15 DEF Next

-----------------------------------------------------------------------------
(* The inductive invariant about the records. *)

\* Somebody has yet to fill the table because of the record.
Unsettled(p) == \E c \in Clients : th[c].at = "lock" /\ th[c].ph = p

\* What the table has of a record agrees with the file.
Agrees(p) ==
  /\ file[p] = "whole" => p \in cache
  /\ file[p] = "none" => p \notin cache

\* What is not settled will be read again. While the table is filled it has nothing
\* of the files that are still to be read.
Filled ==
  \A p \in Phones :
    /\ holder # Nobody /\ p \in todo => p \notin cache
    /\ ~Unsettled(p) =>
         /\ holder = Nobody => Agrees(p) \/ cache = {}
         /\ holder # Nobody /\ p \notin todo => Agrees(p)

ThreadsOK ==
  /\ RecordsTypeOK
  /\ th \in [Threads -> Thread]
  /\ \A t \in Threads : th[t].at = "load" <=> holder = t

KeepInv == ThreadsOK /\ Filled

\* Nobody has the lock and the table is empty.
LEMMA InitKeeps == Init => EnvOK /\ DevicesOK /\ KeepInv
<1> SUFFICES ASSUME Init PROVE EnvOK /\ DevicesOK /\ KeepInv
  OBVIOUS
<1> USE DEF Init, RecordsInit
<1>1. EnvOK
  <2>1. MaxJobs \in Nat /\ MaxFaults \in Nat
    BY DiscoveryAssumption
  <2>2. jobs \in 0 .. MaxJobs /\ faults \in 0 .. MaxFaults
    BY <2>1
  <2> QED
    BY <2>2 DEF EnvOK
<1>2. RecordsTypeOK
  BY DEF RecordsTypeOK
<1>3. th \in [Threads -> Thread]
  BY DEF Thread, Jobs
<1>4. \A t \in Threads : th[t].at # "load" /\ holder # t
  BY RecordsAssumption
<1>5. Filled
  BY DEF Filled
<1>6. DevicesOK
  <2>1. \A t \in Threads : th[t].at \in {"poll", "idle"}
    OBVIOUS
  <2> QED
    BY <2>1, DiscoveryAssumption DEF DevicesOK
<1> QED
  BY <1>1, <1>2, <1>3, <1>4, <1>5, <1>6 DEF KeepInv, ThreadsOK

-----------------------------------------------------------------------------
(* Steps that leave the records alone. *)

\* Nobody begins or stops to fill the table, and nobody who is about to forgets it.
Undisturbed ==
  /\ th' \in [Threads -> Thread]
  /\ \A t \in Threads : th'[t].at = "load" <=> th[t].at = "load"
  /\ \A c \in Clients : th[c].at = "lock" => th'[c].at = "lock" /\ th'[c].ph = th[c].ph

\* Records, table and those who are about to fill it as before: nothing is lost.
LEMMA UndisturbedKeeps ==
  ASSUME KeepInv, UNCHANGED records, Undisturbed
  PROVE  KeepInv'
<1>1. ThreadsOK'
  BY DEF KeepInv, ThreadsOK, RecordsTypeOK, records, Undisturbed
<1>2. \A p : Unsettled(p) => Unsettled(p)'
  BY DEF Unsettled, Undisturbed
<1>3. Filled'
  BY <1>2 DEF KeepInv, Filled, Agrees, records
<1> QED
  BY <1>1, <1>3 DEF KeepInv

\* A thread moves that was not about to fill the table, and does not fill it.
LEMMA MovesUndisturbed ==
  ASSUME ThreadsOK, NEW t \in Threads, NEW r \in Thread, th' = [th EXCEPT ![t] = r],
         th[t].at \notin {"load", "lock"}, r.at # "load"
  PROVE  Undisturbed
<1>1. th \in [Threads -> Thread]
  BY DEF ThreadsOK
<1>2. th'[t] = r /\ \A u \in Threads \ {t} : th'[u] = th[u]
  BY <1>1
<1>3. th' \in [Threads -> Thread]
  BY <1>1
<1>4. \A u \in Threads : th'[u].at = "load" <=> th[u].at = "load"
  BY <1>2
<1>5. ASSUME NEW c \in Clients, th[c].at = "lock"
      PROVE  th'[c].at = "lock" /\ th'[c].ph = th[c].ph
  <2>1. c \in Threads /\ c # t
    BY <1>5, DiscoveryAssumption
  <2> QED
    BY <1>2, <1>5, <2>1
<1> QED
  BY <1>3, <1>4, <1>5 DEF Undisturbed

Places == {"idle", "write", "lock", "load", "unpair", "forget", "ask", "quit", "join", "done",
           "make", "poll", "find", "add", "again", "free", "ended", "test"}

\* A thread that goes to one of these places is not about to fill the table.
LEMMA ToMoves ==
  ASSUME ThreadsOK, NEW t \in Threads, NEW place \in Places \ {"load"}, To(t, place),
         th[t].at \notin {"load", "lock"}
  PROVE  Undisturbed
<1> DEFINE r == [th[t] EXCEPT !.at = place]
<1>1. th[t] \in Thread
  BY DEF ThreadsOK
<1>2. r \in Thread /\ r.at = place
  BY <1>1 DEF Thread, Places
<1>3. th' = [th EXCEPT ![t] = r]
  BY DEF To
<1> HIDE DEF r
<1> QED
  BY <1>2, <1>3, MovesUndisturbed

\* Nor is one that comes back from asking discovery to look again.
LEMMA ReturnsMoves ==
  ASSUME ThreadsOK, NEW t \in Threads, Returns(t), th[t].at \notin {"load", "lock"}
  PROVE  Undisturbed
<1> DEFINE r == [at |-> IF t = loop THEN "poll" ELSE "idle", ph |-> Nobody, n |-> 0,
                 job |-> "none", stale |-> FALSE]
<1>1. r \in Thread /\ r.at # "load"
  BY DEF Thread, Jobs
<1>2. th' = [th EXCEPT ![t] = r]
  BY DEF Returns
<1> HIDE DEF r
<1> QED
  BY <1>1, <1>2, MovesUndisturbed

\* Nor is one that got a device.
LEMMA GotMoves ==
  ASSUME ThreadsOK, DevicesOK, NEW t \in Threads, NEW place \in {"forget", "again"},
         Got(t, place), th[t].at \notin {"load", "lock"}
  PROVE  Undisturbed
<1>1. PICK d \in listed : th' = [th EXCEPT ![t].at = place, ![t].n = d[2]]
  BY DEF Got, Listed
<1> DEFINE r == [th[t] EXCEPT !.at = place, !.n = d[2]]
<1>2. th[t] \in Thread /\ d[2] \in Nat
  BY DEF ThreadsOK, DevicesOK, Known
<1>3. r \in Thread /\ r.at = place
  BY <1>2 DEF Thread
<1>4. th' = [th EXCEPT ![t] = r]
  BY <1>1 DEF ThreadsOK
<1> HIDE DEF r
<1> QED
  BY <1>3, <1>4, MovesUndisturbed

\* The steps of the requests that ask discovery to look again, or tell a device.
LEMMA AskKeeps ==
  ASSUME KeepInv, DevicesOK, NEW t \in Threads,
         Ask(t) \/ Quit(t) \/ WriteFails(t) \/ Unpair(t) \/ Forget(t)
  PROVE  KeepInv'
<1>1. ThreadsOK
  BY DEF KeepInv
<1>2. UNCHANGED records
  BY DEF Ask, Quit, WriteFails, Unpair, Forget
<1>3. th[t].at \notin {"load", "lock"}
  BY DEF Ask, Quit, WriteFails, Unpair, Forget, At
<1>4. Returns(t) \/ To(t, "join") \/ To(t, "quit") \/ Got(t, "forget")
  BY DEF Ask, Quit, WriteFails, Unpair, Forget
<1>5. Undisturbed
  BY <1>1, <1>3, <1>4, ToMoves, ReturnsMoves, GotMoves DEF Places
<1> QED
  BY <1>2, <1>5, UndisturbedKeeps

\* The steps of discovery's loop, the destructor and the reaper.
LEMMA LoopKeeps ==
  ASSUME KeepInv, DevicesOK,
         \/ Stop \/ Join \/ Make \/ MakeFails \/ PollEnds \/ Find \/ Add \/ Again
         \/ Reap \/ Test \/ \E p \in Near : Found(p)
  PROVE  KeepInv'
<1> USE DiscoveryAssumption
<1>1. ThreadsOK
  BY DEF KeepInv
<1>2. UNCHANGED records
  BY DEF Stop, Join, Make, MakeFails, PollEnds, Find, Add, Again, Reap, Test, Found
<1>3. CASE Stop
  BY <1>1, <1>2, <1>3, ToMoves, UndisturbedKeeps DEF Stop, At, Places
<1>4. CASE Join
  BY <1>1, <1>2, <1>4, ToMoves, UndisturbedKeeps DEF Join, At, Places
<1>5. CASE Make
  <2>1. To(loop, "poll") \/ To(loop, "ended")
    BY <1>5 DEF Make
  <2> QED
    BY <1>1, <1>2, <1>5, <2>1, ToMoves, UndisturbedKeeps DEF Make, At, Places
<1>6. CASE MakeFails
  BY <1>1, <1>2, <1>6, ToMoves, UndisturbedKeeps DEF MakeFails, At, Places
<1>7. CASE PollEnds
  <2>1. To(loop, "ended") \/ To(loop, "free")
    BY <1>7 DEF PollEnds, AfterPoll
  <2> QED
    BY <1>1, <1>2, <1>7, <2>1, ToMoves, UndisturbedKeeps DEF PollEnds, At, Places
<1>8. CASE Find
  <2>1. To(loop, "add") \/ Returns(loop)
    BY <1>8 DEF Find
  <2> QED
    BY <1>1, <1>2, <1>8, <2>1, ToMoves, ReturnsMoves, UndisturbedKeeps DEF Find, At, Places
<1>9. CASE Add \/ Again
  <2>1. Got(loop, "again") \/ Returns(loop)
    BY <1>9 DEF Add, Again
  <2>2. th[loop].at \notin {"load", "lock"}
    BY <1>9 DEF Add, Again, At
  <2> QED
    BY <1>1, <1>2, <2>1, <2>2, GotMoves, ReturnsMoves, UndisturbedKeeps
<1>10. CASE Reap \/ Test
  <2>1. \E place \in {"test", "idle", "ask"} : To(reaper, place)
    BY <1>10 DEF Reap, Test
  <2> QED
    BY <1>1, <1>2, <1>10, <2>1, ToMoves, UndisturbedKeeps DEF Reap, Test, At, Places
<1>11. ASSUME NEW p \in Near, Found(p) PROVE KeepInv'
  <2> DEFINE place == IF cache = {} THEN "lock" ELSE "find"
             r == [th[loop] EXCEPT !.at = place, !.ph = p]
  <2>1. th[loop] \in Thread /\ p \in Phones /\ th[loop].at = "poll"
    BY <1>1, <1>11 DEF ThreadsOK, Found, At
  <2>2. place \in {"lock", "find"}
    OBVIOUS
  <2>3. th' = [th EXCEPT ![loop] = r]
    BY <1>1, <1>11 DEF Found, ThreadsOK
  <2> HIDE DEF place
  <2>4. r \in Thread /\ r.at = place
    BY <2>1, <2>2 DEF Thread
  <2> HIDE DEF r
  <2>5. Undisturbed
    BY <1>1, <2>1, <2>2, <2>3, <2>4, MovesUndisturbed
  <2> QED
    BY <1>2, <2>5, UndisturbedKeeps
<1> QED
  BY <1>3, <1>4, <1>5, <1>6, <1>7, <1>8, <1>9, <1>10, <1>11

\* The poll object is freed; its readers are told.
LEMMA FreeKeeps ==
  ASSUME KeepInv, Free
  PROVE  KeepInv'
<1>1. /\ th[loop].at = "free" /\ UNCHANGED records
      /\ th' = [t \in Threads |->
                 CASE t = loop -> [th[t] EXCEPT !.at = "make"]
                   [] th[t].at = "quit" -> [th[t] EXCEPT !.stale = TRUE]
                   [] OTHER -> th[t]]
  BY DEF Free, At
<1>2. ASSUME NEW t \in Threads
      PROVE  /\ th'[t] \in Thread
             /\ th'[t].at = "load" <=> th[t].at = "load"
             /\ th[t].at = "lock" => th'[t] = th[t]
  <2>1. th[t] \in Thread
    BY DEF KeepInv, ThreadsOK
  <2>2. CASE t = loop
    <3>1. th'[t] = [th[t] EXCEPT !.at = "make"]
      BY <1>1, <2>2
    <3> QED
      BY <1>1, <2>1, <2>2, <3>1 DEF Thread
  <2>3. CASE t # loop /\ th[t].at = "quit"
    <3>1. th'[t] = [th[t] EXCEPT !.stale = TRUE]
      BY <1>1, <2>3
    <3> QED
      BY <2>1, <2>3, <3>1 DEF Thread
  <2>4. CASE t # loop /\ th[t].at # "quit"
    <3>1. th'[t] = th[t]
      BY <1>1, <2>4
    <3> QED
      BY <2>1, <3>1
  <2> QED
    BY <2>2, <2>3, <2>4
<1>3. th' \in [Threads -> Thread]
  BY <1>1, <1>2
<1>4. Undisturbed
  BY <1>2, <1>3, DiscoveryAssumption DEF Undisturbed
<1> QED
  BY <1>1, <1>4, UndisturbedKeeps

-----------------------------------------------------------------------------
(* Steps that change a file or the table. *)

\* A client's request changes a file; what it leaves it in is not whole, or the
\* client is about to fill the table.
LEMMA FileKeeps ==
  ASSUME KeepInv, Undisturbed, NEW p, UNCHANGED <<cache, holder, todo>>,
         file' \in [Phones -> {"none", "torn", "whole"}],
         \A q \in Phones \ {p} : file'[q] = file[q],
         p \in Phones => file'[p] = "torn" \/ Unsettled(p)'
  PROVE  KeepInv'
<1>1. ThreadsOK'
  BY DEF KeepInv, ThreadsOK, RecordsTypeOK, Undisturbed
<1>2. \A q : Unsettled(q) => Unsettled(q)'
  BY DEF Unsettled, Undisturbed
<1>3. ASSUME NEW q \in Phones PROVE Filled!(q)'
  <2>1. Filled!(q)
    BY DEF KeepInv, Filled
  <2>2. CASE q = p
    BY <1>2, <2>1, <2>2 DEF Agrees
  <2>3. CASE q # p
    BY <1>2, <2>1, <2>3 DEF Agrees
  <2> QED
    BY <2>2, <2>3
<1>4. Filled'
  BY <1>3 DEF Filled
<1> QED
  BY <1>1, <1>4 DEF KeepInv

\* SavePairRecord: the file is torn, or whole and its client about to fill the table.
LEMMA SaveKeeps ==
  ASSUME KeepInv, NEW c \in Clients,
         Refresh(c) \/ Written(c) \/ \E p \in Near : Save(c, p)
  PROVE  KeepInv'
<1> USE DiscoveryAssumption
<1>1. /\ ThreadsOK /\ c \in Threads /\ th[c] \in Thread /\ th \in [Threads -> Thread]
      /\ file \in [Phones -> {"none", "torn", "whole"}]
  BY DEF KeepInv, ThreadsOK, RecordsTypeOK
<1>2. ASSUME NEW place \in {"write", "ask"}, NEW p \in Phones \cup {Nobody}, NEW job \in Jobs,
             Begins(c, place, p, job)
      PROVE  Undisturbed
  <2> DEFINE r == [at |-> place, ph |-> p, n |-> 0, job |-> job, stale |-> FALSE]
  <2>1. r \in Thread /\ r.at # "load"
    BY DEF Thread
  <2>2. th' = [th EXCEPT ![c] = r] /\ th[c].at = "idle"
    BY <1>2 DEF Begins, At
  <2> HIDE DEF r
  <2> QED
    BY <1>1, <2>1, <2>2, MovesUndisturbed
<1>3. CASE Refresh(c)
  <2>1. Undisturbed
    BY <1>2, <1>3 DEF Refresh, Jobs
  <2> QED
    BY <1>3, <2>1, UndisturbedKeeps DEF Refresh
<1>4. ASSUME NEW p \in Near, Save(c, p) PROVE KeepInv'
  <2>1. p \in Phones
    OBVIOUS
  <2>2. Undisturbed
    BY <1>2, <1>4, <2>1 DEF Save, Jobs
  <2>3. file' = [file EXCEPT ![p] = "torn"] /\ UNCHANGED <<cache, holder, todo>>
    BY <1>4 DEF Save, Truncate
  <2>4. /\ file' \in [Phones -> {"none", "torn", "whole"}] /\ file'[p] = "torn"
        /\ \A q \in Phones \ {p} : file'[q] = file[q]
    BY <1>1, <2>1, <2>3
  <2> QED
    BY <2>2, <2>3, <2>4, FileKeeps
<1>5. CASE Written(c)
  <2>0. PICK p : p = th[c].ph
    OBVIOUS
  <2> DEFINE r == [th[c] EXCEPT !.at = "lock", !.stale = FALSE]
  <2>1. th[c].at = "write" /\ th' = [th EXCEPT ![c] = r]
    BY <1>1, <1>5 DEF Written, At
  <2>2. r \in Thread /\ r.at = "lock" /\ r.ph = p
    BY <1>1, <2>0 DEF Thread
  <2> HIDE DEF r
  <2>3. Undisturbed
    BY <1>1, <2>1, <2>2, MovesUndisturbed
  <2>4. Unsettled(p)'
    <3>1. th'[c].at = "lock" /\ th'[c].ph = p
      BY <1>1, <2>1, <2>2
    <3> QED
      BY <3>1 DEF Unsettled
  <2>5. /\ file' \in [Phones -> {"none", "torn", "whole"}]
        /\ \A q \in Phones \ {p} : file'[q] = file[q]
        /\ UNCHANGED <<cache, holder, todo>>
    BY <1>1, <1>5, <2>0 DEF Written, WriteOut, Phone
  <2> QED
    BY <2>3, <2>4, <2>5, FileKeeps
<1> QED
  BY <1>3, <1>4, <1>5

\* DeletePairRecord: the record is gone, and its client about to fill the table.
LEMMA RemoveKeeps ==
  ASSUME KeepInv, NEW c \in Clients, NEW p \in Near, Remove(c, p)
  PROVE  KeepInv'
<1>0. p \in Phones /\ c \in Threads /\ file \in [Phones -> {"none", "torn", "whole"}]
  BY DiscoveryAssumption DEF KeepInv, ThreadsOK, RecordsTypeOK
<1>1. /\ th[c].at = "idle"
      /\ file' = [file EXCEPT ![p] = "none"] /\ UNCHANGED <<cache, holder, todo>>
      /\ th' = [t \in Threads |->
                 CASE t = c -> [at |-> "lock", ph |-> p, n |-> 0, job |-> "remove", stale |-> FALSE]
                   [] t # c /\ th[t].at = "write" /\ th[t].ph = p -> [th[t] EXCEPT !.stale = TRUE]
                   [] OTHER -> th[t]]
  BY DEF Remove, Unlink, At
<1>2. ASSUME NEW t \in Threads
      PROVE  /\ th'[t] \in Thread
             /\ th'[t].at = "load" <=> th[t].at = "load"
             /\ th[t].at = "lock" => th'[t] = th[t]
             /\ t = c => th'[t].at = "lock" /\ th'[t].ph = p
  <2>1. th[t] \in Thread
    BY DEF KeepInv, ThreadsOK
  <2>2. CASE t = c
    <3>1. th'[t] = [at |-> "lock", ph |-> p, n |-> 0, job |-> "remove", stale |-> FALSE]
      BY <1>1, <2>2
    <3> QED
      BY <1>0, <1>1, <2>1, <2>2, <3>1 DEF Thread, Jobs
  <2>3. CASE t # c /\ th[t].at = "write" /\ th[t].ph = p
    <3>1. th'[t] = [th[t] EXCEPT !.stale = TRUE]
      BY <1>1, <2>3
    <3> QED
      BY <2>1, <2>3, <3>1 DEF Thread
  <2>4. CASE t # c /\ ~(th[t].at = "write" /\ th[t].ph = p)
    <3>1. th'[t] = th[t]
      BY <1>1, <2>4
    <3> QED
      BY <2>1, <2>4, <3>1
  <2> QED
    BY <2>2, <2>3, <2>4
<1>3. th' \in [Threads -> Thread]
  BY <1>1, <1>2
<1>4. Undisturbed
  BY <1>2, <1>3, DiscoveryAssumption DEF Undisturbed
<1>5. Unsettled(p)'
  BY <1>0, <1>2 DEF Unsettled
<1>6. /\ file' \in [Phones -> {"none", "torn", "whole"}]
      /\ \A q \in Phones \ {p} : file'[q] = file[q]
  BY <1>0, <1>1
<1> QED
  BY <1>1, <1>4, <1>5, <1>6, FileKeeps

\* sysconf_load_known_macaddrs: with the lock the table is emptied, each file adds
\* what it has, and at the end the table agrees with every file.
LEMMA ReloadKeeps ==
  ASSUME KeepInv, NEW t \in Threads, Reload(t)
  PROVE  KeepInv'
<1> USE RecordsAssumption
<1>1. /\ ThreadsOK /\ th[t] \in Thread /\ th \in [Threads -> Thread]
      /\ file \in [Phones -> {"none", "torn", "whole"}] /\ cache \subseteq Phones
      /\ todo \subseteq Phones /\ holder \in Threads \cup {Nobody}
      /\ \A u \in Threads : th[u].at = "load" <=> holder = u
  BY DEF KeepInv, ThreadsOK, RecordsTypeOK
<1>2. CASE Lock(t)
  <2>1. /\ th[t].at = "lock" /\ th' = [th EXCEPT ![t].at = "load"]
        /\ holder = Nobody /\ holder' = t /\ cache' = {} /\ todo' = Phones /\ file' = file
    BY <1>2 DEF Lock, At, To, LoadBegin
  <2>2. th'[t] = [th[t] EXCEPT !.at = "load"] /\ \A u \in Threads \ {t} : th'[u] = th[u]
    BY <1>1, <2>1
  <2>3. th'[t] \in Thread /\ th'[t].at = "load"
    BY <1>1, <2>2 DEF Thread
  <2>4. th' \in [Threads -> Thread]
    <3>1. th' = [th EXCEPT ![t] = th'[t]]
      BY <1>1, <2>1
    <3> QED
      BY <1>1, <2>3, <3>1
  <2>5. \A u \in Threads : th'[u].at = "load" <=> holder' = u
    BY <1>1, <2>1, <2>2, <2>3
  <2>6. ThreadsOK'
    BY <1>1, <2>1, <2>4, <2>5 DEF ThreadsOK, RecordsTypeOK
  <2>7. Filled'
    BY <2>1 DEF Filled
  <2> QED
    BY <2>6, <2>7 DEF KeepInv
<1>3. CASE Fill(t)
  <2>1. holder = t /\ file' = file /\ holder' = holder /\ th' = th
    BY <1>3 DEF Fill, Load
  <2>2. PICK p \in todo : LoadFile(p)
    BY <1>3 DEF Fill, Load
  <2>3. /\ cache' = IF file[p] = "whole" THEN cache \cup {p} ELSE cache
        /\ todo' = todo \ {p}
    BY <2>2 DEF LoadFile
  <2>4. ThreadsOK'
    BY <1>1, <2>1, <2>3 DEF ThreadsOK, RecordsTypeOK
  <2>5. ASSUME NEW q \in Phones PROVE Filled!(q)'
    <3>1. Filled!(q) /\ (Unsettled(q)' <=> Unsettled(q)) /\ holder # Nobody
      BY <1>1, <2>1 DEF KeepInv, Filled, Unsettled
    <3>2. CASE q = p
      BY <2>1, <2>3, <3>1, <3>2 DEF Agrees
    <3>3. CASE q # p
      BY <2>1, <2>3, <3>1, <3>3 DEF Agrees
    <3> QED
      BY <3>2, <3>3
  <2>6. Filled'
    BY <2>5 DEF Filled
  <2> QED
    BY <2>4, <2>6 DEF KeepInv
<1>4. CASE Unlock(t)
  <2> DEFINE place == AfterLoad(th[t].job)
             r == [th[t] EXCEPT !.at = place]
  <2>1. /\ th[t].at = "load" /\ th' = [th EXCEPT ![t] = r]
        /\ holder = t /\ todo = {} /\ holder' = Nobody /\ UNCHANGED <<file, cache, todo>>
    BY <1>4 DEF Unlock, At, To, LoadEnd
  <2>2. place \in {"ask", "unpair", "find"}
    BY DEF AfterLoad
  <2> HIDE DEF place
  <2>3. r \in Thread /\ r.at = place
    BY <1>1, <2>2 DEF Thread
  <2> HIDE DEF r
  <2>4. /\ th' \in [Threads -> Thread]
        /\ th'[t] = r /\ \A u \in Threads \ {t} : th'[u] = th[u]
    BY <1>1, <2>1, <2>3
  <2>5. \A u \in Threads : th'[u].at = "load" <=> holder' = u
    BY <1>1, <2>1, <2>2, <2>3, <2>4
  <2>6. ThreadsOK'
    BY <1>1, <2>1, <2>4, <2>5 DEF ThreadsOK, RecordsTypeOK
  <2>7. \A q : Unsettled(q) => Unsettled(q)'
    <3>1. \A c \in Clients : th[c].at = "lock" => th'[c] = th[c]
      BY <2>1, <2>4, DiscoveryAssumption
    <3> QED
      BY <3>1 DEF Unsettled
  <2>8. holder # Nobody
    BY <2>1
  <2>9. Filled'
    BY <2>1, <2>7, <2>8 DEF KeepInv, Filled, Agrees
  <2> QED
    BY <2>6, <2>9 DEF KeepInv
<1> QED
  BY <1>2, <1>3, <1>4 DEF Reload

\* Every step keeps the invariant.
LEMMA KeepStep == KeepInv /\ DevicesOK /\ [Next]_vars => KeepInv'
<1> SUFFICES ASSUME KeepInv, DevicesOK, [Next]_vars PROVE KeepInv'
  OBVIOUS
<1>0. Clients \subseteq Threads /\ loop \in Threads /\ reaper \in Threads /\ dtor \in Threads
  BY DiscoveryAssumption
<1>1. ASSUME NEW c \in Clients, Client(c) PROVE KeepInv'
  BY <1>0, <1>1, SaveKeeps, AskKeeps, ReloadKeeps DEF Client
<1>2. CASE Reaper \/ Destructor
  BY <1>0, <1>2, AskKeeps, LoopKeeps DEF Reaper, Destructor
<1>3. ASSUME UNCHANGED <<records, th>> PROVE KeepInv'
  <2>1. Undisturbed
    BY <1>3 DEF Undisturbed, KeepInv, ThreadsOK
  <2> QED
    BY <1>3, <2>1, UndisturbedKeeps
<1>4. CASE \/ \E p \in Near : FoundPairing(p) \/ DeviceLost(p)
           \/ \E s \in Services : ResolveFails(s) \/ Announced(s) \/ Withdrawn(s)
           \/ ServerFails \/ UNCHANGED vars
  BY <1>3, <1>4 DEF FoundPairing, DeviceLost, ResolveFails, Announced, Withdrawn, ServerFails, vars
<1>5. CASE Loop
  BY <1>0, <1>4, <1>5, LoopKeeps, FreeKeeps, ReloadKeeps DEF Loop
<1>6. CASE \E c \in Clients : Refresh(c) \/ \E p \in Near : Save(c, p) \/ Remove(c, p)
  BY <1>6, SaveKeeps, RemoveKeeps
<1> QED
  BY <1>1, <1>2, <1>4, <1>5, <1>6, LoopKeeps DEF Next

\* The invariant holds in every state.
LEMMA KeepInvariant == Spec => [](EnvOK /\ DevicesOK /\ KeepInv)
<1>1. KeepInv /\ DevicesOK /\ [Next]_vars => DevicesOK'
  BY DevicesStep DEF KeepInv, ThreadsOK, RecordsTypeOK
<1> QED
  BY <1>1, InitKeeps, EnvStep, KeepStep, PTL DEF Spec

\* Whatever is saved, deleted, found and lost in whatever order, every variable
\* keeps its type, and a thread fills the table of addresses if and only if it has
\* the lock (sysconf.cpp:133-197).
THEOREM TypeCorrect == Spec => []TypeOK
<1>1. EnvOK /\ DevicesOK /\ KeepInv => TypeOK
  <2> SUFFICES ASSUME EnvOK, DevicesOK, KeepInv PROVE TypeOK
    OBVIOUS
  <2>1. listed \subseteq Phones \X Nat
    BY DEF DevicesOK, Known
  <2> QED
    BY <2>1 DEF EnvOK, DevicesOK, KeepInv, ThreadsOK, TypeOK
<1> QED
  BY <1>1, KeepInvariant, PTL

\* However the requests of the clients meet, when nobody fills the table it has all
\* records that are not about to be put into it and none that was removed, or it is
\* empty and is filled at the next look (sysconf.cpp:133-197 and 297-299).
THEOREM TableIsComplete == Spec => []TableComplete
<1>1. KeepInv => TableComplete
  BY DEF KeepInv, Filled, Unsettled, Agrees, TableComplete, Changing
<1> QED
  BY <1>1, KeepInvariant, PTL

-----------------------------------------------------------------------------
(* Deleted records. *)

\* The premise of UnpairedUnlisted, in one state.
Apart == th[loop].at \in {"lock", "load", "find", "add", "again"} => ~Removing

\* DeletePairRecord of p, from the removal of the file to the end of
\* cleanup_wifi_device_after_unpair.
Deletes(c, p) == th[c].job = "remove" /\ th[c].ph = p

DeletePlaces == {"lock", "load", "unpair", "forget"}

JobInv == \A c \in Clients : th[c].job = "remove" => th[c].at \in DeletePlaces

\* A device that is listed and will be, or will be looked for again.
Stays(d) == d \in listed /\ ~(d \in quiet /\ Queued(d))

\* The client has yet to tell the device, or whichever the muxer lists.
TellsOf(c, p, d) == Deletes(c, p) /\ (th[c].at = "forget" => InHand(c) = d)

\* The table has the address of a deleted record only until whoever deleted it
\* fills the table again; its device stays only until that client has told it.
DeletedInv ==
  \A p \in Phones : file[p] = "none" =>
    /\ p \in cache => \E c \in Clients : Deletes(c, p) /\ th[c].at = "lock"
    /\ \A d \in Listed(p) :
         Stays(d) => \E c \in Clients : TellsOf(c, p, d)

\* Discovery's loop is about to list a phone that has a record, or to keep it.
AddInv ==
  th[loop].at \in {"add", "again"} => th[loop].ph \in Phones /\ file[th[loop].ph] # "none"

UnlistedInv == JobInv /\ DeletedInv /\ AddInv

\* No record is deleted; nothing appears of a phone without a record.
DataKept ==
  \A p \in Phones :
    /\ file'[p] = "none" => file[p] = "none"
    /\ p \in cache' => p \in cache \/ file[p] # "none"
    /\ \A d \in Listed(p)' : Stays(d)' => (Stays(d) /\ d \in Listed(p)) \/ file[p] # "none"

\* Who deletes a record goes on, and leaves the lock only for an empty table.
StillDeletes(old, new) ==
  /\ new.job = "remove" <=> old.job = "remove"
  /\ old.job = "remove" =>
       /\ new.ph = old.ph /\ new.at \in DeletePlaces
       /\ new.at = "forget" => old.at = "forget" /\ new.n = old.n
       /\ old.at = "lock" /\ cache' # {} => new.at = "lock"

\* Then nothing is listed that should not be.
LEMMA StillUnlisted ==
  ASSUME UnlistedInv, DataKept, AddInv',
         \A c \in Clients : StillDeletes(th[c], th'[c])
  PROVE  UnlistedInv'
<1>1. JobInv'
  BY DEF StillDeletes, JobInv
<1>2. DeletedInv'
  <2> SUFFICES ASSUME NEW p \in Phones, file'[p] = "none"
               PROVE  /\ p \in cache' => \E c \in Clients : Deletes(c, p)' /\ th'[c].at = "lock"
                      /\ \A d \in Listed(p)' : Stays(d)' =>
                           \E c \in Clients : TellsOf(c, p, d)'
    BY DEF DeletedInv
  <2>1. \A c \in Clients : Deletes(c, p) => Deletes(c, p)'
    BY DEF StillDeletes, Deletes
  <2>2. ASSUME p \in cache' PROVE \E c \in Clients : Deletes(c, p)' /\ th'[c].at = "lock"
    <3>1. PICK c \in Clients : Deletes(c, p) /\ th[c].at = "lock"
      BY <2>2 DEF DataKept, UnlistedInv, DeletedInv
    <3> QED
      BY <2>1, <2>2, <3>1 DEF StillDeletes, Deletes
  <2>3. ASSUME NEW d \in Listed(p)', Stays(d)' PROVE \E c \in Clients : TellsOf(c, p, d)'
    <3>1. PICK c \in Clients : TellsOf(c, p, d)
      BY <2>3 DEF DataKept, UnlistedInv, DeletedInv, TellsOf
    <3>2. th'[c].at = "forget" => InHand(c)' = d
      BY <3>1 DEF StillDeletes, Deletes, TellsOf, InHand
    <3> QED
      BY <2>1, <3>1, <3>2 DEF TellsOf
  <2> QED
    BY <2>2, <2>3
<1> QED
  BY <1>1, <1>2 DEF UnlistedInv

\* The same for a step that moves one thread.
LEMMA OneThreadUnlisted ==
  ASSUME KeepInv, UnlistedInv, DataKept, NEW t \in Threads, NEW r,
         th' = [th EXCEPT ![t] = r],
         t \in Clients => StillDeletes(th[t], r),
         t = loop /\ r.at \in {"add", "again"} => r.ph \in Phones /\ file'[r.ph] # "none"
  PROVE  UnlistedInv'
<1>1. \A u \in Threads : th'[u] = IF u = t THEN r ELSE th[u]
  BY DEF KeepInv, ThreadsOK
<1>2. Clients \subseteq Threads /\ loop \in Threads
  BY DiscoveryAssumption
<1>3. \A c \in Clients : StillDeletes(th[c], th'[c])
  BY <1>1, <1>2 DEF UnlistedInv, JobInv, StillDeletes
<1>4. AddInv'
  BY <1>1, <1>2 DEF UnlistedInv, AddInv, DataKept
<1> QED
  BY <1>3, <1>4, StillUnlisted

\* Nobody was deleting who is elsewhere.
LEMMA ElsewhereFree ==
  ASSUME UnlistedInv, NEW c \in Clients, th[c].at \notin DeletePlaces,
         NEW r, r.job # "remove"
  PROVE  StillDeletes(th[c], r)
BY DEF UnlistedInv, JobInv, StillDeletes

\* The clients' requests but for the deletion of a record (Client.cpp:269-321,
\* WIFIDeviceManager-avahi.cpp:154-166).
LEMMA ClientUnlisted ==
  ASSUME KeepInv, UnlistedInv, NEW c \in Clients,
         \/ Written(c) \/ WriteFails(c) \/ Ask(c) \/ Quit(c) \/ Refresh(c)
         \/ \E p \in Near : Save(c, p)
  PROVE  UnlistedInv'
<1>1. c \in Threads /\ c # loop /\ c # dtor /\ th[c] \in Thread
      /\ file \in [Phones -> {"none", "torn", "whole"}]
  BY DiscoveryAssumption DEF KeepInv, ThreadsOK, RecordsTypeOK
<1>2. DataKept
  BY <1>1 DEF DataKept, Listed, Stays, Queued, Written, WriteOut, WriteFails, Ask, Quit,
              Refresh, Save, Begins, Truncate, records, devices
<1>3. th[c].at \notin DeletePlaces
  BY DEF Written, WriteFails, Ask, Quit, Refresh, Save, Begins, At, DeletePlaces
<1>4. th[c].job # "remove"
  BY <1>3 DEF UnlistedInv, JobInv
<1>5. \E r : th' = [th EXCEPT ![c] = r] /\ r.job # "remove"
  <2>1. CASE Written(c)
    <3> DEFINE r == [th[c] EXCEPT !.at = "lock", !.stale = FALSE]
    <3>1. th' = [th EXCEPT ![c] = r]
      BY <1>1, <2>1 DEF Written, KeepInv, ThreadsOK
    <3>2. r.job = th[c].job
      BY <1>1 DEF Thread
    <3> QED
      BY <1>4, <3>1, <3>2
  <2>2. CASE Returns(c)
    <3> DEFINE r == [at |-> IF c = loop THEN "poll" ELSE "idle", ph |-> Nobody, n |-> 0,
                     job |-> "none", stale |-> FALSE]
    <3>1. th' = [th EXCEPT ![c] = r] /\ r.job # "remove"
      BY <2>2 DEF Returns
    <3> HIDE DEF r
    <3> QED
      BY <3>1
  <2>3. CASE To(c, "quit")
    <3> DEFINE r == [th[c] EXCEPT !.at = "quit"]
    <3>1. th' = [th EXCEPT ![c] = r]
      BY <2>3 DEF To
    <3>2. r.job = th[c].job
      BY <1>1 DEF Thread
    <3> QED
      BY <1>4, <3>1, <3>2
  <2>4. ASSUME NEW place, NEW p, NEW job, job # "remove", Begins(c, place, p, job)
        PROVE  \E r : th' = [th EXCEPT ![c] = r] /\ r.job # "remove"
    <3> DEFINE r == [at |-> place, ph |-> p, n |-> 0, job |-> job, stale |-> FALSE]
    <3>1. th' = [th EXCEPT ![c] = r] /\ r.job # "remove"
      BY <2>4 DEF Begins
    <3> HIDE DEF r
    <3> QED
      BY <3>1
  <2> QED
    BY <1>1, <2>1, <2>2, <2>3, <2>4 DEF WriteFails, Ask, Quit, Refresh, Save
<1>6. PICK r : th' = [th EXCEPT ![c] = r] /\ r.job # "remove"
  BY <1>5
<1> QED
  BY <1>1, <1>2, <1>3, <1>6, ElsewhereFree, OneThreadUnlisted

\* The table is filled again: it is emptied first, then it gets what the files
\* have (sysconf.cpp:133-197).
LEMMA ReloadUnlisted ==
  ASSUME KeepInv, UnlistedInv, NEW t \in Clients \cup {loop}, Reload(t)
  PROVE  UnlistedInv'
<1>1. /\ t \in Threads /\ th[t] \in Thread /\ UNCHANGED <<file, devices>>
      /\ loop \notin Clients
  BY DiscoveryAssumption
  DEF KeepInv, ThreadsOK, Reload, Lock, LoadBegin, Fill, Load, Unlock, LoadEnd
<1>2. ASSUME NEW place \in {"load", "ask", "unpair", "find"}, To(t, place), DataKept,
             th[t].job = "remove" => place \in DeletePlaces,
             th[t].at = "lock" => cache' = {}
      PROVE  UnlistedInv'
  <2> DEFINE r == [th[t] EXCEPT !.at = place]
  <2>1. r.at = place /\ r.job = th[t].job /\ r.ph = th[t].ph
    BY <1>1 DEF Thread
  <2>2. th' = [th EXCEPT ![t] = r]
    BY <1>2 DEF To
  <2> HIDE DEF r
  <2>3. StillDeletes(th[t], r)
    BY <1>2, <2>1 DEF StillDeletes
  <2> QED
    BY <1>1, <1>2, <2>1, <2>2, <2>3, OneThreadUnlisted
<1>3. CASE Lock(t)
  <2>1. To(t, "load") /\ cache' = {}
    BY <1>3 DEF Lock, LoadBegin
  <2>2. DataKept
    BY <1>1, <2>1 DEF DataKept, Listed, Stays, Queued, devices
  <2> QED
    BY <1>2, <2>1, <2>2 DEF DeletePlaces
<1>4. CASE Fill(t)
  <2>1. PICK p \in todo : LoadFile(p)
    BY <1>4 DEF Fill, Load
  <2>2. DataKept
    BY <1>1, <2>1 DEF DataKept, LoadFile, Listed, Stays, Queued, devices
  <2>3. th' = th
    BY <1>4 DEF Fill
  <2>4. th' = [th EXCEPT ![t] = th[t]] /\ (t \in Clients => StillDeletes(th[t], th[t]))
    BY <1>1, <2>3 DEF KeepInv, ThreadsOK, UnlistedInv, JobInv, StillDeletes
  <2> QED
    BY <1>1, <2>2, <2>4, OneThreadUnlisted DEF UnlistedInv, AddInv
<1>5. CASE Unlock(t)
  <2>1. /\ To(t, AfterLoad(th[t].job)) /\ AfterLoad(th[t].job) \in {"ask", "unpair", "find"}
        /\ th[t].job = "remove" => AfterLoad(th[t].job) = "unpair"
        /\ cache' = cache /\ th[t].at = "load"
    BY <1>5 DEF Unlock, AfterLoad, LoadEnd, At
  <2>2. DataKept
    BY <1>1, <2>1 DEF DataKept, Listed, Stays, Queued, devices
  <2> QED
    BY <1>2, <2>1, <2>2 DEF DeletePlaces
<1> QED
  BY <1>3, <1>4, <1>5 DEF Reload

\* The other threads. What the loop finds in the table has a record: nobody is
\* deleting one meanwhile (sysconf.cpp:296-305, WIFIDeviceManager-avahi.cpp:286-306).
LEMMA LoopUnlisted ==
  ASSUME KeepInv, DevicesOK, UnlistedInv, Apart, NEW t \in {loop, reaper, dtor},
         \/ Ask(t) \/ Quit(t)
         \/ t = dtor /\ (Stop \/ Join)
         \/ t = loop /\ (Make \/ MakeFails \/ PollEnds \/ Find \/ \E p \in Near : Found(p))
         \/ t = loop /\ (Add \/ Again)
         \/ t = reaper /\ (Reap \/ Test)
  PROVE  UnlistedInv'
<1>1. /\ t \in Threads /\ t \notin Clients /\ th[t] \in Thread /\ UNCHANGED <<file, cache>>
      /\ cache \subseteq Phones
  BY DiscoveryAssumption
  DEF KeepInv, ThreadsOK, RecordsTypeOK, Ask, Quit, Stop, Join, Make, MakeFails, PollEnds, Find,
      Add, Again, Found, Reap, Test, records
<1>2. ASSUME DataKept, NEW place, place \notin {"add", "again"}, To(t, place) PROVE UnlistedInv'
  <2> DEFINE r == [th[t] EXCEPT !.at = place]
  <2>1. r.at = place
    BY <1>1 DEF Thread
  <2>2. th' = [th EXCEPT ![t] = r]
    BY <1>2 DEF To
  <2> HIDE DEF r
  <2> QED
    BY <1>1, <1>2, <2>1, <2>2, OneThreadUnlisted
<1>3. ASSUME DataKept, Returns(t) PROVE UnlistedInv'
  <2> DEFINE r == [at |-> IF t = loop THEN "poll" ELSE "idle", ph |-> Nobody, n |-> 0,
                   job |-> "none", stale |-> FALSE]
  <2>1. th' = [th EXCEPT ![t] = r] /\ r.at \notin {"add", "again"}
    BY <1>3 DEF Returns
  <2> HIDE DEF r
  <2> QED
    BY <1>1, <1>3, <2>1, OneThreadUnlisted
<1>4. UNCHANGED devices => DataKept
  BY <1>1 DEF DataKept, Listed, Stays, Queued, devices
<1>5. CASE Ask(t) \/ Quit(t)
  <2>1. UNCHANGED devices
    BY <1>5 DEF Ask, Quit
  <2>2. To(t, "join") \/ To(t, "quit") \/ Returns(t)
    BY <1>5 DEF Ask, Quit
  <2> QED
    BY <1>2, <1>3, <1>4, <2>1, <2>2
<1>6. CASE t = dtor /\ (Stop \/ Join)
  BY <1>2, <1>4, <1>6 DEF Stop, Join
<1>7. CASE t = loop /\ (Make \/ MakeFails \/ PollEnds)
  <2>1. UNCHANGED devices
    BY <1>7 DEF Make, MakeFails, PollEnds
  <2>2. To(t, "poll") \/ To(t, "ended") \/ To(t, "free")
    BY <1>7 DEF Make, MakeFails, PollEnds, AfterPoll
  <2> QED
    BY <1>2, <1>4, <2>1, <2>2
<1>8. ASSUME t = loop, NEW p \in Near, Found(p) PROVE UnlistedInv'
  <2> DEFINE place == IF cache = {} THEN "lock" ELSE "find"
             r == [th[loop] EXCEPT !.at = place, !.ph = p]
  <2>1. th' = [th EXCEPT ![loop] = r] /\ UNCHANGED devices
    BY <1>1, <1>8 DEF Found, KeepInv, ThreadsOK
  <2>2. place \notin {"add", "again"}
    OBVIOUS
  <2> HIDE DEF place
  <2>3. r.at \notin {"add", "again"}
    BY <1>1, <1>8, <2>2 DEF Thread
  <2> HIDE DEF r
  <2> QED
    BY <1>1, <1>4, <1>8, <2>1, <2>3, OneThreadUnlisted
<1>9. CASE t = loop /\ Find
  <2>0. UNCHANGED devices
    BY <1>9 DEF Find
  <2>1. CASE Phone(loop) \in cache /\ To(loop, "add")
    <3> DEFINE r == [th[loop] EXCEPT !.at = "add"]
    <3>1. r.ph = Phone(loop)
      BY <1>1, <1>9 DEF Thread, Phone
    <3>2. th' = [th EXCEPT ![loop] = r]
      BY <2>1 DEF To
    <3>3. ~Removing
      BY <1>9 DEF Find, At, Apart
    <3>4. Phone(loop) \in Phones /\ file[Phone(loop)] # "none"
      BY <1>1, <2>1, <3>3 DEF UnlistedInv, DeletedInv, Deletes, Removing
    <3> HIDE DEF r
    <3> QED
      BY <1>1, <1>4, <1>9, <2>0, <3>1, <3>2, <3>4, OneThreadUnlisted
  <2> QED
    BY <1>3, <1>4, <1>9, <2>0, <2>1 DEF Find
<1>10. CASE t = loop /\ Add
  <2>1. Phone(loop) \in Phones /\ file[Phone(loop)] # "none"
    BY <1>10 DEF UnlistedInv, AddInv, Add, At, Phone
  <2>2. CASE Got(loop, "again") /\ UNCHANGED devices
    <3>1. PICK d : th' = [th EXCEPT ![loop].at = "again", ![loop].n = d[2]]
      BY <2>2 DEF Got
    <3> DEFINE r == [th[loop] EXCEPT !.at = "again", !.n = d[2]]
    <3>2. r.ph = Phone(loop)
      BY <1>1, <1>10 DEF Thread, Phone
    <3>3. th' = [th EXCEPT ![loop] = r]
      BY <1>1, <1>10, <3>1 DEF KeepInv, ThreadsOK
    <3> HIDE DEF r
    <3> QED
      BY <1>1, <1>4, <1>10, <2>1, <2>2, <3>2, <3>3, OneThreadUnlisted
  <2>3. CASE ~(Got(loop, "again") /\ UNCHANGED devices)
    <3>1. PICK e : e = <<Phone(loop), made[Phone(loop)] + 1>>
      OBVIOUS
    <3>2. listed' = listed \cup {e} /\ Returns(loop) /\ UNCHANGED <<quiet, queue>>
      BY <1>10, <2>3, <3>1 DEF Add
    <3>3. e[1] = Phone(loop)
      BY <3>1
    <3>4. DataKept
      BY <1>1, <2>1, <3>2, <3>3 DEF DataKept, Listed, Stays, Queued
    <3> QED
      BY <1>3, <1>10, <3>2, <3>4
  <2> QED
    BY <2>2, <2>3
<1>11. CASE t = loop /\ Again
  <2>1. Phone(loop) \in Phones /\ file[Phone(loop)] # "none"
    BY <1>11 DEF UnlistedInv, AddInv, Again, At, Phone
  <2>2. Returns(loop) /\ quiet' = quiet \ {InHand(loop)} /\ UNCHANGED <<listed, queue>>
    BY <1>11 DEF Again
  <2>3. InHand(loop)[1] = Phone(loop)
    BY DEF InHand, Phone
  <2>4. DataKept
    BY <1>1, <2>1, <2>2, <2>3 DEF DataKept, Listed, Stays, Queued
  <2> QED
    BY <1>3, <1>11, <2>2, <2>4
<1>12. CASE t = reaper /\ Reap
  <2>1. /\ listed' \subseteq listed /\ UNCHANGED <<quiet, queue>> /\ To(reaper, "test")
    BY <1>12 DEF Reap
  <2>2. DataKept
    BY <1>1, <2>1 DEF DataKept, Listed, Stays, Queued
  <2> QED
    BY <1>2, <1>12, <2>1, <2>2
<1>13. CASE t = reaper /\ Test
  <2>1. /\ queue' = Tail(queue) /\ UNCHANGED <<listed, quiet>>
        /\ queue # << >> /\ Head(queue) \notin listed /\ queue \in Seq(Phones \X Nat)
        /\ \E place \in {"idle", "ask"} : To(reaper, place)
    BY <1>13 DEF Test, At, DevicesOK
  <2>2. ASSUME NEW d \in listed, Queued(d) PROVE Queued(d)'
    <3>1. PICK i \in DOMAIN queue : queue[i] = d
      BY <2>2 DEF Queued
    <3>2. i # 1
      BY <2>1, <2>2, <3>1
    <3>3. i - 1 \in DOMAIN queue' /\ queue'[i - 1] = d
      BY <2>1, <3>1, <3>2
    <3> QED
      BY <3>3 DEF Queued
  <2>3. DataKept
    BY <1>1, <2>1, <2>2 DEF DataKept, Listed, Stays
  <2> QED
    BY <1>2, <1>13, <2>1, <2>3
<1> QED
  BY <1>5, <1>6, <1>7, <1>8, <1>9, <1>10, <1>11, <1>12, <1>13

\* The poll object is freed; who deletes a record does not read its pointer.
LEMMA FreeUnlisted ==
  ASSUME KeepInv, UnlistedInv, Free
  PROVE  UnlistedInv'
<1>1. UNCHANGED <<file, cache, devices>> /\ loop \in Threads /\ loop \notin Clients
      /\ Clients \subseteq Threads
  BY DiscoveryAssumption DEF Free, records
<1>2. th' = [t \in Threads |->
              CASE t = loop -> [th[t] EXCEPT !.at = "make"]
                [] th[t].at = "quit" -> [th[t] EXCEPT !.stale = TRUE]
                [] OTHER -> th[t]]
  BY DEF Free
<1>3. ASSUME NEW c \in Clients PROVE StillDeletes(th[c], th'[c])
  <2>0. th[c] \in Thread /\ c # loop /\ c \in Threads
    BY <1>1 DEF KeepInv, ThreadsOK
  <2>1. CASE th[c].at = "quit"
    <3>1. th'[c] = [th[c] EXCEPT !.stale = TRUE]
      BY <1>2, <2>0, <2>1
    <3>2. th'[c].job = th[c].job
      BY <2>0, <3>1 DEF Thread
    <3> QED
      BY <2>1, <3>2 DEF StillDeletes, UnlistedInv, JobInv, DeletePlaces
  <2>2. CASE th[c].at # "quit"
    <3>1. th'[c] = th[c]
      BY <1>2, <2>0, <2>2
    <3> QED
      BY <3>1 DEF StillDeletes, UnlistedInv, JobInv
  <2> QED
    BY <2>1, <2>2
<1>4. AddInv'
  <2>1. th'[loop] = [th[loop] EXCEPT !.at = "make"]
    BY <1>1, <1>2 DEF Free, At
  <2>2. th[loop] \in Thread
    BY <1>1 DEF KeepInv, ThreadsOK
  <2>3. th'[loop].at = "make"
    BY <2>1, <2>2 DEF Thread
  <2> QED
    BY <2>3 DEF AddInv
<1>5. DataKept
  BY <1>1 DEF DataKept, Listed, Stays, Queued, devices
<1> QED
  BY <1>3, <1>4, <1>5, StillUnlisted

\* The record is deleted: the client has yet to fill the table and to tell the
\* device (Client.cpp:322-342, sysconf.cpp:262-265).
LEMMA RemoveUnlisted ==
  ASSUME KeepInv, UnlistedInv, Apart', NEW c \in Clients, NEW p \in Near, Remove(c, p)
  PROVE  UnlistedInv'
<1>0. /\ p \in Phones /\ Clients \subseteq Threads /\ loop \in Threads \ Clients
      /\ file \in [Phones -> {"none", "torn", "whole"}]
  BY DiscoveryAssumption DEF KeepInv, ThreadsOK, RecordsTypeOK
<1>1. /\ th[c].at = "idle"
      /\ file' = [file EXCEPT ![p] = "none"] /\ UNCHANGED <<cache, devices>>
      /\ th' = [t \in Threads |->
                 CASE t = c -> [at |-> "lock", ph |-> p, n |-> 0, job |-> "remove", stale |-> FALSE]
                   [] t # c /\ th[t].at = "write" /\ th[t].ph = p -> [th[t] EXCEPT !.stale = TRUE]
                   [] OTHER -> th[t]]
  BY DEF Remove, Unlink, At
<1>2. th'[c].at = "lock" /\ th'[c].ph = p /\ th'[c].job = "remove"
  <2>1. th'[c] = [at |-> "lock", ph |-> p, n |-> 0, job |-> "remove", stale |-> FALSE]
    BY <1>0, <1>1
  <2> QED
    BY <2>1
<1>3. ASSUME NEW t \in Threads, t # c
      PROVE  /\ th'[t].at = th[t].at /\ th'[t].job = th[t].job /\ th'[t].ph = th[t].ph
             /\ th'[t].n = th[t].n
  <2>1. th[t] \in Thread
    BY DEF KeepInv, ThreadsOK
  <2>2. CASE th[t].at = "write" /\ th[t].ph = p
    <3>1. th'[t] = [th[t] EXCEPT !.stale = TRUE]
      BY <1>1, <1>3, <2>2
    <3> QED
      BY <2>1, <3>1 DEF Thread
  <2>3. CASE ~(th[t].at = "write" /\ th[t].ph = p)
    <3>1. th'[t] = th[t]
      BY <1>1, <1>3, <2>3
    <3> QED
      BY <3>1
  <2> QED
    BY <2>2, <2>3
<1>4. JobInv'
  BY <1>0, <1>2, <1>3 DEF UnlistedInv, JobInv, DeletePlaces
<1>5. AddInv'
  <2>1. Removing'
    BY <1>2 DEF Removing
  <2> QED
    BY <2>1 DEF Apart, AddInv
<1>6. th[c].job # "remove"
  BY <1>1 DEF UnlistedInv, JobInv, DeletePlaces
<1>7. DeletedInv'
  <2> SUFFICES ASSUME NEW q \in Phones, file'[q] = "none"
               PROVE  /\ q \in cache => \E e \in Clients : Deletes(e, q)' /\ th'[e].at = "lock"
                      /\ \A d \in Listed(q) : Stays(d) => \E e \in Clients : TellsOf(e, q, d)'
    BY <1>1 DEF DeletedInv, Listed, Stays, Queued, devices
  <2>1. CASE q = p
    BY <1>2, <2>1 DEF Deletes, TellsOf
  <2>2. CASE q # p
    <3>1. file[q] = "none"
      BY <1>0, <1>1, <2>2
    <3>2. \A e \in Clients :
            Deletes(e, q) => Deletes(e, q)' /\ th'[e].at = th[e].at /\ InHand(e)' = InHand(e)
      BY <1>0, <1>3, <1>6 DEF Deletes, InHand
    <3> QED
      BY <3>1, <3>2 DEF UnlistedInv, DeletedInv, TellsOf
  <2> QED
    BY <2>1, <2>2
<1> QED
  BY <1>4, <1>5, <1>7 DEF UnlistedInv

\* The client has found the device, if there is one, or told it, and is done
\* (Muxer.cpp:251-263).
LEMMA UnpairUnlisted ==
  ASSUME KeepInv, DevicesOK, UnlistedInv, NEW c \in Clients, Unpair(c) \/ Forget(c)
  PROVE  UnlistedInv'
<1>0. Clients \subseteq Threads /\ loop \in Threads \ Clients /\ th[c] \in Thread
  BY DiscoveryAssumption DEF KeepInv, ThreadsOK
<1>1. PICK p, e : p = Phone(c) /\ e = InHand(c)
  OBVIOUS
<1>2. /\ th[c].at \in {"unpair", "forget"} /\ UNCHANGED <<file, cache, listed>>
      /\ \/ Got(c, "forget")
         \/ Returns(c) /\ \A d \in Listed(p) : Stays(d)' => th[c].at = "forget" /\ d # e
      /\ \A d \in listed : Stays(d)' => Stays(d)
  <2>1. CASE Unpair(c)
    BY <1>1, <2>1 DEF Unpair, At, records, devices, Got, Stays, Queued
  <2>2. CASE Forget(c)
    <3>1. /\ th[c].at = "forget" /\ UNCHANGED <<file, cache, listed>> /\ Returns(c)
          /\ quiet' = quiet \cup {e} /\ queue' = Append(queue, e)
          /\ queue \in Seq(Phones \X Nat) /\ e \in Phones \X Nat
      BY <1>0, <1>1, <2>2 DEF Forget, At, records, Quieted, DevicesOK, Known
    <3>2. Queued(e)' /\ \A d : Queued(d) => Queued(d)'
      <4>1. queue'[Len(queue) + 1] = e /\ Len(queue) + 1 \in DOMAIN queue'
        BY <3>1
      <4>2. \A i \in DOMAIN queue : i \in DOMAIN queue' /\ queue'[i] = queue[i]
        BY <3>1
      <4> QED
        BY <4>1, <4>2 DEF Queued
    <3>3. \A d : Stays(d)' => Stays(d) /\ d # e
      BY <3>1, <3>2 DEF Stays
    <3> QED
      BY <3>1, <3>3
  <2> QED
    BY <2>1, <2>2
<1>3. \A t \in Threads : t # c => th'[t] = th[t]
  BY <1>2 DEF Got, Returns, KeepInv, ThreadsOK
<1>4. CASE Returns(c) /\ \A d \in Listed(p) : Stays(d)' => th[c].at = "forget" /\ d # e
  <2>1. th'[c].job = "none"
    <3> DEFINE r == [at |-> IF c = loop THEN "poll" ELSE "idle", ph |-> Nobody, n |-> 0,
                     job |-> "none", stale |-> FALSE]
    <3>1. th' = [th EXCEPT ![c] = r] /\ r.job = "none"
      BY <1>4 DEF Returns
    <3> HIDE DEF r
    <3> QED
      BY <1>0, <3>1 DEF KeepInv, ThreadsOK
  <2>2. JobInv' /\ AddInv'
    BY <1>0, <1>2, <1>3, <2>1 DEF UnlistedInv, JobInv, AddInv
  <2>3. ASSUME NEW q \in Phones, file[q] = "none"
        PROVE  /\ q \in cache => \E u \in Clients : Deletes(u, q)' /\ th'[u].at = "lock"
               /\ \A d \in Listed(q) : Stays(d)' => \E u \in Clients : TellsOf(u, q, d)'
    <3>1. \A u \in Clients : u # c => th'[u] = th[u]
      BY <1>0, <1>3
    <3>2. q \in cache => \E u \in Clients : Deletes(u, q)' /\ th'[u].at = "lock"
      BY <1>2, <2>3, <3>1 DEF UnlistedInv, DeletedInv, Deletes
    <3>3. ASSUME NEW d \in Listed(q), Stays(d)' PROVE \E u \in Clients : TellsOf(u, q, d)'
      <4>1. PICK u \in Clients : TellsOf(u, q, d)
        BY <1>2, <2>3, <3>3 DEF UnlistedInv, DeletedInv, Listed
      <4>2. u # c
        BY <1>1, <1>4, <3>3, <4>1 DEF TellsOf, Deletes, Phone
      <4> QED
        BY <3>1, <4>1, <4>2 DEF TellsOf, Deletes, InHand
    <3> QED
      BY <3>2, <3>3
  <2>4. DeletedInv'
    BY <1>2, <2>3 DEF DeletedInv, Listed
  <2> QED
    BY <2>2, <2>4 DEF UnlistedInv
<1>5. CASE Got(c, "forget")
  <2>1. PICK d \in Listed(p) : th' = [th EXCEPT ![c].at = "forget", ![c].n = d[2]]
    BY <1>1, <1>5 DEF Got
  <2>2. /\ th'[c].at = "forget" /\ th'[c].ph = th[c].ph /\ th'[c].job = th[c].job
        /\ th'[c].n = d[2]
    BY <1>0, <2>1 DEF Thread, KeepInv, ThreadsOK
  <2>3. d = <<d[1], d[2]>> /\ d[1] = p /\ p = th[c].ph
    BY <1>1, <2>1 DEF Listed, DevicesOK, Known, Phone
  <2>4. InHand(c)' = d
    BY <2>2, <2>3 DEF InHand
  <2>5. JobInv' /\ AddInv'
    BY <1>0, <1>2, <1>3, <2>2 DEF UnlistedInv, JobInv, AddInv, DeletePlaces
  <2>6. ASSUME NEW q \in Phones, file[q] = "none"
        PROVE  /\ q \in cache => \E u \in Clients : Deletes(u, q)' /\ th'[u].at = "lock"
               /\ \A f \in Listed(q) : Stays(f)' => \E u \in Clients : TellsOf(u, q, f)'
    <3>1. \A u \in Clients : u # c => th'[u] = th[u]
      BY <1>0, <1>3
    <3>2. q \in cache => \E u \in Clients : Deletes(u, q)' /\ th'[u].at = "lock"
      BY <1>2, <2>6, <3>1 DEF UnlistedInv, DeletedInv, Deletes
    <3>3. ASSUME NEW f \in Listed(q), Stays(f)' PROVE \E u \in Clients : TellsOf(u, q, f)'
      <4>1. PICK u \in Clients : TellsOf(u, q, f)
        BY <1>2, <2>6, <3>3 DEF UnlistedInv, DeletedInv, Listed
      <4>2. CASE u # c
        BY <3>1, <4>1, <4>2 DEF TellsOf, Deletes, InHand
      <4>3. CASE u = c
        <5>1. q = p
          BY <2>3, <4>1, <4>3 DEF TellsOf, Deletes
        <5>2. f = d
          BY <2>1, <2>3, <3>3, <5>1 DEF Listed, DevicesOK
        <5> QED
          BY <2>2, <2>4, <4>1, <4>3, <5>2 DEF TellsOf, Deletes
      <4> QED
        BY <4>2, <4>3
    <3> QED
      BY <3>2, <3>3
  <2>7. DeletedInv'
    BY <1>2, <2>6 DEF DeletedInv, Listed
  <2> QED
    BY <2>5, <2>7 DEF UnlistedInv
<1> QED
  BY <1>2, <1>4, <1>5

\* Every step, while the premise holds.
LEMMA UnlistedStep ==
  KeepInv /\ DevicesOK /\ UnlistedInv /\ Apart /\ Apart' /\ [Next]_vars => UnlistedInv'
<1> SUFFICES ASSUME KeepInv, DevicesOK, UnlistedInv, Apart, Apart', [Next]_vars
             PROVE  UnlistedInv'
  OBVIOUS
<1>1. ASSUME NEW c \in Clients, Client(c) PROVE UnlistedInv'
  BY <1>1, ClientUnlisted, ReloadUnlisted, UnpairUnlisted DEF Client
<1>2. ASSUME NEW c \in Clients, Refresh(c) \/ \E p \in Near : Save(c, p) \/ Remove(c, p)
      PROVE  UnlistedInv'
  BY <1>2, ClientUnlisted, RemoveUnlisted
<1>3. CASE Reaper \/ Destructor \/ Stop
  BY <1>3, LoopUnlisted DEF Reaper, Destructor
<1>4. ASSUME UNCHANGED <<records, th, listed, quiet>>, \A d : Queued(d) => Queued(d)'
      PROVE  UnlistedInv'
  <2>1. DataKept
    BY <1>4 DEF DataKept, Listed, Stays, records
  <2>2. AddInv' /\ \A c \in Clients : StillDeletes(th[c], th'[c])
    BY <1>4 DEF UnlistedInv, AddInv, JobInv, StillDeletes, records
  <2> QED
    BY <2>1, <2>2, StillUnlisted
<1>5. CASE \/ \E p \in Near : FoundPairing(p)
           \/ \E s \in Services : ResolveFails(s) \/ Announced(s) \/ Withdrawn(s)
           \/ ServerFails \/ UNCHANGED vars
  <2>1. UNCHANGED <<records, th, listed, quiet, queue>>
    BY <1>5 DEF FoundPairing, ResolveFails, Announced, Withdrawn, ServerFails, vars, devices
  <2> QED
    BY <1>4, <2>1 DEF Queued
<1>6. ASSUME NEW p \in Near, DeviceLost(p) PROVE UnlistedInv'
  <2>1. PICK d \in Listed(p) : queue' = Append(queue, d)
    BY <1>6 DEF DeviceLost
  <2>2. queue \in Seq(Phones \X Nat) /\ d \in Phones \X Nat
    BY <2>1 DEF DevicesOK, Known, Listed
  <2>3. \A i \in DOMAIN queue : i \in DOMAIN queue' /\ queue'[i] = queue[i]
    BY <2>1, <2>2
  <2> QED
    BY <1>4, <1>6, <2>3 DEF DeviceLost, Queued
<1>7. CASE Loop
  BY <1>5, <1>7, LoopUnlisted, FreeUnlisted, ReloadUnlisted DEF Loop
<1> QED
  BY <1>1, <1>2, <1>3, <1>5, <1>6, <1>7 DEF Next

\* In the beginning there is no device and the table is empty.
LEMMA InitUnlisted == Init => UnlistedInv
<1> SUFFICES ASSUME Init PROVE UnlistedInv
  OBVIOUS
<1>1. \A t \in Threads : th[t].job = "none" /\ th[t].at \notin {"add", "again"}
  BY DEF Init
<1>2. JobInv /\ AddInv
  BY <1>1, DiscoveryAssumption DEF JobInv, AddInv
<1>3. DeletedInv
  BY DEF Init, RecordsInit, DeletedInv, Listed
<1> QED
  BY <1>2, <1>3 DEF UnlistedInv

\* However requests, lookups, losses and the reaper meet: once whoever deleted a
\* record is through, its phone's device is not listed, or the reaper has it queued
\* and will not have it looked for again, as long as no record is deleted while
\* discovery's loop is about a phone (Client.cpp:322-342, Muxer.cpp:251-263,
\* WIFIDevice.cpp:134-142, WIFIDeviceManager-avahi.cpp:286-306).
THEOREM DeletedStayUnlisted == Spec => UnpairedUnlisted
<1> DEFINE Unlisted ==
      \A p \in Phones :
        file[p] = "none" /\ (\A c \in Clients : th[c].ph # p) =>
          \A d \in Listed(p) : d \in quiet /\ Queued(d)
<1>1. UnlistedInv => Unlisted
  BY DEF UnlistedInv, DeletedInv, Deletes, TellsOf, Stays, Listed
<1> HIDE DEF Unlisted
<1>2. Spec /\ []Apart => []UnlistedInv
  BY InitUnlisted, UnlistedStep, KeepInvariant, PTL DEF Spec
<1>3. Spec /\ []Apart => []Unlisted
  BY <1>1, <1>2, PTL
<1>4. UnpairedUnlisted <=> ([]Apart => []Unlisted)
  BY DEF UnpairedUnlisted, RemovalsApart, Apart, Unlisted
<1> QED
  BY <1>3, <1>4
=============================================================================
