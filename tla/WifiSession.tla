----------------------------- MODULE WifiSession -----------------------------
(***************************************************************************)
(* One WIFIDevice and the heartbeat sessions it has, one after the other.  *)
(*                                                                         *)
(* A session is a worker thread and a few flags. The thread of discovery   *)
(* announces the device and its new addresses, clients ask for a reconnect *)
(* or unpair, the manager's reaper takes the device apart, and ~WIFIDevice *)
(* runs on whatever thread had the last reference. All of them call start, *)
(* stop and notifyDiscoveryUpdate of the same session, which has no lock.  *)
(*                                                                         *)
(* The device's address list is its version. Times are left out: a wait    *)
(* may end at any moment.                                                  *)
(***************************************************************************)
EXTENDS Integers, FiniteSets

CONSTANTS
  disc, reaper, dtor,   \* discovery, the manager's reaper, ~WIFIDevice
  Clients,              \* threads that ask for one reconnect each
  Sessions,             \* numbers of session objects that exist at a time
  MaxVersion,           \* bound: discovery updates that change something
  MaxKills              \* bound: references in _reapDevices at which nobody
                        \* unpairs and discovery reports nothing

None == 0
Threads == {disc, reaper, dtor} \cup Clients

ASSUME SessionAssumption ==
  /\ disc # reaper /\ disc # dtor /\ reaper # dtor
  /\ {disc, reaper, dtor} \cap Clients = {}
  /\ Sessions \subseteq Nat \ {None}
  /\ {MaxVersion, MaxKills} \subseteq Nat

VARIABLES
  mode,     \* "strict": a failure removes the device (no allowHeartlessWifi),
            \* "once": it ends the session, "retry": the session tries again
  obj,      \* the object: "alive", "dying" (destructor), "gone"
  inMux,    \* the muxer lists it
  version,  \* _discoveryVersion
  cur,      \* _session
  so,       \* the session objects
  th,       \* the threads
  reapq,    \* references in _reapDevices
  asked,    \* history: a reconnect was requested and no attempt ended since
  raced,    \* history: "calls" met each other or the "ending" of a worker, or came
            \* "late", after deconstruct()
  late,     \* history: sessions that were made late
  crashed   \* the process was terminated

device == <<mode, obj, inMux, version, cur>>
history == <<asked, raced, late>>
vars == <<device, so, th, reapq, history, crashed>>

\* runloop() has a reference to the device in these places.
Holding == {"snap", "clear", "connecting", "connected", "left", "failed", "wait"}

\* _worker (all but "none" are joinable) and where it is, _stopRequested,
\* _started, _reconnectRequested, _pendingDiscoveryVersion and
\* _appliedDiscoveryVersion.
Session == [wk : Holding \cup {"none", "top", "end", "ended"},
            stop : BOOLEAN, started : BOOLEAN, reconn : BOOLEAN,
            pending : Nat, applied : Nat]

\* Where a thread is, the session and the version it holds, and where it goes on
\* once it has let go of the session.
Thread == [at : {"add", "idle", "get", "update", "confirm", "start", "rejoin", "claim",
                 "set", "spawn", "request", "take", "stop", "join", "release", "delete",
                 "erase", "done"},
           ses : Sessions \cup {None}, ver : Nat,
           then : {"idle", "get", "done", "delete", "erase"}]

\* The constructor of a session.
Blank == [wk |-> "none", stop |-> FALSE, started |-> FALSE, reconn |-> FALSE,
          pending |-> 0, applied |-> 0]

Init ==
  /\ mode \in {"strict", "once", "retry"}
  /\ obj = "alive" /\ inMux = FALSE /\ version = 1
  /\ cur = None
  /\ so = [s \in Sessions |-> Blank]
  /\ th = [t \in Threads |-> [at |-> IF t = disc THEN "add" ELSE "idle",
                              ses |-> None, ver |-> 0, then |-> "idle"]]
  /\ reapq = 0
  /\ asked = FALSE /\ raced = {} /\ late = {} /\ crashed = FALSE

-----------------------------------------------------------------------------
\* The process lives, and thread t or the worker of session s is at a place.
At(t, place) == ~crashed /\ th[t].at = place
In(s, place) == ~crashed /\ so[s].wk = place

Go(t, place) == th' = [th EXCEPT ![t].at = place]

\* Who owns a shared_ptr to the device, apart from the worker of session s.
ReferencedWithout(s) ==
  \/ inMux \/ reapq > 0
  \/ \E t \in Threads \ {dtor} : th[t].at \notin {"idle", "done"}
  \/ \E w \in Sessions \ {s} : so[w].wk \in Holding

Referenced == ReferencedWithout(None) \/ \E s \in Sessions : so[s].wk \in Holding

Owned(s) == cur = s \/ \E t \in Threads : th[t].ses = s

\* std::make_shared: an object nobody has.
Fresh(s) == ~Owned(s) /\ \A w \in Sessions : w < s => Owned(w)

\* Nobody but thread t has session s.
LastOwner(t, s) == cur # s /\ \A u \in Threads \ {t} : th[u].ses # s

\* A thread other than t is inside a call of session s that changes its flags.
Meets(t, s) ==
  \E u \in Threads \ {t} :
    th[u].ses = s /\ th[u].at \in {"start", "rejoin", "claim", "set", "spawn", "stop",
                                   "join", "update", "confirm"}

Note(it, happened) == raced' = IF happened THEN raced \cup {it} ELSE raced

\* deconstruct() has taken the session away.
Torn == th[disc].at # "add" /\ (~inMux \/ th[reaper].at \notin {"idle", "take"})

-----------------------------------------------------------------------------
(* WIFIDevice: who calls, and for what. *)

\* device_add, and add_device up to startLoop(): the device is listed.
AddDevice ==
  /\ At(disc, "add")
  /\ inMux' = TRUE
  /\ Go(disc, "get")
  /\ UNCHANGED <<mode, obj, version, cur, so, reapq, history, crashed>>

\* Mutant: that there may be no session is forgotten.
AssumeSession == TRUE
HasSession == cur # None

\* The resolver finds a service of a device that is listed already:
\* updateDiscoveryInfo, the section under _sessionLck.
FoundAgain ==
  /\ At(disc, "idle") /\ inMux /\ reapq < MaxKills
  /\ version' \in {version, version + 1} /\ version' <= MaxVersion
  /\ IF HasSession
       THEN /\ th' = [th EXCEPT ![disc] =
                       [at |-> IF version' = version THEN "confirm" ELSE "update",
                        ses |-> cur, ver |-> version', then |-> "get"]]
            /\ Note("calls", Meets(disc, cur))
       ELSE Go(disc, "get") /\ UNCHANGED raced
  /\ UNCHANGED <<mode, obj, inMux, cur, so, reapq, asked, late, crashed>>

\* Mutant: only the flag is passed on.
TellNothing(v, s) == so[s].pending
Tell(v, s) == v

\* notifyDiscoveryUpdate, which asks for a reconnect if something changed.
Notify ==
  LET s == th[disc].ses IN
    /\ At(disc, "update") \/ At(disc, "confirm")
    /\ so' = [so EXCEPT ![s].pending = Tell(th[disc].ver, s),
                        ![s].reconn = @ \/ th[disc].at = "update"]
    /\ th' = [th EXCEPT ![disc].at = "release", ![disc].ver = 0]
    /\ UNCHANGED <<device, reapq, history, crashed>>

\* reconnect_wifi_sessions_now, which keeps _devicesGuard for reading.
Refresh(c) ==
  /\ At(c, "idle") /\ inMux
  /\ Go(c, "get")
  /\ UNCHANGED <<device, so, reapq, history, crashed>>

\* cleanup_wifi_device_after_unpair: kill().
Unpair ==
  /\ ~crashed /\ inMux /\ reapq < MaxKills
  /\ reapq' = reapq + 1
  /\ UNCHANGED <<device, so, th, history, crashed>>

\* ensureSession, requestSessionReconnectNow: the section under _sessionLck.
GetSession(t) ==
  /\ At(t, "get")
  /\ IF HasSession THEN cur' = cur ELSE \E s \in Sessions : Fresh(s) /\ cur' = s
  /\ th' = [th EXCEPT ![t].at = "start", ![t].ses = cur',
                      ![t].then = IF t = disc THEN "idle" ELSE "done"]
  /\ raced' = raced \cup (IF Torn THEN {"late"} ELSE {})
                   \cup (IF Meets(t, cur') THEN {"calls"} ELSE {})
  /\ late' = IF Torn /\ ~HasSession THEN late \cup {cur'} ELSE late
  /\ UNCHANGED <<mode, obj, inMux, version, so, reapq, asked, crashed>>

-----------------------------------------------------------------------------
(* WIFIConnectionSession::start *)

\* What follows start(): a client asks for the reconnect.
Return(t) == IF t \in Clients THEN "request" ELSE "release"

\* Mutant: a worker that came to its end is not joined.
EntersWithoutJoin(t, s) ==
  IF so[s].wk # "none" /\ so[s].started THEN Return(t) ELSE "claim"

\* A worker that is running is left alone, one that has ended is joined.
Enters(t, s) ==
  CASE so[s].wk = "none" -> "claim"
    [] so[s].wk # "none" /\ so[s].started -> Return(t)
    [] OTHER -> "rejoin"

\* Past a worker's last look at the flags: what comes now it does not see.
Deaf(place) == place \in {"end", "ended"} \/ (place = "failed" /\ mode # "retry")

Start(t) ==
  LET s == th[t].ses IN
    /\ At(t, "start")
    /\ Go(t, Enters(t, s))
    /\ Note("ending", t \in Clients /\ so[s].started /\ Deaf(so[s].wk))
    /\ UNCHANGED <<device, so, reapq, asked, late, crashed>>

\* _worker.join() by start() or stop(). When another thread has joined it
\* meanwhile it throws, and somebody up the stack is noexcept.
Joined(s, started) ==
  \/ /\ so[s].wk = "ended"
     /\ so' = [so EXCEPT ![s].wk = "none", ![s].started = started]
     /\ UNCHANGED crashed
  \/ /\ so[s].wk = "none"
     /\ crashed' = TRUE
     /\ UNCHANGED so

Rejoin(t) ==
  /\ At(t, "rejoin")
  /\ Joined(th[t].ses, so[th[t].ses].started)
  /\ Go(t, "claim")
  /\ UNCHANGED <<device, reapq, history>>

\* The compare-and-swap on _started, and the snapshot of the device's version.
Claim(t) ==
  LET s == th[t].ses IN
    /\ At(t, "claim")
    /\ so' = [so EXCEPT ![s].started = TRUE]
    /\ th' = IF so[s].started THEN [th EXCEPT ![t].at = Return(t)]
             ELSE [th EXCEPT ![t].at = "set", ![t].ver = version]
    /\ UNCHANGED <<device, reapq, history, crashed>>

\* The flags are set back.
SetFlags(t) ==
  LET s == th[t].ses IN
    /\ At(t, "set")
    /\ so' = [so EXCEPT ![s].pending = th[t].ver, ![s].applied = th[t].ver,
                        ![s].stop = FALSE, ![s].reconn = FALSE]
    /\ th' = [th EXCEPT ![t].at = "spawn", ![t].ver = 0]
    /\ UNCHANGED <<device, reapq, history, crashed>>

\* _worker = std::thread(...): terminates when there is a joinable one.
Spawn(t) ==
  LET s == th[t].ses IN
    /\ At(t, "spawn")
    /\ crashed' = (so[s].wk # "none")
    /\ so' = [so EXCEPT ![s].wk = "top"]
    /\ Go(t, Return(t))
    /\ UNCHANGED <<device, reapq, history>>

\* requestReconnectNow
Request(c) ==
  LET s == th[c].ses IN
    /\ At(c, "request")
    /\ so' = [so EXCEPT ![s].reconn = TRUE]
    /\ asked' = TRUE
    /\ Go(c, "release")
    /\ UNCHANGED <<device, reapq, raced, late, crashed>>

-----------------------------------------------------------------------------
(* WIFIConnectionSession::stop, letting go of a session, and teardown. *)

Stop(t) ==
  LET s == th[t].ses IN
    /\ At(t, "stop")
    /\ so' = [so EXCEPT ![s].stop = TRUE, ![s].reconn = FALSE]
    /\ Go(t, IF so[s].wk # "none" THEN "join" ELSE "release")
    /\ UNCHANGED <<device, reapq, history, crashed>>

Join(t) ==
  /\ At(t, "join")
  /\ Joined(th[t].ses, FALSE)
  /\ Go(t, "release")
  /\ UNCHANGED <<device, reapq, history>>

\* The thread's shared_ptr to the session goes. The last one runs
\* ~WIFIConnectionSession, which stops the worker if there is one.
Release(t) ==
  LET s == th[t].ses IN
    /\ At(t, "release")
    /\ IF LastOwner(t, s) /\ so[s].wk # "none"
         THEN Go(t, "stop") /\ UNCHANGED so
         ELSE /\ th' = [th EXCEPT ![t].at = th[t].then, ![t].ses = None, ![t].then = "idle"]
              /\ so' = IF LastOwner(t, s) THEN [so EXCEPT ![s] = Blank] ELSE so
    /\ UNCHANGED <<device, reapq, history, crashed>>

\* reaper_runloop takes a reference; deconstruct() begins.
Take ==
  /\ At(reaper, "idle") /\ reapq > 0
  /\ reapq' = reapq - 1
  /\ th' = [th EXCEPT ![reaper].at = "take", ![reaper].then = "delete"]
  /\ UNCHANGED <<device, so, history, crashed>>

\* Mutant: the session that was stopped stays the device's session.
ResetNot(session) == session
Reset(session) == None

\* stopSession, the section under _sessionLck.
TakeSession(t) ==
  /\ At(t, "take")
  /\ cur' = Reset(cur)
  /\ th' = IF HasSession THEN [th EXCEPT ![t].at = "stop", ![t].ses = cur]
           ELSE [th EXCEPT ![t].at = th[t].then, ![t].then = "idle"]
  /\ Note("calls", HasSession /\ Meets(t, cur))
  /\ UNCHANGED <<mode, obj, inMux, version, so, reapq, asked, late, crashed>>

\* Muxer::delete_device needs _devicesGuard for writing; then the reaper drops
\* its reference.
Delete ==
  /\ At(reaper, "delete")
  /\ \A c \in Clients : th[c].at \in {"idle", "done"}
  /\ inMux' = FALSE
  /\ Go(reaper, "idle")
  /\ UNCHANGED <<mode, obj, version, cur, so, reapq, history, crashed>>

\* ~WIFIDevice begins.
Destroy ==
  /\ ~crashed /\ obj = "alive" /\ ~Referenced
  /\ obj' = "dying"
  /\ th' = [th EXCEPT ![dtor].at = "take", ![dtor].then = "erase"]
  /\ UNCHANGED <<mode, inMux, version, cur, so, reapq, history, crashed>>

\* The device leaves _children.
Erase ==
  /\ At(dtor, "erase")
  /\ obj' = "gone"
  /\ Go(dtor, "done")
  /\ UNCHANGED <<mode, inMux, version, cur, so, reapq, history, crashed>>

-----------------------------------------------------------------------------
(* runloop *)

\* Session s's worker goes on to place, having killed the device or not. Where
\* the iteration ends its reference goes; ~WIFIDevice joins the worker of the
\* current session, and on that very thread it throws through a noexcept function.
Work(s, place, kills) ==
  /\ reapq' = reapq + kills
  /\ crashed' = (/\ so[s].wk \in Holding /\ place \notin Holding
                 /\ ~ReferencedWithout(s) /\ kills = 0 /\ cur = s)
  /\ Note("ending", Deaf(place) /\ \E c \in Clients : th[c].ses = s /\ th[c].at = "request")
  /\ UNCHANGED <<device, late, th>>

\* ... and changes no flag.
Walk(s, place) == so' = [so EXCEPT ![s].wk = place] /\ Work(s, place, 0)

\* Mutant: the flag is not looked at before the next attempt.
EndsWithoutDevice(s) == ~Referenced
Ends(s) == so[s].stop \/ ~Referenced

Top(s) ==
  /\ In(s, "top")
  /\ Walk(s, IF Ends(s) THEN "end" ELSE "snap")
  /\ UNCHANGED asked

\* runAttempt: the snapshot becomes the applied version,
Snapshot(s) ==
  /\ In(s, "snap")
  /\ so' = [so EXCEPT ![s].wk = "clear", ![s].applied = version]
  /\ Work(s, "clear", 0)
  /\ UNCHANGED asked

\* the request flag is cleared,
ClearRequest(s) ==
  /\ In(s, "clear")
  /\ so' = [so EXCEPT ![s].wk = "connecting", ![s].reconn = FALSE]
  /\ asked' = FALSE
  /\ Work(s, "connecting", 0)

\* and the heartbeat service is started, or not.
Attempt(s) ==
  /\ In(s, "connecting")
  /\ \/ Walk(s, "connected") /\ UNCHANGED asked
     \/ Walk(s, "failed") /\ asked' = FALSE

\* Mutant: a reconnect is due only if the version changed.
DueByVersion(s) == so[s].pending # so[s].applied
Due(s) == so[s].pending # so[s].applied \/ so[s].reconn

\* The heartbeat loop ends: it looked at the flags, or a heartbeat failed.
Leave(s) == In(s, "connected") /\ Walk(s, "left") /\ UNCHANGED asked

\* Stop; reconnect at once; wait because the phone went to sleep, or a failure.
Afterwards(s) ==
  /\ In(s, "left")
  /\ \/ so[s].stop /\ Walk(s, "end")
     \/ /\ ~so[s].stop /\ Due(s)
        /\ so' = [so EXCEPT ![s].wk = "top", ![s].reconn = FALSE]
        /\ Work(s, "top", 0)
     \/ ~so[s].stop /\ ~Due(s) /\ (Walk(s, "wait") \/ Walk(s, "failed"))
  /\ UNCHANGED asked

\* Without allowHeartlessWifi the device is killed, without retryWifiSession
\* the session ends, else it waits for its next try.
Failed(s) ==
  LET place == IF mode = "retry" THEN "wait" ELSE "end" IN
    /\ In(s, "failed")
    /\ so' = [so EXCEPT ![s].wk = place]
    /\ Work(s, place, IF mode = "strict" THEN 1 ELSE 0)
    /\ UNCHANGED asked

\* wait_for: notified, or the delay is over.
Wake(s) == In(s, "wait") /\ Walk(s, "top") /\ UNCHANGED asked

WorkerEnds(s) ==
  /\ In(s, "end")
  /\ so' = [so EXCEPT ![s].wk = "ended", ![s].started = FALSE]
  /\ Work(s, "ended", 0)
  /\ UNCHANGED asked

-----------------------------------------------------------------------------
\* What a thread does by itself once it has begun.
Step(t) ==
  \/ GetSession(t) \/ Start(t) \/ Rejoin(t) \/ Claim(t) \/ SetFlags(t) \/ Spawn(t)
  \/ TakeSession(t) \/ Stop(t) \/ Join(t) \/ Release(t)

Announce == AddDevice \/ Notify
Teardown == Take \/ Delete \/ Destroy \/ Erase

Worker(s) ==
  \/ Top(s) \/ Snapshot(s) \/ ClearRequest(s) \/ Attempt(s) \/ Leave(s)
  \/ Afterwards(s) \/ Failed(s) \/ Wake(s) \/ WorkerEnds(s)

Next ==
  \/ Announce \/ FoundAgain \/ Teardown \/ Unpair
  \/ \E c \in Clients : Refresh(c) \/ Request(c)
  \/ \E t \in Threads : Step(t)
  \/ \E s \in Sessions : Worker(s)

Spec == Init /\ [][Next]_vars

\* Threads go on, and libimobiledevice's calls return: a heartbeat within 15
\* seconds, so that the worker looks at its flags. Discovery, clients and the
\* phone are free.
Fairness ==
  /\ WF_vars(Announce) /\ WF_vars(Teardown)
  /\ \A t \in Threads : WF_vars(Step(t))
  /\ \A c \in Clients : WF_vars(Request(c))
  /\ \A s \in Sessions :
       WF_vars(Worker(s) /\ (so[s].wk = "connected" => so[s].stop \/ Due(s)))

FairSpec == Spec /\ Fairness

-----------------------------------------------------------------------------
\* The types. A thread inside a call has a session.
TypeOK ==
  /\ mode \in {"strict", "once", "retry"} /\ obj \in {"alive", "dying", "gone"}
  /\ inMux \in BOOLEAN /\ version \in Nat /\ reapq \in Nat
  /\ cur \in Sessions \cup {None}
  /\ so \in [Sessions -> Session] /\ th \in [Threads -> Thread]
  /\ asked \in BOOLEAN /\ raced \subseteq {"calls", "ending", "late"} /\ late \subseteq Sessions
  /\ crashed \in BOOLEAN
  /\ \A t \in Threads :
       th[t].ses = None => th[t].at \in {"add", "idle", "get", "take", "delete", "erase", "done"}

\* Unless calls of the session's functions meet, or come after deconstruct(), no
\* thread is joined twice, none is replaced while it runs, and no worker drops the
\* last reference to the device whose destructor would join it.
NoCrash == raced = {} => ~crashed

\* A session that was told of every update is told of the last one: were its
\* pending version another than the device's, every attempt would be followed by
\* the next at once, without the back-off (runloop, "reconnecting immediately").
UpToDate ==
  (raced = {} /\ cur # None /\ th[disc].at \notin {"update", "confirm"} /\ so[cur].wk # "none")
    => so[cur].pending = version

\* deconstruct() stops the device's session for good. Clients and discovery may come
\* late, and then make a session of their own, whose worker runs; but the worker of a
\* session from before is gone, and no late call starts it again.
StoppedForGood ==
  (raced \subseteq {"late"} /\ th[disc].at # "add" /\ (~inMux \/ th[reaper].at = "delete"))
    => \A s \in Sessions \ late : so[s].wk = "none"

Excused == raced # {} \/ crashed

\* A reconnect that was requested is followed by an attempt (or the one under way
\* fails), or the device goes.
RefreshAnswered == asked ~> (~asked \/ reapq > 0 \/ Torn \/ Excused)

\* A killed device is destroyed: deconstruct() and the destructor come back from
\* waiting for the worker, and everybody gives up his reference.
KilledDeviceDies == reapq > 0 ~> (obj = "gone" \/ Excused)
=============================================================================
