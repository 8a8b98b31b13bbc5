-------------------------- MODULE WifiSessionProofs --------------------------
(***************************************************************************)
(* Proofs about WifiSession, for any number of clients, sessions, updates  *)
(* and references: types, and as long as calls of a session do not meet,   *)
(* that no thread is joined twice and that the session knows the device's  *)
(* version. deconstruct() stops it for good also if calls come late.       *)
(***************************************************************************)
EXTENDS WifiSession, TLAPS

-----------------------------------------------------------------------------
(* Types. *)

\* Where a thread has no session.
Outside == {"add", "idle", "get", "take", "delete", "erase", "done"}

Places == Outside \cup {"update", "confirm", "start", "rejoin", "claim", "set", "spawn",
                        "request", "stop", "join", "release"}

RestOK ==
  /\ mode \in {"strict", "once", "retry"} /\ obj \in {"alive", "dying", "gone"}
  /\ inMux \in BOOLEAN /\ version \in Nat /\ reapq \in Nat
  /\ cur \in Sessions \cup {None}
  /\ asked \in BOOLEAN /\ raced \subseteq {"calls", "ending", "late"} /\ late \subseteq Sessions
  /\ crashed \in BOOLEAN

\* Thread t moves; session s changes.
Moves(t, at, ses, ver, then) ==
  /\ th' \in [Threads -> Thread]
  /\ \A u \in Threads \ {t} : th'[u] = th[u]
  /\ th'[t].at = at /\ th'[t].ses = ses /\ th'[t].ver = ver /\ th'[t].then = then

Sets(s, wk, started, pending) ==
  /\ so' \in [Sessions -> Session]
  /\ \A w \in Sessions \ {s} : so'[w] = so[w]
  /\ so'[s].wk = wk /\ so'[s].started = started /\ so'[s].pending = pending

\* The types are kept by a step that moves one thread to a place where it may be.
LEMMA TypesKept ==
  ASSUME TypeOK, RestOK', so' \in [Sessions -> Session], NEW t \in Threads,
         th' \in [Threads -> Thread], \A u \in Threads \ {t} : th'[u] = th[u],
         th'[t].ses = None => th'[t].at \in Outside
  PROVE  TypeOK'
<1>1. ASSUME NEW u \in Threads, th'[u].ses = None PROVE th'[u].at \in Outside
  BY <1>1 DEF TypeOK, Outside
<1> QED
  BY <1>1 DEF TypeOK, RestOK, Outside

\* A thread in a call has a session.
LEMMA HasOne ==
  ASSUME TypeOK, NEW t \in Threads, th[t].at \notin Outside
  PROVE  th[t].ses \in Sessions /\ th[t].ses # None
BY DEF TypeOK, Thread, Outside

\* A session is not None, nor is a thread's record anything but a record.
LEMMA Basics ==
  ASSUME TypeOK
  PROVE  /\ None \notin Sessions
         /\ RestOK /\ so \in [Sessions -> Session] /\ th \in [Threads -> Thread]
         /\ \A t \in Threads : th[t] \in Thread
         /\ \A s \in Sessions : so[s] \in Session
         /\ disc \in Threads /\ reaper \in Threads /\ dtor \in Threads /\ Clients \subseteq Threads
BY SessionAssumption DEF TypeOK, RestOK, Threads

\* What a step does that gives a thread or a session a new record.
LEMMA ThreadIs ==
  ASSUME TypeOK, NEW t \in Threads, NEW r \in Thread, th' = [th EXCEPT ![t] = r]
  PROVE  Moves(t, r.at, r.ses, r.ver, r.then)
BY DEF TypeOK, Moves

\* Go moves the thread and nothing else of it.
LEMMA GoIs ==
  ASSUME TypeOK, NEW t \in Threads, NEW place \in Places, Go(t, place)
  PROVE  Moves(t, place, th[t].ses, th[t].ver, th[t].then)
<1> DEFINE r == [th[t] EXCEPT !.at = place]
<1>1. th[t] \in Thread
  BY Basics
<1>2. r \in Thread /\ r.at = place /\ r.ses = th[t].ses /\ r.ver = th[t].ver /\ r.then = th[t].then
  BY <1>1 DEF Thread, Places, Outside
<1>3. th' = [th EXCEPT ![t] = r]
  BY DEF Go
<1> HIDE DEF r
<1> QED
  BY <1>2, <1>3, ThreadIs

\* The same for a session.
LEMMA SessionIs ==
  ASSUME TypeOK, NEW s \in Sessions, NEW r \in Session, so' = [so EXCEPT ![s] = r]
  PROVE  Sets(s, r.wk, r.started, r.pending)
BY DEF TypeOK, Sets

\* Whatever a step does, the variables other than so and th keep their types.
LEMMA RestStep == TypeOK /\ [Next]_vars => RestOK'
<1> SUFFICES ASSUME TypeOK, [Next]_vars PROVE RestOK'
  OBVIOUS
<1>0. RestOK
  BY Basics
<1> USE DEF RestOK
<1>1. CASE AddDevice
  BY <1>0, <1>1 DEF AddDevice, history
<1>2. CASE Notify
  BY <1>0, <1>2 DEF Notify, device, history
<1>3. CASE FoundAgain
  <2>1. version' \in Nat
    BY <1>0, <1>3 DEF FoundAgain
  <2>2. raced' \subseteq {"calls", "ending", "late"}
    BY <1>0, <1>3 DEF FoundAgain, Note
  <2> QED
    BY <1>0, <1>3, <2>1, <2>2 DEF FoundAgain
<1>4. CASE Take
  BY <1>0, <1>4 DEF Take, device, history
<1>5. CASE Delete \/ Destroy \/ Erase
  BY <1>0, <1>5 DEF Delete, Destroy, Erase, history
<1>6. CASE Unpair
  BY <1>0, <1>6 DEF Unpair, device, history
<1>7. ASSUME NEW c \in Clients, Refresh(c) \/ Request(c) PROVE RestOK'
  BY <1>0, <1>7 DEF Refresh, Request, device, history
<1>8. ASSUME NEW t \in Threads, Step(t) PROVE RestOK'
  <2>1. CASE GetSession(t)
    BY <1>0, <2>1 DEF GetSession, Note
  <2>2. CASE Start(t)
    BY <1>0, <2>2 DEF Start, Note, device
  <2>3. CASE Rejoin(t) \/ Join(t)
    BY <1>0, <2>3 DEF Rejoin, Join, Joined, device, history
  <2>4. CASE Claim(t) \/ SetFlags(t) \/ Stop(t) \/ Release(t)
    BY <1>0, <2>4 DEF Claim, SetFlags, Stop, Release, device, history
  <2>5. CASE Spawn(t)
    BY <1>0, <2>5 DEF Spawn, device, history
  <2>6. CASE TakeSession(t)
    BY <1>0, <2>6 DEF TakeSession, Reset, Note
  <2> QED
    BY <1>8, <2>1, <2>2, <2>3, <2>4, <2>5, <2>6 DEF Step
<1>9. ASSUME NEW s \in Sessions, Worker(s) PROVE RestOK'
  <2>1. ASSUME NEW place, NEW kills \in {0, 1}, Work(s, place, kills), asked' \in BOOLEAN
        PROVE  RestOK'
    BY <1>0, <2>1 DEF Work, Note, device
  <2>2. asked' \in BOOLEAN
    BY <1>0, <1>9 DEF Worker, Top, Snapshot, ClearRequest, Attempt, Leave, Afterwards, Failed,
       Wake, WorkerEnds
  <2>3. \E place : Work(s, place, 0) \/ Work(s, place, 1)
    <3>1. CASE Failed(s)
      BY <3>1 DEF Failed
    <3>2. CASE ~Failed(s)
      BY <1>9, <3>2 DEF Worker, Top, Snapshot, ClearRequest, Attempt, Leave, Afterwards, Walk,
         Wake, WorkerEnds
    <3> QED
      BY <3>1, <3>2
  <2> QED
    BY <2>1, <2>2, <2>3
<1>10. CASE UNCHANGED vars
  BY <1>0, <1>10 DEF vars, device, history
<1> QED
  BY <1>1, <1>2, <1>3, <1>4, <1>5, <1>6, <1>7, <1>8, <1>9, <1>10 DEF Next, Announce, Teardown

-----------------------------------------------------------------------------
(* The inductive invariant. It holds as long as calls have not met each other or *)
(* the end of a worker.                                                           *)

\* Inside a call that changes the session's flags (see Meets).
Calls == {"start", "rejoin", "claim", "set", "spawn", "stop", "join", "update", "confirm"}

\* The reaper alone stops sessions, ~WIFIDevice never has one, and nobody has one
\* outside of a call.
Role(t) ==
  /\ th[t].ses # None => th[t].at \notin Outside
  /\ t # disc => th[t].at \notin {"add", "update", "confirm"}
  /\ t = reaper =>
       /\ th[t].at \in {"idle", "take", "stop", "join", "release", "delete"}
       /\ th[t].at \in {"take", "stop", "join", "release"} => th[t].then = "delete"
  /\ t = dtor =>
       /\ th[t].at \in {"idle", "take", "erase", "done"}
       /\ th[t].at = "take" => th[t].then = "erase"
  /\ t \notin {reaper, dtor} =>
       /\ th[t].at \notin {"take", "stop", "join", "delete", "erase"}
       /\ th[t].then \notin {"delete", "erase"}

\* Nothing is there before the device is listed, which it is once.
Begin ==
  /\ th[disc].at = "add" =>
       /\ ~inMux /\ cur = None /\ reapq = 0
       /\ \A s \in Sessions : so[s].wk = "none"
       /\ \A t \in Threads : th[t].ses = None /\ (t # disc => th[t].at = "idle")
  /\ th[dtor].at # "idle" => ~inMux /\ th[disc].at # "add"

\* Calls of a session do not meet.
Exclusive ==
  \A t, u \in Threads :
    t # u /\ th[t].ses = th[u].ses /\ th[t].ses # None
      => ~(th[t].at \in Calls /\ th[u].at \in Calls)

\* Who joins has a worker, who makes one has none.
Joining(t) ==
  /\ th[t].at \in {"rejoin", "join"} => so[th[t].ses].wk # "none"
  /\ th[t].at \in {"claim", "set", "spawn"} => so[th[t].ses].wk = "none"

\* Until deconstruct() there is one session, the device's.
Together ==
  ~Torn =>
    /\ \A s \in Sessions : so[s].wk # "none" => s = cur
    /\ \A t \in Threads : th[t].ses # None => th[t].ses = cur

\* From then on the device has none, and what still runs is the reaper's.
Apart ==
  Torn =>
    /\ cur = None
    /\ \A s \in Sessions : so[s].wk # "none" =>
         inMux /\ th[reaper].ses = s /\ th[reaper].at \in {"stop", "join"}
    /\ \A t \in Threads : t # reaper /\ th[t].ses # None => th[t].at \in {"request", "release"}

\* The version on its way to the session is the device's.
Telling(t) ==
  /\ th[t].at \in {"set", "update", "confirm"} => th[t].ver = version
  /\ th[t].at = "spawn" => so[th[t].ses].pending = version

Told ==
  cur # None /\ th[disc].at \notin {"update", "confirm"} /\ so[cur].wk # "none"
    => so[cur].pending = version

Sound ==
  /\ ~crashed /\ Begin /\ Exclusive /\ Together /\ Apart /\ Told
  /\ \A t \in Threads : Role(t) /\ Joining(t) /\ Telling(t)

SessInv == TypeOK /\ (raced = {} => Sound)

\* Nobody has a session yet.
LEMMA InitSound == Init => SessInv
<1> SUFFICES ASSUME Init PROVE SessInv
  OBVIOUS
<1> USE DEF Init
<1>1. None \notin Sessions /\ disc \in Threads /\ reaper \in Threads /\ dtor \in Threads
  BY SessionAssumption DEF Threads
<1>2. so \in [Sessions -> Session]
  <2>1. Blank \in Session
    BY DEF Blank, Session, Holding
  <2> QED
    BY <2>1
<1>3. th \in [Threads -> Thread]
  BY DEF Thread
<1>4. ASSUME NEW t \in Threads
      PROVE  th[t].ses = None /\ th[t].then = "idle" /\ th[t].at = IF t = disc THEN "add" ELSE "idle"
  OBVIOUS
<1>5. TypeOK
  <2>1. cur \in Sessions \cup {None} /\ inMux \in BOOLEAN /\ version \in Nat /\ reapq \in Nat
        /\ asked \in BOOLEAN /\ raced \subseteq {"calls", "ending", "late"}
        /\ late \subseteq Sessions /\ crashed \in BOOLEAN
    OBVIOUS
  <2> QED
    BY <1>2, <1>3, <1>4, <2>1 DEF TypeOK
<1>6. \A s \in Sessions : so[s].wk = "none"
  BY DEF Blank
<1>7. disc # reaper /\ disc # dtor /\ reaper # dtor
  BY SessionAssumption
<1>8. ~Torn
  BY <1>1, <1>4 DEF Torn
<1>9. Sound
  <2>1. Begin
    BY <1>1, <1>4, <1>6, <1>7 DEF Begin
  <2>2. Exclusive /\ Together /\ Apart /\ Told
    BY <1>4, <1>6, <1>8 DEF Exclusive, Together, Apart, Told
  <2>3. ASSUME NEW t \in Threads PROVE Role(t) /\ Joining(t) /\ Telling(t)
    BY <1>4, <1>7 DEF Role, Joining, Telling
  <2> QED
    BY <2>1, <2>2, <2>3 DEF Sound
<1> QED
  BY <1>5, <1>9 DEF SessInv

-----------------------------------------------------------------------------
(* Frames: what a step need not be shown to keep. *)

\* The parts of Sound that one thread's step cannot disturb for the others.
LEMMA OthersKept ==
  ASSUME TypeOK, Sound, NEW t \in Threads,
         \A u \in Threads \ {t} : th'[u] = th[u],
         NEW u \in Threads \ {t},
         (so'[th[u].ses].wk = so[th[u].ses].wk) \/ th[u].at \notin {"rejoin", "join", "claim", "set", "spawn"},
         (so'[th[u].ses].pending = so[th[u].ses].pending) \/ th[u].at # "spawn",
         version' = version \/ th[u].at \notin {"set", "spawn", "update", "confirm"}
  PROVE  Role(u)' /\ Joining(u)' /\ Telling(u)'
<1>1. Role(u) /\ Joining(u) /\ Telling(u) /\ th'[u] = th[u]
  BY DEF Sound
<1>2. Role(u)'
  BY <1>1 DEF Role
<1>3. Joining(u)'
  BY <1>1 DEF Joining
<1>4. Telling(u)'
  BY <1>1 DEF Telling
<1> QED
  BY <1>2, <1>3, <1>4

\* A thread goes on inside its call, or leaves it.
LEMMA MoveKeeps ==
  ASSUME TypeOK, Sound, NEW t \in Threads,
         \A u \in Threads \ {t} : th'[u] = th[u],
         UNCHANGED <<version, inMux, cur>>, ~crashed',
         \A s \in Sessions : so'[s].wk = so[s].wk,
         \A s \in Sessions : \/ so'[s].pending = so[s].pending
                             \/ s # cur /\ \A u \in Threads \ {t} : th[u].ses # s,
         th[disc].at # "add", th'[disc].at # "add",
         t = dtor => th[t].at # "idle",
         t = disc => (th[t].at \in {"update", "confirm"} <=> th'[t].at \in {"update", "confirm"}),
         Torn' <=> Torn,
         th'[t].ses \in {th[t].ses, None},
         th'[t].at \in Calls => th[t].at \in Calls,
         Role(t)', Joining(t)', Telling(t)',
         Torn /\ t # reaper /\ th'[t].ses # None => th'[t].at \in {"request", "release"},
         Torn /\ t = reaper =>
           \A s \in Sessions : so[s].wk # "none" =>
             th'[t].ses = s /\ th'[t].at \in {"stop", "join"}
  PROVE  Sound'
<1>1. ~crashed /\ Begin /\ Exclusive /\ Together /\ Apart /\ Told
  BY DEF Sound
<1>2. Begin'
  BY <1>1, Basics DEF Begin
<1>3. Exclusive'
  BY <1>1 DEF Exclusive
<1>4. Together'
  BY <1>1 DEF Together
<1>5. Apart'
  <2>1. CASE t = reaper
    BY <1>1, <2>1 DEF Apart
  <2>2. CASE t # reaper
    BY <1>1, <2>2, Basics DEF Apart
  <2> QED
    BY <2>1, <2>2
<1>6. Told'
  <2> SUFFICES ASSUME cur # None, th'[disc].at \notin {"update", "confirm"}, so[cur].wk # "none"
               PROVE  so'[cur].pending = version
    BY Basics DEF Told, RestOK
  <2>1. th[disc].at \notin {"update", "confirm"} /\ cur \in Sessions
    BY Basics DEF RestOK
  <2> QED
    BY <1>1, <2>1 DEF Told
<1>7. ASSUME NEW u \in Threads \ {t} PROVE Role(u)' /\ Joining(u)' /\ Telling(u)'
  <2>1. CASE th[u].at \in Outside
    BY <2>1, OthersKept DEF Outside
  <2>2. CASE th[u].at \notin Outside
    <3>1. th[u].ses \in Sessions
      BY <2>2, HasOne
    <3>2. so'[th[u].ses].wk = so[th[u].ses].wk /\ so'[th[u].ses].pending = so[th[u].ses].pending
      BY <3>1
    <3> QED
      BY <3>2, OthersKept
  <2> QED
    BY <2>1, <2>2
<1> QED
  BY <1>2, <1>3, <1>4, <1>5, <1>6, <1>7 DEF Sound

\* A worker walks on.
LEMMA WalkKeeps ==
  ASSUME TypeOK, Sound, NEW s \in Sessions, UNCHANGED <<th, version, inMux, cur>>,
         ~crashed', \A w \in Sessions \ {s} : so'[w] = so[w],
         so[s].wk # "none", so'[s].wk # "none", so'[s].pending = so[s].pending
  PROVE  Sound'
<1>1. ~crashed /\ Begin /\ Exclusive /\ Together /\ Apart /\ Told
  BY DEF Sound
<1>2. \A w \in Sessions : /\ so'[w].wk = "none" <=> so[w].wk = "none"
                          /\ so'[w].pending = so[w].pending
  OBVIOUS
<1>3. Torn' <=> Torn
  BY DEF Torn
<1>4. Begin' /\ Exclusive'
  BY <1>1, <1>2 DEF Begin, Exclusive
<1>5. Together' /\ Apart'
  BY <1>1, <1>2, <1>3 DEF Together, Apart
<1>6. Told'
  BY <1>1, <1>2, Basics DEF Told, RestOK
<1>7. ASSUME NEW u \in Threads PROVE Role(u)' /\ Joining(u)' /\ Telling(u)'
  <2>1. Role(u) /\ Joining(u) /\ Telling(u)
    BY DEF Sound
  <2>2. th[u].at \notin Outside => th[u].ses \in Sessions
    BY HasOne
  <2> QED
    BY <1>2, <2>1, <2>2 DEF Role, Joining, Telling, Outside
<1> QED
  BY <1>4, <1>5, <1>6, <1>7 DEF Sound

-----------------------------------------------------------------------------
(* The worker. *)

\* A worker that drops its reference to the device is not the last: while the
\* device has a session the muxer lists it (WIFIDevice.cpp:134-144).
LEMMA WorkKeeps ==
  ASSUME TypeOK, RestOK', NEW s \in Sessions, NEW r \in Session, so' = [so EXCEPT ![s] = r],
         so[s].wk # "none", r.wk # "none", r.pending = so[s].pending,
         NEW place, NEW kills, Work(s, place, kills)
  PROVE  TypeOK' /\ (Sound => Sound')
<1>1. Sets(s, r.wk, r.started, r.pending) /\ th' = th
  BY SessionIs DEF Work
<1>2. TypeOK'
  BY <1>1 DEF Sets, TypeOK, RestOK
<1>3. ASSUME Sound PROVE Sound'
  <2>1. UNCHANGED <<th, version, inMux, cur>>
    BY DEF Work, device
  <2>2. ASSUME cur = s PROVE inMux
    <3>1. th[disc].at # "add" /\ ~Torn
      BY <1>3, <2>2, Basics DEF Sound, Begin, Apart
    <3> QED
      BY <3>1 DEF Torn
  <2>3. ~crashed'
    BY <2>2 DEF Work, ReferencedWithout
  <2> QED
    BY <1>1, <1>3, <2>1, <2>3, WalkKeeps DEF Sets
<1> QED
  BY <1>2, <1>3

\* A worker that changes no flag.
LEMMA WalksOn ==
  ASSUME TypeOK, RestOK', NEW s \in Sessions, so[s].wk # "none",
         NEW place \in Holding \cup {"top", "end", "ended"}, Walk(s, place)
  PROVE  TypeOK' /\ (Sound => Sound')
<1> DEFINE r == [so[s] EXCEPT !.wk = place]
<1>1. so[s] \in Session
  BY Basics
<1>2. r \in Session /\ r.wk = place /\ r.pending = so[s].pending
  BY <1>1 DEF Session, Holding
<1>3. so' = [so EXCEPT ![s] = r] /\ Work(s, place, 0) /\ place # "none"
  BY DEF Walk, Holding
<1> HIDE DEF r
<1> QED
  BY <1>2, <1>3, WorkKeeps

\* The steps of runloop().
LEMMA WorkerKeeps ==
  ASSUME TypeOK, RestOK', NEW s \in Sessions, Worker(s)
  PROVE  TypeOK' /\ (Sound => Sound')
<1>0. so[s] \in Session /\ so[s].wk # "none" /\ so \in [Sessions -> Session] /\ version \in Nat
  BY Basics DEF Worker, Top, Snapshot, ClearRequest, Attempt, Leave, Afterwards, Failed, Wake,
     WorkerEnds, In, RestOK
<1>1. CASE \E place \in Holding \cup {"top", "end", "ended"} : Walk(s, place)
  BY <1>0, <1>1, WalksOn
<1>2. CASE Snapshot(s)
  <2> DEFINE r == [so[s] EXCEPT !.wk = "clear", !.applied = version]
  <2>1. r \in Session /\ r.wk # "none" /\ r.pending = so[s].pending
    BY <1>0 DEF Session, Holding
  <2>2. so' = [so EXCEPT ![s] = r] /\ Work(s, "clear", 0)
    BY <1>0, <1>2 DEF Snapshot
  <2> HIDE DEF r
  <2> QED
    BY <1>0, <2>1, <2>2, WorkKeeps
<1>3. CASE ClearRequest(s)
  <2> DEFINE r == [so[s] EXCEPT !.wk = "connecting", !.reconn = FALSE]
  <2>1. r \in Session /\ r.wk # "none" /\ r.pending = so[s].pending
    BY <1>0 DEF Session, Holding
  <2>2. so' = [so EXCEPT ![s] = r] /\ Work(s, "connecting", 0)
    BY <1>0, <1>3 DEF ClearRequest
  <2> HIDE DEF r
  <2> QED
    BY <1>0, <2>1, <2>2, WorkKeeps
<1>4. CASE Afterwards(s)
  <2>1. CASE so' = [so EXCEPT ![s].wk = "top", ![s].reconn = FALSE] /\ Work(s, "top", 0)
    <3> DEFINE r == [so[s] EXCEPT !.wk = "top", !.reconn = FALSE]
    <3>1. r \in Session /\ r.wk # "none" /\ r.pending = so[s].pending
      BY <1>0 DEF Session, Holding
    <3>2. so' = [so EXCEPT ![s] = r]
      BY <1>0, <2>1
    <3> HIDE DEF r
    <3> QED
      BY <1>0, <2>1, <3>1, <3>2, WorkKeeps
  <2>2. CASE Walk(s, "end") \/ Walk(s, "wait") \/ Walk(s, "failed")
    BY <1>1, <2>2 DEF Holding
  <2> QED
    BY <1>4, <2>1, <2>2 DEF Afterwards
<1>5. CASE Failed(s)
  <2> DEFINE place == IF mode = "retry" THEN "wait" ELSE "end"
             r == [so[s] EXCEPT !.wk = place]
  <2>1. r \in Session /\ r.wk # "none" /\ r.pending = so[s].pending
    BY <1>0 DEF Session, Holding
  <2>2. so' = [so EXCEPT ![s] = r] /\ Work(s, place, IF mode = "strict" THEN 1 ELSE 0)
    BY <1>0, <1>5 DEF Failed
  <2> HIDE DEF r, place
  <2> QED
    BY <1>0, <2>1, <2>2, WorkKeeps
<1>6. CASE WorkerEnds(s)
  <2> DEFINE r == [so[s] EXCEPT !.wk = "ended", !.started = FALSE]
  <2>1. r \in Session /\ r.wk # "none" /\ r.pending = so[s].pending
    BY <1>0 DEF Session, Holding
  <2>2. so' = [so EXCEPT ![s] = r] /\ Work(s, "ended", 0)
    BY <1>0, <1>6 DEF WorkerEnds
  <2> HIDE DEF r
  <2> QED
    BY <1>0, <2>1, <2>2, WorkKeeps
<1>7. CASE Top(s)
  BY <1>1, <1>7 DEF Top, Holding
<1>8. CASE Attempt(s)
  BY <1>1, <1>8 DEF Attempt, Holding
<1>9. CASE Leave(s) \/ Wake(s)
  BY <1>1, <1>9 DEF Leave, Wake, Holding
<1> QED
  BY <1>2, <1>3, <1>4, <1>5, <1>6, <1>7, <1>8, <1>9 DEF Worker
-----------------------------------------------------------------------------
(* The calls of start() and notifyDiscoveryUpdate(). *)

\* What has to be shown of a step.
Kept == TypeOK' /\ (Sound /\ raced' = {} => Sound')

\* A thread inside a call goes on and changes its session. The session is the
\* device's, which has not been taken apart, and nobody else is inside a call.
LEMMA CallKeeps ==
  ASSUME TypeOK, Sound, NEW t \in Threads, NEW s \in Sessions, th[t].ses = s,
         th[t].at \in Calls \ {"stop", "join"},
         \A u \in Threads \ {t} : th'[u] = th[u],
         th'[t].ses = s, th'[t].then = th[t].then,
         th'[t].at \in {"rejoin", "claim", "set", "spawn", "request", "release"},
         \A w \in Sessions \ {s} : so'[w] = so[w],
         UNCHANGED <<version, inMux, cur>>, ~crashed',
         Joining(t)', Telling(t)',
         so'[s].wk # "none" => so'[s].pending = version
  PROVE  Sound'
<1>0. /\ ~crashed /\ Begin /\ Exclusive /\ Together /\ Apart /\ Told
      /\ \A u \in Threads : Role(u) /\ Joining(u) /\ Telling(u)
  BY DEF Sound
<1>1. t # reaper /\ t # dtor /\ s # None
  BY <1>0, Basics DEF Role, Calls
<1>2. ~Torn /\ th[disc].at # "add"
  BY <1>0, <1>1, Basics DEF Begin, Apart, Calls
<1>3. cur = s
  BY <1>0, <1>1, <1>2 DEF Together
<1>4. th'[reaper] = th[reaper] /\ th'[dtor] = th[dtor] /\ th'[disc].at # "add" /\ ~Torn'
  <2>1. th'[reaper] = th[reaper] /\ th'[dtor] = th[dtor]
    BY <1>1, Basics
  <2>2. th'[disc].at # "add"
    BY <1>2, Basics
  <2> QED
    BY <1>2, <2>1, <2>2 DEF Torn
<1>5. Begin'
  BY <1>0, <1>4 DEF Begin
<1>6. Exclusive'
  BY <1>0 DEF Exclusive
<1>7. Together'
  BY <1>0, <1>2, <1>3 DEF Together
<1>8. Apart'
  BY <1>4 DEF Apart
<1>9. Told'
  BY <1>3 DEF Told
<1>10. Role(t)'
  BY <1>0, <1>1 DEF Role, Outside
<1>11. ASSUME NEW u \in Threads \ {t} PROVE Role(u)' /\ Joining(u)' /\ Telling(u)'
  <2>1. CASE th[u].at \in Outside
    BY <2>1, OthersKept DEF Outside
  <2>2. CASE th[u].at \notin Outside
    <3>1. th[u].ses = s
      BY <1>0, <1>2, <1>3, <2>2, HasOne DEF Together
    <3>2. th[u].at \notin Calls
      BY <1>0, <1>1, <3>1 DEF Exclusive
    <3> QED
      BY <3>2, OthersKept DEF Calls
  <2> QED
    BY <2>1, <2>2
<1> QED
  BY <1>4, <1>5, <1>6, <1>7, <1>8, <1>9, <1>10, <1>11 DEF Sound

\* While a thread is inside a call of the session, discovery is not about to tell it
\* something else, so that it was told.
LEMMA ToldInside ==
  ASSUME TypeOK, Sound, NEW t \in Threads, NEW s \in Sessions, th[t].ses = s,
         th[t].at \in Calls \ {"stop", "join", "update", "confirm"}, so[s].wk # "none"
  PROVE  so[s].pending = version
<1>0. Told /\ Exclusive /\ Together /\ Apart /\ Role(t)
  BY DEF Sound
<1>1. t # reaper /\ s # None
  BY <1>0, Basics DEF Role, Calls
<1>2. cur = s
  BY <1>0, <1>1 DEF Together, Apart, Calls
<1>3. th[disc].at \notin {"update", "confirm"}
  <2> SUFFICES ASSUME th[disc].at \in {"update", "confirm"} PROVE FALSE
    OBVIOUS
  <2>1. th[disc].ses \in Sessions /\ th[disc].ses # None
    BY HasOne, Basics DEF Outside
  <2>2. ~Torn => th[disc].ses = s
    BY <1>0, <1>2, <2>1, Basics DEF Together
  <2>3. ~Torn
    BY <1>0, <1>1 DEF Apart, Calls
  <2> QED
    BY <1>0, <1>1, <2>2, <2>3, Basics DEF Exclusive, Calls
<1> QED
  BY <1>0, <1>1, <1>2, <1>3 DEF Told

\* start() finds out if there is a worker.
LEMMA StartKeeps == ASSUME TypeOK, RestOK', NEW t \in Threads, Start(t) PROVE Kept
<1>1. PICK s \in Sessions : s = th[t].ses /\ s # None
  BY HasOne DEF Start, At, Outside
<1>2. PICK place \in {"claim", "rejoin", "request", "release"} : place = Enters(t, s)
  BY DEF Enters, Return
<1>3. Moves(t, place, s, th[t].ver, th[t].then)
  BY <1>1, <1>2, GoIs DEF Start, Places
<1>4. so' = so /\ UNCHANGED <<version, inMux, cur, crashed>> /\ th[t].at = "start" /\ ~crashed
  BY DEF Start, At, device
<1>5. TypeOK'
  BY <1>1, <1>3, <1>4, Basics, TypesKept DEF Moves
<1>6. ASSUME Sound PROVE Sound'
  <2>1. Joining(t)' /\ Telling(t)'
    BY <1>1, <1>2, <1>3, <1>4 DEF Joining, Telling, Moves, Enters, Return
  <2>2. so'[s].wk # "none" => so'[s].pending = version
    BY <1>1, <1>4, <1>6, ToldInside DEF Calls
  <2> QED
    BY <1>1, <1>3, <1>4, <1>6, <2>1, <2>2, CallKeeps DEF Moves, Calls
<1> QED
  BY <1>5, <1>6 DEF Kept

\* The session, before and after _worker.join().
LEMMA JoinedIs ==
  ASSUME TypeOK, NEW s \in Sessions, NEW started \in BOOLEAN, Joined(s, started), ~crashed
  PROVE  /\ so' \in [Sessions -> Session]
         /\ \A w \in Sessions \ {s} : so'[w] = so[w]
         /\ so'[s].wk = "none" /\ so'[s].pending = so[s].pending
         /\ crashed' <=> so[s].wk = "none"
<1>1. CASE so[s].wk = "ended"
  <2> DEFINE r == [so[s] EXCEPT !.wk = "none", !.started = started]
  <2>1. r \in Session /\ r.wk = "none" /\ r.pending = so[s].pending
    BY Basics DEF Session
  <2>2. so' = [so EXCEPT ![s] = r] /\ crashed' = crashed
    BY <1>1, Basics DEF Joined
  <2> HIDE DEF r
  <2>3. Sets(s, r.wk, r.started, r.pending)
    BY <2>1, <2>2, SessionIs
  <2> QED
    BY <1>1, <2>1, <2>2, <2>3 DEF Sets
<1>2. CASE so[s].wk # "ended"
  BY <1>2, Basics DEF Joined
<1> QED
  BY <1>1, <1>2

\* start() joins a worker that has ended; nobody else does, so it is joined once.
LEMMA RejoinKeeps == ASSUME TypeOK, RestOK', NEW t \in Threads, Rejoin(t) PROVE Kept
<1>1. PICK s \in Sessions : s = th[t].ses /\ s # None
  BY HasOne DEF Rejoin, At, Outside
<1>2. Moves(t, "claim", s, th[t].ver, th[t].then)
  BY <1>1, GoIs DEF Rejoin, Places
<1>3. UNCHANGED <<version, inMux, cur>> /\ th[t].at = "rejoin" /\ ~crashed
  BY DEF Rejoin, At, device
<1>4. so[s].started \in BOOLEAN
  BY Basics DEF Session
<1>5. /\ so' \in [Sessions -> Session]
      /\ \A w \in Sessions \ {s} : so'[w] = so[w]
      /\ so'[s].wk = "none" /\ so'[s].pending = so[s].pending
      /\ crashed' <=> so[s].wk = "none"
  BY <1>1, <1>3, <1>4, JoinedIs DEF Rejoin
<1>6. TypeOK'
  BY <1>1, <1>2, <1>5, TypesKept DEF Moves
<1>7. ASSUME Sound PROVE Sound'
  <2>1. ~crashed'
    BY <1>1, <1>3, <1>5, <1>7 DEF Sound, Joining
  <2>2. Joining(t)' /\ Telling(t)'
    BY <1>2, <1>5 DEF Joining, Telling, Moves
  <2> QED
    BY <1>1, <1>2, <1>3, <1>5, <1>7, <2>1, <2>2, CallKeeps DEF Moves, Calls
<1> QED
  BY <1>6, <1>7 DEF Kept

\* start() claims the session, with the version the device has now.
LEMMA ClaimKeeps == ASSUME TypeOK, RestOK', NEW t \in Threads, Claim(t) PROVE Kept
<1>1. PICK s \in Sessions : s = th[t].ses /\ s # None
  BY HasOne DEF Claim, At, Outside
<1>2. UNCHANGED <<version, inMux, cur, crashed>> /\ th[t].at = "claim" /\ ~crashed
  BY DEF Claim, At, device
<1>3. /\ so' \in [Sessions -> Session]
      /\ \A w \in Sessions : so'[w].wk = so[w].wk /\ so'[w].pending = so[w].pending
      /\ \A w \in Sessions \ {s} : so'[w] = so[w]
  <2> DEFINE r == [so[s] EXCEPT !.started = TRUE]
  <2>1. r \in Session /\ r.wk = so[s].wk /\ r.pending = so[s].pending
    BY Basics DEF Session
  <2>2. so' = [so EXCEPT ![s] = r]
    BY <1>1, Basics DEF Claim
  <2> HIDE DEF r
  <2> QED
    BY <2>1, <2>2, SessionIs DEF Sets
<1>4. PICK place \in {"set", "request", "release"}, ver \in Nat :
        Moves(t, place, s, ver, th[t].then) /\ (place = "set" => ver = version)
  <2>0. th[t] \in Thread /\ version \in Nat /\ th \in [Threads -> Thread]
    BY Basics DEF RestOK
  <2>1. CASE so[s].started
    <3>1. PICK place \in {"request", "release"} : place = Return(t)
      BY DEF Return
    <3>2. Go(t, place)
      BY <1>1, <2>1, <3>1 DEF Claim, Go
    <3>3. Moves(t, place, s, th[t].ver, th[t].then) /\ th[t].ver \in Nat
      BY <1>1, <2>0, <3>2, GoIs DEF Places, Thread
    <3> QED
      BY <3>3
  <2>2. CASE ~so[s].started
    <3> DEFINE r == [th[t] EXCEPT !.at = "set", !.ver = version]
    <3>1. r \in Thread /\ r.at = "set" /\ r.ses = s /\ r.ver = version /\ r.then = th[t].then
      BY <1>1, <2>0 DEF Thread
    <3>2. th' = [th EXCEPT ![t] = r]
      BY <1>1, <2>0, <2>2 DEF Claim
    <3> HIDE DEF r
    <3>3. Moves(t, "set", s, version, th[t].then)
      BY <3>1, <3>2, ThreadIs
    <3> QED
      BY <2>0, <3>3
  <2> QED
    BY <2>1, <2>2
<1>5. TypeOK'
  BY <1>1, <1>3, <1>4, TypesKept DEF Moves
<1>6. ASSUME Sound PROVE Sound'
  <2>1. Joining(t)' /\ Telling(t)'
    BY <1>1, <1>2, <1>3, <1>4, <1>6 DEF Sound, Joining, Telling, Moves
  <2>2. so'[s].wk # "none" => so'[s].pending = version
    BY <1>1, <1>2, <1>3, <1>6, ToldInside DEF Calls
  <2> QED
    BY <1>1, <1>2, <1>3, <1>4, <1>6, <2>1, <2>2, CallKeeps DEF Moves, Calls
<1> QED
  BY <1>5, <1>6 DEF Kept

\* start() sets the flags back; the version it holds is still the device's.
LEMMA SetFlagsKeeps == ASSUME TypeOK, RestOK', NEW t \in Threads, SetFlags(t) PROVE Kept
<1>1. PICK s \in Sessions : s = th[t].ses /\ s # None
  BY HasOne DEF SetFlags, At, Outside
<1>2. UNCHANGED <<version, inMux, cur, crashed>> /\ th[t].at = "set" /\ ~crashed
  BY DEF SetFlags, At, device
<1>3. th[t] \in Thread /\ so[s] \in Session /\ th \in [Threads -> Thread]
  BY Basics
<1>4. /\ so' \in [Sessions -> Session]
      /\ so'[s].wk = so[s].wk /\ so'[s].pending = th[t].ver
      /\ \A w \in Sessions \ {s} : so'[w] = so[w]
  <2> DEFINE r == [so[s] EXCEPT !.pending = th[t].ver, !.applied = th[t].ver, !.stop = FALSE,
                                !.reconn = FALSE]
  <2>1. r \in Session /\ r.wk = so[s].wk /\ r.pending = th[t].ver
    BY <1>3 DEF Session, Thread
  <2>2. so' = [so EXCEPT ![s] = r]
    BY <1>1, Basics DEF SetFlags
  <2> HIDE DEF r
  <2> QED
    BY <2>1, <2>2, SessionIs DEF Sets
<1>5. Moves(t, "spawn", s, 0, th[t].then)
  <2> DEFINE r == [th[t] EXCEPT !.at = "spawn", !.ver = 0]
  <2>1. r \in Thread /\ r.at = "spawn" /\ r.ses = s /\ r.ver = 0 /\ r.then = th[t].then
    BY <1>1, <1>3 DEF Thread
  <2>2. th' = [th EXCEPT ![t] = r]
    BY <1>3 DEF SetFlags
  <2> HIDE DEF r
  <2> QED
    BY <2>1, <2>2, ThreadIs
<1>6. TypeOK'
  BY <1>1, <1>4, <1>5, TypesKept DEF Moves
<1>7. ASSUME Sound PROVE Sound'
  <2>1. so[s].wk = "none" /\ th[t].ver = version
    BY <1>1, <1>2, <1>7 DEF Sound, Joining, Telling
  <2>2. Joining(t)' /\ Telling(t)'
    BY <1>2, <1>4, <1>5, <2>1 DEF Joining, Telling, Moves
  <2> QED
    BY <1>1, <1>2, <1>4, <1>5, <1>7, <2>1, <2>2, CallKeeps DEF Moves, Calls
<1> QED
  BY <1>6, <1>7 DEF Kept

\* start() makes the worker; there is none.
LEMMA SpawnKeeps == ASSUME TypeOK, RestOK', NEW t \in Threads, Spawn(t) PROVE Kept
<1>1. PICK s \in Sessions : s = th[t].ses /\ s # None
  BY HasOne DEF Spawn, At, Outside
<1>2. UNCHANGED <<version, inMux, cur>> /\ th[t].at = "spawn" /\ ~crashed
  BY DEF Spawn, At, device
<1>3. /\ so' \in [Sessions -> Session]
      /\ so'[s].wk = "top" /\ so'[s].pending = so[s].pending
      /\ \A w \in Sessions \ {s} : so'[w] = so[w]
  <2> DEFINE r == [so[s] EXCEPT !.wk = "top"]
  <2>1. r \in Session /\ r.wk = "top" /\ r.pending = so[s].pending
    BY Basics DEF Session
  <2>2. so' = [so EXCEPT ![s] = r]
    BY <1>1, Basics DEF Spawn
  <2> HIDE DEF r
  <2> QED
    BY <2>1, <2>2, SessionIs DEF Sets
<1>4. PICK place \in {"request", "release"} : Moves(t, place, s, th[t].ver, th[t].then)
  <2>1. PICK place \in {"request", "release"} : place = Return(t)
    BY DEF Return
  <2> QED
    BY <1>1, <2>1, GoIs DEF Spawn, Places
<1>5. TypeOK'
  BY <1>1, <1>3, <1>4, TypesKept DEF Moves
<1>6. ASSUME Sound PROVE Sound'
  <2>1. so[s].wk = "none" /\ so[s].pending = version
    BY <1>1, <1>2, <1>6 DEF Sound, Joining, Telling
  <2>2. Joining(t)' /\ Telling(t)'
    BY <1>4 DEF Joining, Telling, Moves
  <2>3. ~crashed'
    BY <1>1, <2>1 DEF Spawn
  <2> QED
    BY <1>1, <1>2, <1>3, <1>4, <1>6, <2>1, <2>2, <2>3, CallKeeps DEF Moves, Calls
<1> QED
  BY <1>5, <1>6 DEF Kept

\* Discovery tells the session the device's version.
LEMMA NotifyKeeps == ASSUME TypeOK, RestOK', Notify PROVE Kept
<1>0. th[disc].at \in {"update", "confirm"} /\ ~crashed /\ disc \in Threads
  BY Basics DEF Notify, At
<1>1. PICK s \in Sessions : s = th[disc].ses /\ s # None
  BY <1>0, HasOne DEF Outside
<1>2. UNCHANGED <<version, inMux, cur, crashed>>
  BY DEF Notify, device
<1>3. th[disc] \in Thread /\ so[s] \in Session /\ th \in [Threads -> Thread]
  BY <1>0, Basics
<1>4. /\ so' \in [Sessions -> Session]
      /\ so'[s].wk = so[s].wk /\ so'[s].pending = th[disc].ver
      /\ \A w \in Sessions \ {s} : so'[w] = so[w]
  <2> DEFINE reconn == so[s].reconn \/ th[disc].at = "update"
             r == [so[s] EXCEPT !.pending = th[disc].ver, !.reconn = reconn]
  <2>1. reconn \in BOOLEAN
    BY <1>3 DEF Session
  <2>2. r \in Session /\ r.wk = so[s].wk /\ r.pending = th[disc].ver
    BY <1>3, <2>1 DEF Session, Thread
  <2>3. so' = [so EXCEPT ![s] = r]
    BY <1>1, Basics DEF Notify, Tell
  <2> HIDE DEF r
  <2> QED
    BY <2>2, <2>3, SessionIs DEF Sets
<1>5. Moves(disc, "release", s, 0, th[disc].then)
  <2> DEFINE r == [th[disc] EXCEPT !.at = "release", !.ver = 0]
  <2>1. r \in Thread /\ r.at = "release" /\ r.ses = s /\ r.ver = 0 /\ r.then = th[disc].then
    BY <1>1, <1>3 DEF Thread
  <2>2. th' = [th EXCEPT ![disc] = r]
    BY <1>3 DEF Notify
  <2> HIDE DEF r
  <2> QED
    BY <1>0, <2>1, <2>2, ThreadIs
<1>6. TypeOK'
  BY <1>0, <1>1, <1>4, <1>5, TypesKept DEF Moves
<1>7. ASSUME Sound PROVE Sound'
  <2>1. th[disc].ver = version
    BY <1>0, <1>7 DEF Sound, Telling
  <2>2. Joining(disc)' /\ Telling(disc)'
    BY <1>5 DEF Joining, Telling, Moves
  <2> QED
    BY <1>0, <1>1, <1>2, <1>4, <1>5, <1>7, <2>1, <2>2, CallKeeps DEF Moves, Calls
<1> QED
  BY <1>6, <1>7 DEF Kept

-----------------------------------------------------------------------------
(* Requests, and letting go of a session. *)

\* A client asks for the reconnect; no version changes.
LEMMA RequestKeeps == ASSUME TypeOK, RestOK', NEW c \in Clients, Request(c) PROVE Kept
<1>0. c \in Threads /\ c \notin {disc, reaper, dtor}
  BY SessionAssumption DEF Threads
<1>1. PICK s \in Sessions : s = th[c].ses /\ s # None
  BY <1>0, HasOne DEF Request, At, Outside
<1>2. UNCHANGED <<version, inMux, cur, crashed>> /\ th[c].at = "request" /\ ~crashed
  BY DEF Request, At, device
<1>3. /\ so' \in [Sessions -> Session]
      /\ \A w \in Sessions : so'[w].wk = so[w].wk /\ so'[w].pending = so[w].pending
  <2> DEFINE r == [so[s] EXCEPT !.reconn = TRUE]
  <2>1. r \in Session /\ r.wk = so[s].wk /\ r.pending = so[s].pending
    BY Basics DEF Session
  <2>2. so' = [so EXCEPT ![s] = r]
    BY <1>1, Basics DEF Request
  <2> HIDE DEF r
  <2> QED
    BY <2>1, <2>2, SessionIs DEF Sets
<1>4. Moves(c, "release", s, th[c].ver, th[c].then)
  BY <1>0, <1>1, GoIs DEF Request, Places
<1>5. TypeOK'
  BY <1>0, <1>1, <1>3, <1>4, TypesKept DEF Moves
<1>6. ASSUME Sound PROVE Sound'
  <2>1. th[disc].at # "add" /\ Role(c)
    BY <1>0, <1>1, <1>6 DEF Sound, Begin
  <2>2. th'[disc] = th[disc] /\ th'[reaper] = th[reaper]
    BY <1>0, <1>4, Basics DEF Moves
  <2>3. Torn' <=> Torn
    BY <1>2, <2>2 DEF Torn
  <2>4. Role(c)' /\ Joining(c)' /\ Telling(c)'
    BY <1>0, <1>4, <2>1 DEF Role, Joining, Telling, Moves, Outside
  <2> QED
    BY <1>0, <1>1, <1>2, <1>3, <1>4, <1>6, <2>1, <2>2, <2>3, <2>4, MoveKeeps DEF Moves, Calls
<1> QED
  BY <1>5, <1>6 DEF Kept

\* A client begins.
LEMMA RefreshKeeps == ASSUME TypeOK, RestOK', NEW c \in Clients, Refresh(c) PROVE Kept
<1>0. c \in Threads /\ c \notin {disc, reaper, dtor}
  BY SessionAssumption DEF Threads
<1>1. UNCHANGED <<version, inMux, cur, crashed, so>> /\ th[c].at = "idle" /\ ~crashed /\ inMux
  BY DEF Refresh, At, device
<1>2. Moves(c, "get", th[c].ses, th[c].ver, th[c].then)
  BY <1>0, GoIs DEF Refresh, Places, Outside
<1>3. TypeOK'
  BY <1>0, <1>1, <1>2, Basics, TypesKept DEF Moves, Outside
<1>4. ASSUME Sound PROVE Sound'
  <2>1. th[disc].at # "add" /\ Role(c)
    BY <1>0, <1>1, <1>4 DEF Sound, Begin
  <2>2. th'[disc] = th[disc] /\ th'[reaper] = th[reaper]
    BY <1>0, <1>2, Basics DEF Moves
  <2>3. Torn' <=> Torn
    BY <1>1, <2>2 DEF Torn
  <2>4. th'[c].ses = None
    BY <1>1, <1>2, <2>1 DEF Moves, Role, Outside
  <2>5. Role(c)' /\ Joining(c)' /\ Telling(c)'
    BY <1>0, <1>2, <2>1, <2>4 DEF Role, Joining, Telling, Moves, Outside
  <2> QED
    BY <1>0, <1>1, <1>2, <1>4, <2>1, <2>2, <2>3, <2>4, <2>5, MoveKeeps DEF Moves, Calls
<1> QED
  BY <1>3, <1>4 DEF Kept

\* Who lets go of a session never finds a worker to stop: the device or the reaper
\* has the session as long as there is one.
LEMMA NoneToStop ==
  ASSUME TypeOK, Sound, NEW t \in Threads, NEW s \in Sessions, th[t].ses = s,
         th[t].at = "release", so[s].wk # "none"
  PROVE  ~LastOwner(t, s)
<1>0. Together /\ Apart /\ s # None
  BY Basics DEF Sound
<1>1. ~Torn => cur = s
  BY <1>0 DEF Together
<1>2. Torn => th[reaper].ses = s /\ th[reaper].at # "release"
  BY <1>0 DEF Apart
<1> QED
  BY <1>1, <1>2, Basics DEF LastOwner

\* A thread lets go of its session.
LEMMA ReleaseKeeps == ASSUME TypeOK, RestOK', NEW t \in Threads, Release(t) PROVE Kept
<1>1. PICK s \in Sessions : s = th[t].ses /\ s # None
  BY HasOne DEF Release, At, Outside
<1>2. UNCHANGED <<version, inMux, cur, crashed>> /\ th[t].at = "release" /\ ~crashed
  BY DEF Release, At, device
<1>3. CASE LastOwner(t, s) /\ so[s].wk # "none"
  <2>1. Go(t, "stop") /\ so' = so
    BY <1>1, <1>3 DEF Release
  <2>2. TypeOK'
    BY <1>1, <2>1, GoIs, TypesKept, Basics DEF Moves, Places
  <2> QED
    BY <1>1, <1>2, <1>3, <2>2, NoneToStop DEF Kept
<1>4. CASE ~(LastOwner(t, s) /\ so[s].wk # "none")
  <2>1. PICK place \in {"idle", "get", "done", "delete", "erase"} : place = th[t].then
    BY Basics DEF Thread
  <2>2. Moves(t, place, None, th[t].ver, "idle")
    <3> DEFINE r == [th[t] EXCEPT !.at = place, !.ses = None, !.then = "idle"]
    <3>1. r \in Thread /\ r.at = place /\ r.ses = None /\ r.ver = th[t].ver /\ r.then = "idle"
      BY <2>1, Basics DEF Thread
    <3>2. th' = [th EXCEPT ![t] = r]
      BY <1>1, <1>4, <2>1, Basics DEF Release
    <3> HIDE DEF r
    <3> QED
      BY <3>1, <3>2, ThreadIs
  <2>3. /\ so' \in [Sessions -> Session]
        /\ \A w \in Sessions : so'[w].wk = so[w].wk
        /\ \A w \in Sessions : so'[w].pending = so[w].pending \/ (w = s /\ LastOwner(t, s))
    <3>1. CASE LastOwner(t, s)
      <4>1. Blank \in Session /\ Blank.wk = "none"
        BY DEF Blank, Session, Holding
      <4>2. so' = [so EXCEPT ![s] = Blank]
        BY <1>1, <1>4, <3>1 DEF Release
      <4> QED
        BY <1>4, <3>1, <4>1, <4>2, SessionIs DEF Sets
    <3>2. CASE ~LastOwner(t, s)
      BY <1>1, <1>4, <3>2, Basics DEF Release
    <3> QED
      BY <3>1, <3>2
  <2>4. TypeOK'
    BY <2>2, <2>3, TypesKept DEF Moves, Outside
  <2>5. ASSUME Sound PROVE Sound'
    <3>1. th[disc].at # "add" /\ Role(t) /\ t # dtor /\ Apart
      BY <1>1, <1>2, <2>5 DEF Sound, Begin, Role
    <3>2. t = reaper => place = "delete"
      BY <1>2, <2>1, <3>1 DEF Role
    <3>3. t # reaper => place \notin {"delete", "erase"}
      BY <2>1, <3>1 DEF Role
    <3>4. th'[disc].at # "add"
      BY <2>2, <3>1, Basics DEF Moves
    <3>5. t # reaper => th'[reaper] = th[reaper]
      BY <2>2, Basics DEF Moves
    <3>6. Torn' <=> Torn
      BY <1>2, <2>2, <3>1, <3>2, <3>4, <3>5 DEF Torn, Moves
    <3>7. Role(t)' /\ Joining(t)' /\ Telling(t)'
      BY <2>2, <3>1, <3>2, <3>3 DEF Role, Joining, Telling, Moves, Outside
    <3>8. Torn /\ t = reaper => \A w \in Sessions : so[w].wk = "none"
      BY <1>2, <3>1 DEF Apart
    <3>9. \A w \in Sessions : \/ so'[w].pending = so[w].pending
                              \/ w # cur /\ \A u \in Threads \ {t} : th[u].ses # w
      BY <2>3 DEF LastOwner
    <3>10. th'[t].ses = None /\ th'[t].at \notin Calls /\ th'[t].at \notin {"update", "confirm"}
      BY <2>2 DEF Moves, Calls
    <3>11. \A u \in Threads \ {t} : th'[u] = th[u]
      BY <2>2 DEF Moves
    <3> QED
      BY <1>2, <2>3, <2>5, <3>1, <3>4, <3>6, <3>7, <3>8, <3>9, <3>10, <3>11, MoveKeeps
  <2> QED
    BY <2>4, <2>5 DEF Kept
<1> QED
  BY <1>3, <1>4

-----------------------------------------------------------------------------
(* Teardown. *)

\* After a step of the reaper or the destructor that leaves the device torn: what
\* still runs is the reaper's.
LEMMA TornAfter ==
  ASSUME TypeOK, TypeOK', Sound, NEW t \in {reaper, dtor},
         \A u \in Threads \ {t} : th'[u] = th[u],
         Torn', cur' = None, version' = version, ~crashed',
         th'[dtor].at # "idle" => ~inMux',
         \A s \in Sessions : so'[s].wk # "none" =>
           inMux' /\ th'[reaper].ses = s /\ th'[reaper].at \in {"stop", "join"},
         \A u \in Threads : u # reaper /\ th'[u].ses # None => th'[u].at \in {"request", "release"},
         Role(t)', Joining(t)', t = dtor => so' = so
  PROVE  Sound'
<1>1. disc \in Threads /\ reaper \in Threads /\ dtor \in Threads /\ t # disc
  BY SessionAssumption, Basics
<1>2. \A u \in Threads : Role(u) /\ Joining(u)
  BY DEF Sound
<1>3. ASSUME NEW u \in Threads, u # reaper
      PROVE  th'[u].at \in Outside \cup {"request", "release"}
  BY <1>3 DEF TypeOK, Outside
<1>4. Begin'
  BY DEF Begin, Torn
<1>5. Exclusive'
  BY DEF Exclusive, Calls
<1>6. Together' /\ Apart' /\ Told'
  BY DEF Together, Apart, Told
<1>7. ASSUME NEW u \in Threads PROVE Role(u)' /\ Joining(u)' /\ Telling(u)'
  <2>1. Role(u)'
    BY <1>2, <1>7 DEF Role
  <2>2. Joining(u)'
    <3>1. CASE u = reaper
      BY <1>1, <1>2, <3>1 DEF Joining
    <3>2. CASE u # reaper
      BY <1>3, <3>2 DEF Joining, Outside
    <3> QED
      BY <3>1, <3>2
  <2>3. Telling(u)'
    <3>1. th'[u].at \notin {"set", "update", "confirm", "spawn"}
      BY <1>3, <2>1 DEF Role, Outside
    <3> QED
      BY <3>1 DEF Telling
  <2> QED
    BY <2>1, <2>2, <2>3
<1> QED
  BY <1>4, <1>5, <1>6, <1>7 DEF Sound

\* While the device is torn no thread but the reaper is inside a call; the reaper
\* is, or no worker runs.
LEMMA WhenTorn ==
  ASSUME TypeOK, Sound, Torn
  PROVE  /\ cur = None /\ th[disc].at # "add"
         /\ \A u \in Threads : u # reaper /\ th[u].ses # None => th[u].at \in {"request", "release"}
         /\ \A s \in Sessions : so[s].wk # "none" =>
              inMux /\ th[reaper].ses = s /\ th[reaper].at \in {"stop", "join"}
BY DEF Sound, Apart, Torn

\* stop() sets the flag, and joins the worker if there is one.
LEMMA StopKeeps == ASSUME TypeOK, RestOK', NEW t \in Threads, Stop(t) PROVE Kept
<1>1. PICK s \in Sessions : s = th[t].ses /\ s # None
  BY HasOne DEF Stop, At, Outside
<1>2. UNCHANGED <<version, inMux, cur, crashed>> /\ th[t].at = "stop" /\ ~crashed
  BY DEF Stop, At, device
<1>3. /\ so' \in [Sessions -> Session]
      /\ \A w \in Sessions : so'[w].wk = so[w].wk /\ so'[w].pending = so[w].pending
  <2> DEFINE r == [so[s] EXCEPT !.stop = TRUE, !.reconn = FALSE]
  <2>1. r \in Session /\ r.wk = so[s].wk /\ r.pending = so[s].pending
    BY Basics DEF Session
  <2>2. so' = [so EXCEPT ![s] = r]
    BY <1>1, Basics DEF Stop
  <2> HIDE DEF r
  <2> QED
    BY <2>1, <2>2, SessionIs DEF Sets
<1>4. PICK place \in {"join", "release"} : place = IF so[s].wk # "none" THEN "join" ELSE "release"
  OBVIOUS
<1>5. Moves(t, place, s, th[t].ver, th[t].then)
  BY <1>1, <1>4, GoIs DEF Stop, Places
<1>6. TypeOK'
  BY <1>1, <1>3, <1>5, TypesKept DEF Moves
<1>7. ASSUME Sound PROVE Sound'
  <2>1. Role(t) /\ Begin
    BY <1>7 DEF Sound
  <2>2. t = reaper
    BY <1>2, <2>1 DEF Role
  <2>3. Torn
    BY <1>1, <1>2, <2>1, <2>2 DEF Torn, Begin
  <2>4. th'[disc] = th[disc] /\ th'[dtor] = th[dtor]
    BY <1>5, <2>2, SessionAssumption, Basics DEF Moves
  <2>5. Torn'
    BY <1>4, <1>5, <2>2, <2>3, <2>4 DEF Torn, Moves
  <2>6. Role(t)' /\ Joining(t)'
    BY <1>1, <1>2, <1>3, <1>4, <1>5, <2>1, <2>2, SessionAssumption DEF Role, Joining, Moves, Outside
  <2>7. \A u \in Threads : u # reaper /\ th'[u].ses # None => th'[u].at \in {"request", "release"}
    BY <1>5, <1>7, <2>2, <2>3, WhenTorn DEF Moves
  <2>8. \A w \in Sessions : so'[w].wk # "none" =>
          inMux' /\ th'[reaper].ses = w /\ th'[reaper].at \in {"stop", "join"}
    BY <1>1, <1>2, <1>3, <1>4, <1>5, <1>7, <2>2, <2>3, WhenTorn DEF Moves
  <2>9. cur' = None /\ (th'[dtor].at # "idle" => ~inMux')
    BY <1>2, <1>7, <2>1, <2>3, <2>4, WhenTorn DEF Begin
  <2> QED
    BY <1>2, <1>5, <1>6, <1>7, <2>2, <2>5, <2>6, <2>7, <2>8, <2>9, TornAfter, SessionAssumption DEF Moves
<1> QED
  BY <1>6, <1>7 DEF Kept

\* stop() joins the worker; nobody else does.
LEMMA JoinKeeps == ASSUME TypeOK, RestOK', NEW t \in Threads, Join(t) PROVE Kept
<1>1. PICK s \in Sessions : s = th[t].ses /\ s # None
  BY HasOne DEF Join, At, Outside
<1>2. UNCHANGED <<version, inMux, cur>> /\ th[t].at = "join" /\ ~crashed
  BY DEF Join, At, device
<1>3. /\ so' \in [Sessions -> Session]
      /\ \A w \in Sessions \ {s} : so'[w] = so[w]
      /\ so'[s].wk = "none"
      /\ crashed' <=> so[s].wk = "none"
  BY <1>1, <1>2, JoinedIs DEF Join
<1>4. Moves(t, "release", s, th[t].ver, th[t].then)
  BY <1>1, GoIs DEF Join, Places
<1>5. TypeOK'
  BY <1>1, <1>3, <1>4, TypesKept DEF Moves
<1>6. ASSUME Sound PROVE Sound'
  <2>1. Role(t) /\ Begin /\ Joining(t)
    BY <1>6 DEF Sound
  <2>2. t = reaper
    BY <1>2, <2>1 DEF Role
  <2>3. Torn
    BY <1>1, <1>2, <2>1, <2>2 DEF Torn, Begin
  <2>4. th'[disc] = th[disc] /\ th'[dtor] = th[dtor]
    BY <1>4, <2>2, SessionAssumption, Basics DEF Moves
  <2>5. Torn'
    BY <1>4, <2>2, <2>3, <2>4 DEF Torn, Moves
  <2>6. Role(t)' /\ Joining(t)'
    BY <1>1, <1>2, <1>4, <2>1, <2>2, SessionAssumption DEF Role, Joining, Moves, Outside
  <2>7. \A u \in Threads : u # reaper /\ th'[u].ses # None => th'[u].at \in {"request", "release"}
    BY <1>4, <1>6, <2>2, <2>3, WhenTorn DEF Moves
  <2>8. \A w \in Sessions : so'[w].wk = "none"
    BY <1>1, <1>3, <1>6, <2>2, <2>3, WhenTorn
  <2>9. cur' = None /\ ~crashed' /\ (th'[dtor].at # "idle" => ~inMux')
    BY <1>1, <1>2, <1>3, <1>6, <2>1, <2>3, <2>4, WhenTorn DEF Begin, Joining
  <2> QED
    BY <1>2, <1>4, <1>5, <1>6, <2>2, <2>5, <2>6, <2>7, <2>8, <2>9, TornAfter, SessionAssumption DEF Moves
<1> QED
  BY <1>5, <1>6 DEF Kept

\* The reaper takes a reference.
LEMMA TakeKeeps == ASSUME TypeOK, RestOK', Take PROVE Kept
<1>0. reaper \in Threads /\ disc \in Threads /\ reaper # disc /\ reaper # dtor
  BY Basics, SessionAssumption
<1>1. UNCHANGED <<version, inMux, cur, crashed, so>> /\ th[reaper].at = "idle" /\ ~crashed
  BY DEF Take, At, device
<1>2. Moves(reaper, "take", th[reaper].ses, th[reaper].ver, "delete")
  <2> DEFINE r == [th[reaper] EXCEPT !.at = "take", !.then = "delete"]
  <2>1. r \in Thread /\ r.at = "take" /\ r.ses = th[reaper].ses /\ r.ver = th[reaper].ver
        /\ r.then = "delete"
    BY Basics DEF Thread
  <2>2. th' = [th EXCEPT ![reaper] = r]
    BY Basics DEF Take
  <2> HIDE DEF r
  <2> QED
    BY <1>0, <2>1, <2>2, ThreadIs
<1>3. TypeOK'
  BY <1>0, <1>1, <1>2, Basics, TypesKept DEF Moves, Outside
<1>4. ASSUME Sound, th[disc].at # "add" PROVE Sound'
  <2>1. Role(reaper)
    BY <1>0, <1>4 DEF Sound
  <2>2. th'[disc] = th[disc]
    BY <1>0, <1>2 DEF Moves
  <2>3. Torn' <=> Torn
    BY <1>1, <1>2, <2>2 DEF Torn, Moves
  <2>4. th'[reaper].ses = None
    BY <1>1, <1>2, <2>1 DEF Role, Moves, Outside
  <2>5. Role(reaper)' /\ Joining(reaper)' /\ Telling(reaper)'
    BY <1>0, <1>2, <2>1, <2>4 DEF Role, Joining, Telling, Moves, Outside
  <2>6. Torn => \A s \in Sessions : so[s].wk = "none"
    BY <1>1, <1>4, WhenTorn
  <2> QED
    BY <1>0, <1>1, <1>2, <1>4, <2>2, <2>3, <2>4, <2>5, <2>6, MoveKeeps DEF Moves, Calls
<1>5. Sound => th[disc].at # "add"
  BY Basics DEF Sound, Begin, Take, RestOK
<1> QED
  BY <1>3, <1>4, <1>5 DEF Kept

\* deconstruct() and the destructor take the session from the device. Nobody is
\* inside a call of it.
LEMMA TakeSessionKeeps ==
  ASSUME TypeOK, RestOK', NEW t \in Threads, TakeSession(t)
  PROVE  Kept
<1>0. /\ None \notin Sessions /\ cur \in Sessions \cup {None} /\ th[t] \in Thread
      /\ reaper \in Threads /\ disc \in Threads /\ dtor \in Threads
      /\ reaper # disc /\ reaper # dtor /\ disc # dtor
  BY Basics, SessionAssumption DEF RestOK
<1>1. UNCHANGED <<version, inMux, crashed, so>> /\ th[t].at = "take" /\ ~crashed /\ cur' = None
  BY DEF TakeSession, At, Reset
<1>2. PICK place \in {"stop", "idle", "get", "done", "delete", "erase"}, ses \in Sessions \cup {None} :
        /\ Moves(t, place, ses, th[t].ver, IF cur # None THEN th[t].then ELSE "idle")
        /\ cur # None => place = "stop" /\ ses = cur
        /\ cur = None => place = th[t].then /\ ses = th[t].ses
  <2>1. CASE cur # None
    <3> DEFINE r == [th[t] EXCEPT !.at = "stop", !.ses = cur]
    <3>1. r \in Thread /\ r.at = "stop" /\ r.ses = cur /\ r.ver = th[t].ver /\ r.then = th[t].then
      BY <1>0 DEF Thread
    <3>2. th' = [th EXCEPT ![t] = r]
      BY <2>1, Basics DEF TakeSession, HasSession
    <3> HIDE DEF r
    <3>3. Moves(t, "stop", cur, th[t].ver, th[t].then)
      BY <3>1, <3>2, ThreadIs
    <3> QED
      BY <1>0, <2>1, <3>3
  <2>2. CASE cur = None
    <3> DEFINE r == [th[t] EXCEPT !.at = th[t].then, !.then = "idle"]
    <3>1. r \in Thread /\ r.at = th[t].then /\ r.ses = th[t].ses /\ r.ver = th[t].ver
          /\ r.then = "idle"
      BY <1>0 DEF Thread
    <3>2. th' = [th EXCEPT ![t] = r]
      BY <2>2, Basics DEF TakeSession, HasSession
    <3> HIDE DEF r
    <3>3. Moves(t, th[t].then, th[t].ses, th[t].ver, "idle")
      BY <3>1, <3>2, ThreadIs
    <3>4. th[t].then \in {"idle", "get", "done", "delete", "erase"} /\ th[t].ses \in Sessions \cup {None}
      BY <1>0 DEF Thread
    <3> QED
      BY <2>2, <3>3, <3>4
  <2> QED
    BY <2>1, <2>2
<1>3. TypeOK'
  <2>1. ses = None => place \in Outside
    BY <1>0, <1>2 DEF Outside, Thread
  <2> QED
    BY <1>1, <1>2, <2>1, Basics, TypesKept DEF Moves
<1>4. ASSUME Sound, raced' = {} PROVE Sound'
  <2>1. Role(t) /\ Begin /\ Together /\ Apart
    BY <1>4 DEF Sound
  <2>2. t \in {reaper, dtor} /\ th[t].ses = None
    BY <1>1, <2>1 DEF Role, Outside
  <2>3. th[disc].at # "add" /\ (t = dtor => ~inMux /\ Torn)
    BY <1>0, <1>1, <2>1, <2>2 DEF Begin, Torn
  <2>4. cur # None => ~Torn /\ inMux /\ t = reaper
    BY <2>1, <2>2, <2>3 DEF Apart, Torn
  <2>5. cur = None => place \in {"delete", "erase"} /\ ses = None /\ (t = reaper => place = "delete")
                      /\ (t = dtor => place = "erase")
    BY <1>1, <1>2, <2>1, <2>2 DEF Role
  <2>6. th'[disc] = th[disc]
    BY <1>0, <1>2, <2>2 DEF Moves
  <2>7. Torn'
    BY <1>0, <1>1, <1>2, <2>2, <2>3, <2>4, <2>5, <2>6 DEF Torn, Moves
  <2>8. cur # None => ~Meets(t, cur)
    BY <1>4 DEF TakeSession, HasSession, Note
  <2>9. \A u \in Threads : u # reaper /\ th'[u].ses # None => th'[u].at \in {"request", "release"}
    <3> SUFFICES ASSUME NEW u \in Threads, u # reaper, th'[u].ses # None
                 PROVE  th'[u].at \in {"request", "release"}
      OBVIOUS
    <3>1. u # t /\ th'[u] = th[u]
      BY <1>2, <2>2, <2>4, <2>5 DEF Moves
    <3>2. CASE Torn
      BY <1>4, <3>1, <3>2, WhenTorn
    <3>3. CASE ~Torn
      <4>1. th[u].ses = cur /\ cur # None
        BY <2>1, <3>1, <3>3 DEF Together
      <4>2. th[u].at \notin {"start", "rejoin", "claim", "set", "spawn", "stop", "join", "update",
                             "confirm"}
        BY <2>8, <3>1, <4>1 DEF Meets
      <4>3. th[u].at \notin Outside /\ th[u] \in Thread
        BY <1>4, <3>1, Basics DEF Sound, Role
      <4> QED
        BY <3>1, <4>2, <4>3 DEF Thread, Outside
    <3> QED
      BY <3>2, <3>3
  <2>10. \A s \in Sessions : so'[s].wk # "none" =>
           inMux' /\ th'[reaper].ses = s /\ th'[reaper].at \in {"stop", "join"}
    <3>1. CASE cur # None
      BY <1>1, <1>2, <2>1, <2>4, <3>1 DEF Together, Moves
    <3>2. CASE cur = None
      BY <1>0, <1>1, <1>2, <1>4, <2>1, <2>2, <2>3, <3>2, WhenTorn DEF Together, Moves
    <3> QED
      BY <3>1, <3>2
  <2>11. Role(t)' /\ Joining(t)'
    <3>1. Role(t)'
      BY <1>0, <1>1, <1>2, <2>1, <2>2, <2>4, <2>5 DEF Role, Moves, Outside
    <3>2. Joining(t)'
      BY <1>2, <2>5 DEF Joining, Moves
    <3> QED
      BY <3>1, <3>2
  <2>12. th'[dtor].at # "idle" => ~inMux'
    <3>1. t # dtor => th'[dtor] = th[dtor]
      BY <1>0, <1>2 DEF Moves
    <3> QED
      BY <1>1, <2>1, <2>3, <3>1 DEF Begin
  <2> QED
    BY <1>1, <1>2, <1>3, <1>4, <2>2, <2>7, <2>9, <2>10, <2>11, <2>12, TornAfter DEF Moves
<1> QED
  BY <1>3, <1>4 DEF Kept

\* The device leaves the list: the session was stopped before.
LEMMA DeleteKeeps == ASSUME TypeOK, RestOK', Delete PROVE Kept
<1>0. /\ reaper \in Threads /\ disc \in Threads /\ dtor \in Threads
      /\ reaper # disc /\ reaper # dtor /\ disc # dtor
  BY Basics, SessionAssumption
<1>1. UNCHANGED <<version, cur, crashed, so>> /\ th[reaper].at = "delete" /\ ~crashed /\ ~inMux'
  BY DEF Delete, At
<1>2. Moves(reaper, "idle", th[reaper].ses, th[reaper].ver, th[reaper].then)
  BY <1>0, GoIs DEF Delete, Places, Outside
<1>3. TypeOK'
  BY <1>0, <1>1, <1>2, Basics, TypesKept DEF Moves, Outside
<1>4. ASSUME Sound PROVE Sound'
  <2>1. Role(reaper) /\ th[disc].at # "add"
    BY <1>0, <1>1, <1>4 DEF Sound, Begin
  <2>2. Torn /\ th'[disc] = th[disc]
    BY <1>0, <1>1, <1>2, <2>1 DEF Torn, Moves
  <2>3. Torn'
    BY <1>1, <2>1, <2>2 DEF Torn
  <2>4. Role(reaper)' /\ Joining(reaper)'
    BY <1>0, <1>1, <1>2, <2>1 DEF Role, Joining, Moves, Outside
  <2>5. \A s \in Sessions : so[s].wk = "none"
    BY <1>1, <1>4, <2>2, WhenTorn
  <2>6. \A u \in Threads : u # reaper /\ th'[u].ses # None => th'[u].at \in {"request", "release"}
    BY <1>2, <1>4, <2>2, WhenTorn DEF Moves
  <2>7. cur' = None
    BY <1>1, <1>4, <2>2, WhenTorn
  <2> QED
    BY <1>0, <1>1, <1>2, <1>3, <1>4, <2>3, <2>4, <2>5, <2>6, <2>7, TornAfter DEF Moves
<1> QED
  BY <1>3, <1>4 DEF Kept

\* The destructor begins, or ends.
LEMMA DestroyKeeps == ASSUME TypeOK, RestOK', Destroy \/ Erase PROVE Kept
<1>0. /\ reaper \in Threads /\ disc \in Threads /\ dtor \in Threads
      /\ reaper # disc /\ reaper # dtor /\ disc # dtor
  BY Basics, SessionAssumption
<1>1. UNCHANGED <<version, cur, crashed, so, inMux>> /\ ~crashed
  BY DEF Destroy, Erase, At
<1>2. PICK place \in {"take", "done"}, then \in {"idle", "get", "done", "delete", "erase"} :
        /\ Moves(dtor, place, th[dtor].ses, th[dtor].ver, then)
        /\ place = "take" => then = "erase" /\ ~inMux /\ th[disc].at # "add"
        /\ place = "done" => th[dtor].at = "erase"
  <2>1. CASE Destroy
    <3> DEFINE r == [th[dtor] EXCEPT !.at = "take", !.then = "erase"]
    <3>1. r \in Thread /\ r.at = "take" /\ r.ses = th[dtor].ses /\ r.ver = th[dtor].ver
          /\ r.then = "erase"
      BY <1>0, Basics DEF Thread
    <3>2. th' = [th EXCEPT ![dtor] = r]
      BY <1>0, <2>1, Basics DEF Destroy
    <3> HIDE DEF r
    <3>3. Moves(dtor, "take", th[dtor].ses, th[dtor].ver, "erase")
      BY <1>0, <3>1, <3>2, ThreadIs
    <3>4. ~inMux /\ th[disc].at # "add"
      BY <1>0, <2>1 DEF Destroy, Referenced, ReferencedWithout
    <3> QED
      BY <3>3, <3>4
  <2>2. CASE Erase
    <3>1. Moves(dtor, "done", th[dtor].ses, th[dtor].ver, th[dtor].then)
      BY <1>0, <2>2, GoIs DEF Erase, Places, Outside
    <3>2. th[dtor].at = "erase" /\ th[dtor].then \in {"idle", "get", "done", "delete", "erase"}
      BY <1>0, <2>2, Basics DEF Erase, At, Thread
    <3> QED
      BY <3>1, <3>2
  <2> QED
    BY <2>1, <2>2
<1>3. TypeOK'
  BY <1>0, <1>1, <1>2, Basics, TypesKept DEF Moves, Outside
<1>4. ASSUME Sound PROVE Sound'
  <2>1. Role(dtor) /\ th[disc].at # "add" /\ ~inMux
    BY <1>0, <1>2, <1>4 DEF Sound, Begin
  <2>2. Torn /\ th'[disc] = th[disc] /\ th'[reaper] = th[reaper]
    BY <1>0, <1>2, <2>1 DEF Torn, Moves
  <2>3. Torn'
    BY <1>1, <2>1, <2>2 DEF Torn
  <2>4. Role(dtor)' /\ Joining(dtor)'
    BY <1>0, <1>2, <2>1 DEF Role, Joining, Moves, Outside
  <2>5. \A s \in Sessions : so[s].wk = "none"
    BY <1>4, <2>1, <2>2, WhenTorn
  <2>6. \A u \in Threads : u # reaper /\ th'[u].ses # None => th'[u].at \in {"request", "release"}
    <3>1. th[dtor].ses = None
      BY <1>0, <2>1 DEF Role, Outside
    <3> QED
      BY <1>0, <1>2, <1>4, <2>2, <3>1, WhenTorn DEF Moves
  <2>7. cur' = None
    BY <1>1, <1>4, <2>2, WhenTorn
  <2> QED
    BY <1>0, <1>1, <1>2, <1>3, <1>4, <2>1, <2>3, <2>4, <2>5, <2>6, <2>7, TornAfter DEF Moves
<1> QED
  BY <1>3, <1>4 DEF Kept

-----------------------------------------------------------------------------
(* The device's own steps. *)

\* The device is listed; there is nothing yet.
LEMMA AddKeeps == ASSUME TypeOK, RestOK', AddDevice PROVE Kept
<1>0. /\ reaper \in Threads /\ disc \in Threads /\ dtor \in Threads
      /\ reaper # disc /\ reaper # dtor /\ disc # dtor
  BY Basics, SessionAssumption
<1>1. UNCHANGED <<version, cur, crashed, so>> /\ th[disc].at = "add" /\ ~crashed
  BY DEF AddDevice, At
<1>2. Moves(disc, "get", th[disc].ses, th[disc].ver, th[disc].then)
  BY <1>0, GoIs DEF AddDevice, Places, Outside
<1>3. TypeOK'
  BY <1>0, <1>1, <1>2, Basics, TypesKept DEF Moves, Outside
<1>4. ASSUME Sound PROVE Sound'
  <2>1. /\ cur = None /\ \A s \in Sessions : so[s].wk = "none"
        /\ \A t \in Threads : th[t].ses = None /\ (t # disc => th[t].at = "idle")
        /\ \A t \in Threads : Role(t)
    BY <1>0, <1>1, <1>4 DEF Sound, Begin
  <2>2. /\ \A t \in Threads : th'[t].ses = None /\ (t # disc => th'[t].at = "idle" /\ th'[t] = th[t])
        /\ th'[disc].at = "get" /\ th'[disc].then = th[disc].then
    BY <1>2, <2>1 DEF Moves
  <2>3. ~Torn'
    BY <1>0, <1>4, <2>2 DEF Torn, AddDevice
  <2>4. Begin' /\ Exclusive' /\ Together' /\ Apart' /\ Told'
    BY <1>0, <1>1, <2>1, <2>2, <2>3 DEF Begin, Exclusive, Together, Apart, Told
  <2>5. ASSUME NEW t \in Threads PROVE Role(t)' /\ Joining(t)' /\ Telling(t)'
    <3>1. th'[t].at \in {"get", "idle"} /\ th'[t].ses = None /\ th'[t].then = th[t].then
      BY <2>2
    <3>2. Role(t)'
      BY <1>0, <2>1, <2>2, <3>1 DEF Role
    <3> QED
      BY <3>1, <3>2 DEF Joining, Telling
  <2> QED
    BY <1>1, <2>4, <2>5 DEF Sound
<1> QED
  BY <1>3, <1>4 DEF Kept

\* The device is found again, with new addresses or the old ones, while nobody is
\* inside a call of its session.
LEMMA FoundKeeps == ASSUME TypeOK, RestOK', FoundAgain PROVE Kept
<1>0. /\ reaper \in Threads /\ disc \in Threads /\ dtor \in Threads
      /\ reaper # disc /\ reaper # dtor /\ disc # dtor /\ None \notin Sessions
      /\ cur \in Sessions \cup {None} /\ version' \in Nat /\ th[disc] \in Thread
  BY Basics, SessionAssumption DEF RestOK
<1>1. UNCHANGED <<inMux, cur, crashed, so>> /\ th[disc].at = "idle" /\ ~crashed /\ inMux
  BY DEF FoundAgain, At
<1>2. PICK place \in {"get", "update", "confirm"}, ses \in Sessions \cup {None}, ver \in Nat,
           then \in {"idle", "get", "done", "delete", "erase"} :
        /\ Moves(disc, place, ses, ver, then)
        /\ cur # None => place # "get" /\ ses = cur /\ ver = version' /\ then = "get"
        /\ cur = None => place = "get" /\ ses = th[disc].ses /\ then = th[disc].then
  <2>1. CASE cur # None
    <3> DEFINE place == IF version' = version THEN "confirm" ELSE "update"
               r == [at |-> place, ses |-> cur, ver |-> version', then |-> "get"]
    <3>1. r \in Thread /\ r.at = place /\ r.ses = cur /\ r.ver = version' /\ r.then = "get"
      BY <1>0 DEF Thread
    <3>2. th' = [th EXCEPT ![disc] = r]
      BY <2>1 DEF FoundAgain, HasSession
    <3>3. place \in {"update", "confirm"}
      OBVIOUS
    <3> HIDE DEF r, place
    <3>4. Moves(disc, place, cur, version', "get")
      BY <1>0, <3>1, <3>2, ThreadIs
    <3> QED
      BY <1>0, <2>1, <3>3, <3>4
  <2>2. CASE cur = None
    <3>1. Go(disc, "get")
      BY <2>2 DEF FoundAgain, HasSession
    <3>2. Moves(disc, "get", th[disc].ses, th[disc].ver, th[disc].then)
      BY <1>0, <3>1, GoIs DEF Places, Outside
    <3>3. /\ th[disc].ses \in Sessions \cup {None} /\ th[disc].ver \in Nat
          /\ th[disc].then \in {"idle", "get", "done", "delete", "erase"}
      BY <1>0 DEF Thread
    <3> QED
      BY <2>2, <3>2, <3>3
  <2> QED
    BY <2>1, <2>2
<1>3. TypeOK'
  <2>1. ses = None => place \in Outside
    BY <1>0, <1>2 DEF Outside
  <2> QED
    BY <1>0, <1>1, <1>2, <2>1, Basics, TypesKept DEF Moves
<1>4. ASSUME Sound, raced' = {} PROVE Sound'
  <2>1. /\ Role(disc) /\ Begin /\ Together /\ Apart /\ Exclusive /\ Told
        /\ \A u \in Threads : Role(u) /\ Joining(u) /\ Telling(u)
    BY <1>0, <1>4 DEF Sound
  <2>2. th[disc].ses = None /\ th'[reaper] = th[reaper] /\ th'[dtor] = th[dtor]
    BY <1>0, <1>1, <1>2, <2>1 DEF Role, Outside, Moves
  <2>3. Torn' <=> Torn
    BY <1>1, <1>2, <2>2 DEF Torn, Moves
  <2>4. cur # None => ~Torn /\ ~Meets(disc, cur)
    <3>1. cur # None => ~Torn
      BY <2>1 DEF Apart
    <3>2. cur # None => ~Meets(disc, cur)
      BY <1>4 DEF FoundAgain, HasSession, Note
    <3> QED
      BY <3>1, <3>2
  <2>5. ASSUME NEW u \in Threads \ {disc}
        PROVE  /\ th'[u] = th[u] /\ (cur # None /\ th[u].ses = cur => th[u].at \notin Calls)
               /\ th[u].at \notin {"set", "spawn", "update", "confirm"}
    <3>1. th'[u] = th[u]
      BY <1>2 DEF Moves
    <3>2. cur # None /\ th[u].ses = cur => th[u].at \notin Calls
      BY <2>4 DEF Meets, Calls
    <3>3. CASE th[u].at \in Outside
      BY <3>1, <3>2, <3>3 DEF Outside
    <3>4. CASE th[u].at \notin Outside
      <4>1. th[u].ses # None
        BY <3>4, HasOne
      <4>2. CASE Torn
        BY <1>4, <2>1, <3>1, <3>2, <4>1, <4>2, WhenTorn DEF Role
      <4>3. CASE ~Torn
        BY <2>1, <3>1, <3>2, <4>1, <4>3 DEF Together, Calls
      <4> QED
        BY <4>2, <4>3
    <3> QED
      BY <3>3, <3>4
  <2>6. th'[disc].at = place /\ th'[disc].ses = ses /\ th'[disc].ver = ver /\ th'[disc].then = then
    BY <1>2 DEF Moves
  <2>7. ses # None => ses = cur
    BY <1>2, <2>2
  <2>8. Begin'
    BY <1>1, <2>1, <2>2, <2>6 DEF Begin
  <2>9. Exclusive'
    BY <2>1, <2>5, <2>6, <2>7 DEF Exclusive
  <2>10. Together'
    BY <1>1, <2>1, <2>3, <2>5, <2>6, <2>7 DEF Together
  <2>11. Apart'
    <3> SUFFICES ASSUME Torn PROVE Apart'
      BY <2>3 DEF Apart
    <3>1. ses = None
      BY <2>4, <2>7
    <3> QED
      BY <1>0, <1>1, <2>1, <2>2, <2>5, <2>6, <3>1 DEF Apart
  <2>12. Told'
    BY <1>1, <1>2, <2>6 DEF Told
  <2>13. ASSUME NEW u \in Threads PROVE Role(u)' /\ Joining(u)' /\ Telling(u)'
    <3>1. CASE u = disc
      <4>1. Role(disc)'
        BY <1>0, <1>2, <2>1, <2>2, <2>6 DEF Role, Outside
      <4> QED
        BY <1>2, <2>6, <3>1, <4>1 DEF Joining, Telling
    <3>2. CASE u # disc
      BY <1>0, <1>1, <2>1, <2>5, <3>2 DEF Role, Joining, Telling
    <3> QED
      BY <3>1, <3>2
  <2> QED
    BY <1>1, <2>8, <2>9, <2>10, <2>11, <2>12, <2>13 DEF Sound
<1> QED
  BY <1>3, <1>4 DEF Kept

\* A thread takes the device's session, which is made when there is none; the
\* device is not torn and nobody is inside a call.
LEMMA GetSessionKeeps == ASSUME TypeOK, RestOK', NEW t \in Threads, GetSession(t) PROVE Kept
<1>0. /\ reaper \in Threads /\ disc \in Threads /\ dtor \in Threads
      /\ reaper # disc /\ reaper # dtor /\ disc # dtor /\ None \notin Sessions
      /\ cur \in Sessions \cup {None} /\ th[t] \in Thread
  BY Basics, SessionAssumption DEF RestOK
<1>1. UNCHANGED <<inMux, version, crashed, so>> /\ th[t].at = "get" /\ ~crashed
  BY DEF GetSession, At
<1>2. PICK s \in Sessions, then \in {"idle", "done"} :
        /\ cur' = s /\ (cur # None => cur = s)
        /\ Moves(t, "start", s, th[t].ver, then)
  <2>1. PICK s \in Sessions : cur' = s /\ (cur # None => cur = s)
    BY <1>0 DEF GetSession, HasSession
  <2>2. PICK then \in {"idle", "done"} : then = IF t = disc THEN "idle" ELSE "done"
    OBVIOUS
  <2> DEFINE r == [th[t] EXCEPT !.at = "start", !.ses = s, !.then = then]
  <2>3. r \in Thread /\ r.at = "start" /\ r.ses = s /\ r.ver = th[t].ver /\ r.then = then
    BY <1>0 DEF Thread
  <2>4. th' = [th EXCEPT ![t] = r]
    BY <1>0, <2>1, <2>2, Basics DEF GetSession
  <2> HIDE DEF r
  <2>5. Moves(t, "start", s, th[t].ver, then)
    BY <2>3, <2>4, ThreadIs
  <2> QED
    BY <2>1, <2>5
<1>3. TypeOK'
  BY <1>0, <1>1, <1>2, Basics, TypesKept DEF Moves
<1>4. ASSUME Sound, raced' = {} PROVE Sound'
  <2>1. /\ Begin /\ Together /\ Exclusive /\ Told
        /\ \A u \in Threads : Role(u) /\ Joining(u) /\ Telling(u)
    BY <1>4 DEF Sound
  <2>2. ~Torn /\ ~Meets(t, s)
    <3>1. "calls" \notin raced' /\ "late" \notin raced'
      BY <1>4
    <3> QED
      BY <1>2, <3>1 DEF GetSession
  <2>3. t \notin {reaper, dtor} /\ th[disc].at # "add"
    BY <1>0, <1>1, <2>1 DEF Role, Begin
  <2>4. th'[t].at = "start" /\ th'[t].ses = s /\ th'[t].then = then
    BY <1>2 DEF Moves
  <2>5. /\ \A u \in Threads \ {t} : th'[u] = th[u]
        /\ th'[reaper] = th[reaper] /\ th'[dtor] = th[dtor] /\ th'[disc].at # "add"
    BY <1>0, <1>2, <2>3, <2>4 DEF Moves
  <2>6. ~Torn'
    BY <1>1, <2>2, <2>3, <2>5 DEF Torn
  <2>7. \A u \in Threads \ {t} : th[u].ses # None => th[u].ses = s /\ th[u].at \notin Calls
    <3>1. \A u \in Threads : th[u].ses # None => th[u].ses = s
      BY <1>0, <1>2, <2>1, <2>2 DEF Together
    <3> QED
      BY <2>2, <3>1 DEF Meets, Calls
  <2>8. Begin' /\ Apart'
    BY <1>1, <2>1, <2>5, <2>6 DEF Begin, Apart
  <2>9. Exclusive'
    BY <2>5, <2>7 DEF Exclusive
  <2>10. Together'
    <3>1. \A w \in Sessions : so[w].wk # "none" => w = s
      BY <1>0, <1>2, <2>1, <2>2 DEF Together
    <3> QED
      BY <1>1, <1>2, <2>4, <2>5, <2>7, <3>1 DEF Together
  <2>11. Told'
    <3>1. so[s].wk # "none" => cur = s
      BY <1>0, <1>2, <2>1, <2>2 DEF Together
    <3>2. th'[disc].at \notin {"update", "confirm"} => th[disc].at \notin {"update", "confirm"}
      BY <1>0, <1>1, <2>5
    <3> QED
      BY <1>0, <1>1, <1>2, <2>1, <3>1, <3>2 DEF Told
  <2>12. ASSUME NEW u \in Threads PROVE Role(u)' /\ Joining(u)' /\ Telling(u)'
    <3>1. CASE u = t
      BY <1>0, <2>3, <2>4, <3>1 DEF Role, Joining, Telling, Outside
    <3>2. CASE u # t
      BY <1>1, <2>1, <2>5, <3>2 DEF Role, Joining, Telling
    <3> QED
      BY <3>1, <3>2
  <2> QED
    BY <1>1, <2>8, <2>9, <2>10, <2>11, <2>12 DEF Sound
<1> QED
  BY <1>3, <1>4 DEF Kept

\* A step that leaves the threads, the sessions and the device alone.
LEMMA RestKeeps ==
  ASSUME TypeOK, RestOK', UNCHANGED <<th, so, version, inMux, cur, crashed>>,
         Sound /\ th[disc].at = "add" => reapq' = reapq
  PROVE  Kept
<1>1. TypeOK'
  BY DEF TypeOK, RestOK
<1>2. ASSUME Sound PROVE Sound'
  <2>1. Begin' /\ Exclusive' /\ Together' /\ Apart' /\ Told'
    BY <1>2 DEF Sound, Begin, Exclusive, Together, Apart, Told, Torn
  <2>2. ASSUME NEW t \in Threads PROVE Role(t)' /\ Joining(t)' /\ Telling(t)'
    BY <1>2, <2>2 DEF Sound, Role, Joining, Telling
  <2> QED
    BY <1>2, <2>1, <2>2 DEF Sound
<1> QED
  BY <1>1, <1>2 DEF Kept

-----------------------------------------------------------------------------
(* The invariant, and what follows. *)

\* What met is not forgotten.
LEMMA MeetingsStay == [Next]_vars => raced \subseteq raced'
<1> SUFFICES ASSUME [Next]_vars PROVE raced \subseteq raced'
  OBVIOUS
<1>1. CASE Announce \/ FoundAgain \/ Teardown \/ Unpair
  BY <1>1 DEF Announce, AddDevice, Notify, FoundAgain, Note, Teardown, Take, Delete, Destroy,
     Erase, Unpair, history
<1>2. ASSUME NEW c \in Clients, Refresh(c) \/ Request(c) PROVE raced \subseteq raced'
  BY <1>2 DEF Refresh, Request, history
<1>3. ASSUME NEW t \in Threads, Step(t) PROVE raced \subseteq raced'
  <2>1. CASE GetSession(t) \/ Start(t) \/ TakeSession(t)
    BY <2>1 DEF GetSession, Start, TakeSession, Note
  <2>2. CASE Rejoin(t) \/ Claim(t) \/ SetFlags(t) \/ Spawn(t)
    BY <2>2 DEF Rejoin, Claim, SetFlags, Spawn, history
  <2>3. CASE Stop(t) \/ Join(t) \/ Release(t)
    BY <2>3 DEF Stop, Join, Release, history
  <2> QED
    BY <1>3, <2>1, <2>2, <2>3 DEF Step
<1>4. ASSUME NEW s \in Sessions, Worker(s) PROVE raced \subseteq raced'
  <2>1. \E place, kills : Work(s, place, kills)
    <3>1. CASE Failed(s)
      BY <3>1 DEF Failed
    <3>2. CASE ~Failed(s)
      BY <1>4, <3>2 DEF Worker, Top, Snapshot, ClearRequest, Attempt, Leave, Afterwards, Walk,
         Wake, WorkerEnds
    <3> QED
      BY <3>1, <3>2
  <2> QED
    BY <2>1 DEF Work, Note
<1>5. CASE UNCHANGED vars
  BY <1>5 DEF vars, history
<1> QED
  BY <1>1, <1>2, <1>3, <1>4, <1>5 DEF Next

\* Every step keeps the types and, unless calls meet, the rest.
LEMMA StepKept == TypeOK /\ [Next]_vars => Kept
<1> SUFFICES ASSUME TypeOK, [Next]_vars PROVE Kept
  OBVIOUS
<1>0. RestOK'
  BY RestStep
<1>1. CASE Announce \/ FoundAgain \/ Teardown
  BY <1>0, <1>1, AddKeeps, NotifyKeeps, FoundKeeps, TakeKeeps, DeleteKeeps, DestroyKeeps
     DEF Announce, Teardown
<1>2. CASE Unpair
  <2>1. Sound => th[disc].at # "add"
    BY <1>2 DEF Sound, Begin, Unpair
  <2> QED
    BY <1>0, <1>2, <2>1, RestKeeps DEF Unpair, device
<1>3. CASE \E c \in Clients : Refresh(c) \/ Request(c)
  BY <1>0, <1>3, RefreshKeeps, RequestKeeps
<1>4. ASSUME NEW t \in Threads, Step(t) PROVE Kept
  BY <1>0, <1>4, GetSessionKeeps, StartKeeps, RejoinKeeps, ClaimKeeps, SetFlagsKeeps, SpawnKeeps,
     TakeSessionKeeps, StopKeeps, JoinKeeps, ReleaseKeeps DEF Step
<1>5. ASSUME NEW s \in Sessions, Worker(s) PROVE Kept
  BY <1>0, <1>5, WorkerKeeps DEF Kept
<1>6. CASE UNCHANGED vars
  BY <1>0, <1>6, RestKeeps DEF vars, device
<1> QED
  BY <1>1, <1>2, <1>3, <1>4, <1>5, <1>6 DEF Next

\* The invariant holds in every state.
LEMMA SessInvariant == Spec => []SessInv
<1>1. SessInv /\ [Next]_vars => SessInv'
  BY StepKept, MeetingsStay DEF SessInv, Kept
<1> QED
  BY <1>1, InitSound, PTL DEF Spec

\* Whatever calls meet, every variable keeps its type, and a thread inside a call
\* has a session (WIFIConnectionSession.cpp:205-247).
THEOREM TypeCorrect == Spec => []TypeOK
<1>1. SessInv => TypeOK
  BY DEF SessInv
<1> QED
  BY <1>1, SessInvariant, PTL

\* For any number of clients that ask for reconnects one after the other, no worker
\* is joined twice, none is replaced while it runs, and none drops the last
\* reference to its device (WIFIConnectionSession.cpp:88-234).
THEOREM NeverCrashes == Spec => []NoCrash
<1>1. SessInv => NoCrash
  BY DEF SessInv, Sound, NoCrash
<1> QED
  BY <1>1, SessInvariant, PTL

\* A session that runs was told of the device's last version, however announcements
\* and starts follow each other (WIFIDevice.cpp:102-122).
THEOREM KeepsUpToDate == Spec => []UpToDate
<1>1. SessInv => UpToDate
  BY DEF SessInv, Sound, Told, UpToDate
<1> QED
  BY <1>1, SessInvariant, PTL

-----------------------------------------------------------------------------
(* Late calls. *)

\* Sessions that were not made by a late call.
Old == Sessions \ late

\* deconstruct() is about to join the worker of session s.
Stopping(s) == inMux /\ th[reaper].ses = s /\ th[reaper].at \in {"stop", "join"}

\* Where the reaper is, which deconstructs the device once or several times.
Reaping ==
  /\ th[reaper].at \in {"idle", "take", "stop", "join", "release", "delete"}
  /\ th[reaper].at \in {"take", "stop", "join", "release"} => th[reaper].then = "delete"

\* The device and its old sessions have parted for good: it has none or a late one,
\* nobody but the reaper is inside a call that starts or stops an old one, and only
\* what the reaper is about to join still runs.
Parted ==
  /\ Torn /\ Reaping
  /\ cur # None => cur \in late
  /\ \A s \in Old : so[s].wk # "none" => Stopping(s)
  /\ \A t \in Threads \ {reaper} :
       th[t].ses \in Old => t # dtor /\ th[t].at \in {"request", "release"}

LateInv == raced \subseteq {"late"} => ("late" \in raced \/ Torn => Parted)

\* No step but the making of a session changes which are late.
LateKept == late \subseteq late' /\ (cur' # None => cur' \in late' \/ cur' = cur)

\* A thread other than the reaper moves.
LEMMA OtherParted ==
  ASSUME TypeOK, Parted, LateKept, inMux' = inMux, NEW t \in Threads \ {reaper},
         \A u \in Threads \ {t} : th'[u] = th[u],
         th'[t].at # "add",
         th'[t].ses \in Old' => t # dtor /\ th'[t].at \in {"request", "release"},
         \A s \in Old' : so'[s].wk # "none" => so[s].wk # "none"
  PROVE  Parted'
<1>1. disc \in Threads /\ reaper \in Threads
  BY Basics
<1>2. th'[reaper] = th[reaper] /\ th'[disc].at # "add"
  BY <1>1 DEF Parted, Torn
<1>3. Torn' /\ Reaping'
  BY <1>2 DEF Parted, Torn, Reaping
<1>4. Old' \subseteq Old
  BY DEF Old, LateKept
<1>5. \A s \in Old' : so'[s].wk # "none" => Stopping(s)'
  BY <1>2, <1>4 DEF Parted, Stopping
<1>6. \A u \in Threads \ {reaper} :
        th'[u].ses \in Old' => u # dtor /\ th'[u].at \in {"request", "release"}
  BY <1>4 DEF Parted
<1>7. cur' # None => cur' \in late'
  BY DEF Parted, LateKept
<1> QED
  BY <1>3, <1>5, <1>6, <1>7 DEF Parted

\* The reaper moves.
LEMMA ReaperParted ==
  ASSUME TypeOK, Parted, LateKept, inMux' => inMux,
         \A u \in Threads \ {reaper} : th'[u] = th[u],
         Reaping', inMux' => th'[reaper].at \notin {"idle", "take"},
         \A s \in Old' : so'[s].wk # "none" => so[s].wk # "none",
         \A s \in Old : so'[s].wk # "none" /\ so[s].wk # "none" => Stopping(s)'
  PROVE  Parted'
<1>1. disc \in Threads \ {reaper}
  BY Basics, SessionAssumption
<1>2. Torn'
  BY <1>1 DEF Parted, Torn
<1>3. Old' \subseteq Old
  BY DEF Old, LateKept
<1>4. \A s \in Old' : so'[s].wk # "none" => Stopping(s)'
  BY <1>3 DEF Parted
<1>5. \A u \in Threads \ {reaper} :
        th'[u].ses \in Old' => u # dtor /\ th'[u].at \in {"request", "release"}
  BY <1>3 DEF Parted
<1>6. cur' # None => cur' \in late'
  BY DEF Parted, LateKept
<1> QED
  BY <1>2, <1>4, <1>5, <1>6 DEF Parted

\* The calls of a late session by threads other than the reaper, who start and stop
\* it, and let go of it (WIFIDevice.cpp:57-100, WIFIConnectionSession.cpp:88-127).
LEMMA CallParted ==
  ASSUME TypeOK, Parted, NEW t \in Threads \ {reaper},
         \/ Start(t) \/ Rejoin(t) \/ Claim(t) \/ SetFlags(t) \/ Spawn(t) \/ Stop(t) \/ Join(t)
         \/ t = disc /\ Notify
         \/ t \in Clients /\ Request(t)
  PROVE  Parted'
<1>1. PICK s : s = th[t].ses
  OBVIOUS
<1>2. UNCHANGED <<device, late>>
  BY DEF Start, Rejoin, Claim, SetFlags, Spawn, Stop, Join, Notify, Request, history
<1>3. th[t].at = "request" \/ s \notin Old
  BY <1>1 DEF Parted, Start, Rejoin, Claim, SetFlags, Spawn, Stop, Join, Notify, Request, At
<1>4. /\ \A u \in Threads \ {t} : th'[u] = th[u]
      /\ th'[t].ses = s /\ th'[t].at \notin {"add"}
      /\ th[t].at = "request" => th'[t].at = "release"
  <2>1. ASSUME NEW place \in Places \ {"add"}, Go(t, place),
               th[t].at = "request" => place = "release"
        PROVE  <1>4!1 /\ <1>4!2 /\ <1>4!3
    BY <1>1, <2>1, GoIs DEF Moves
  <2>2. ASSUME NEW place \in {"set", "spawn", "release"}, NEW ver,
               th' = [th EXCEPT ![t].at = place, ![t].ver = ver], th[t].at # "request"
        PROVE  <1>4!1 /\ <1>4!2 /\ <1>4!3
    BY <1>1, <2>2, Basics DEF Thread
  <2>3. CASE Start(t)
    <3>1. \E place \in {"claim", "request", "release", "rejoin"} : Go(t, place)
      BY <2>3 DEF Start, Enters, Return
    <3> QED
      BY <2>1, <2>3, <3>1 DEF Start, At, Places, Outside
  <2>4. CASE Rejoin(t) \/ Join(t)
    BY <2>1, <2>4 DEF Rejoin, Join, At, Places, Outside
  <2>5. CASE Spawn(t)
    <3>1. \E place \in {"request", "release"} : Go(t, place)
      BY <2>5 DEF Spawn, Return
    <3> QED
      BY <2>1, <2>5, <3>1 DEF Spawn, At, Places, Outside
  <2>6. CASE Stop(t)
    <3>1. \E place \in {"join", "release"} : Go(t, place)
      BY <2>6 DEF Stop
    <3> QED
      BY <2>1, <2>6, <3>1 DEF Stop, At, Places, Outside
  <2>7. CASE t \in Clients /\ Request(t)
    BY <2>1, <2>7 DEF Request, At, Places, Outside
  <2>8. CASE SetFlags(t)
    BY <2>2, <2>8 DEF SetFlags, At
  <2>9. CASE t = disc /\ Notify
    BY <2>2, <2>9 DEF Notify, At
  <2>10. CASE Claim(t)
    <3>1. th[t].at = "claim"
      BY <2>10 DEF Claim, At
    <3>2. CASE so[th[t].ses].started
      <4>1. \E place \in {"request", "release"} : Go(t, place)
        BY <2>10, <3>2 DEF Claim, Return, Go
      <4> QED
        BY <2>1, <3>1, <4>1 DEF Places, Outside
    <3>3. CASE ~so[th[t].ses].started
      BY <2>2, <2>10, <3>1, <3>3 DEF Claim
    <3> QED
      BY <3>2, <3>3
  <2> QED
    BY <2>3, <2>4, <2>5, <2>6, <2>7, <2>8, <2>9, <2>10
<1>5. \A w \in Sessions \ {s} : so'[w].wk = so[w].wk
  BY <1>1, Basics
     DEF Start, Rejoin, Claim, SetFlags, Spawn, Stop, Join, Joined, Notify, Request
<1>6. th[t].at = "request" => \A w \in Sessions : so'[w].wk = so[w].wk
  <2> SUFFICES ASSUME th[t].at = "request", NEW w \in Sessions PROVE so'[w].wk = so[w].wk
    OBVIOUS
  <2>1. Request(t)
    BY DEF Start, Rejoin, Claim, SetFlags, Spawn, Stop, Join, Notify, Request, At
  <2>2. CASE w = s
    <3> DEFINE r == [so[s] EXCEPT !.reconn = TRUE]
    <3>1. so' = [so EXCEPT ![s] = r] /\ so[s] \in Session
      BY <1>1, <2>1, <2>2, Basics DEF Request
    <3>2. r.wk = so[s].wk
      BY <3>1 DEF Session
    <3> HIDE DEF r
    <3> QED
      BY <2>2, <3>1, <3>2, Basics
  <2> QED
    BY <1>5, <2>2
<1>7. \A w \in Old' : so'[w].wk # "none" => so[w].wk # "none"
  BY <1>2, <1>3, <1>5, <1>6 DEF Old
<1>8. LateKept /\ inMux' = inMux
  BY <1>2 DEF LateKept, device
<1>9. th'[t].ses \in Old' => t # dtor /\ th'[t].at \in {"request", "release"}
  BY <1>1, <1>2, <1>3, <1>4 DEF Old, Parted
<1> QED
  BY <1>4, <1>7, <1>8, <1>9, OtherParted

\* A late call takes the device's session or makes one (WIFIDevice.cpp:62-68 and
\* 89-95), discovery tells it of an address, a client begins, a thread lets go of its
\* session; ~WIFIDevice goes on.
LEMMA LateParted ==
  ASSUME TypeOK, TypeOK', Parted, NEW t \in Threads \ {reaper},
         \/ GetSession(t) \/ TakeSession(t) \/ Release(t)
         \/ t = disc /\ FoundAgain
         \/ t = dtor /\ (Destroy \/ Erase)
         \/ t \in Clients /\ Refresh(t)
  PROVE  Parted'
<1>0. None \notin Sessions /\ cur \in Sessions \cup {None} /\ reaper \in Threads \ {t}
      /\ th[t] \in Thread /\ th \in [Threads -> Thread] /\ so \in [Sessions -> Session]
  BY Basics DEF RestOK
<1>1. CASE GetSession(t)
  <2>1. /\ cur' \in Sessions /\ (cur # None => cur' = cur)
        /\ late' = IF Torn /\ cur = None THEN late \cup {cur'} ELSE late
        /\ inMux' = inMux /\ so' = so
    BY <1>0, <1>1 DEF GetSession, HasSession
  <2>2. cur' \in late' /\ late \subseteq late'
    BY <2>1 DEF Parted
  <2>3. /\ \A u \in Threads \ {t} : th'[u] = th[u]
        /\ th'[t].at = "start" /\ th'[t].ses = cur'
    BY <1>0, <1>1, <2>1 DEF GetSession, Thread
  <2>4. th'[t].ses \notin Old'
    BY <2>2, <2>3 DEF Old
  <2> QED
    BY <2>1, <2>2, <2>3, <2>4, OtherParted DEF LateKept
<1>2. CASE TakeSession(t)
  <2>1. UNCHANGED <<inMux, so, late>> /\ cur' = None /\ th[t].at = "take"
    BY <1>2 DEF TakeSession, Reset, At
  <2>2. /\ \A u \in Threads \ {t} : th'[u] = th[u]
        /\ th'[t].at # "add" /\ th'[t].ses \in {th[t].ses, cur}
        /\ cur = None => th'[t].ses = th[t].ses
    <3>1. CASE cur # None
      BY <1>0, <1>2, <3>1 DEF TakeSession, HasSession, Thread
    <3>2. CASE cur = None
      <4>1. th' = [th EXCEPT ![t].at = th[t].then, ![t].then = "idle"]
        BY <1>2, <3>2 DEF TakeSession, HasSession
      <4>2. th[t].then # "add"
        BY <1>0 DEF Thread
      <4> QED
        BY <1>0, <3>2, <4>1, <4>2 DEF Thread
    <3> QED
      BY <3>1, <3>2
  <2>3. th'[t].ses \notin Old'
    BY <1>0, <2>1, <2>2 DEF Parted, Old
  <2> QED
    BY <2>1, <2>2, <2>3, OtherParted DEF LateKept
<1>3. CASE Release(t)
  <2>1. PICK s : s = th[t].ses
    OBVIOUS
  <2>2. UNCHANGED <<inMux, cur, late>>
    BY <1>3 DEF Release, device, history
  <2>3. CASE LastOwner(t, s) /\ so[s].wk # "none"
    <3>1. /\ \A u \in Threads \ {t} : th'[u] = th[u]
          /\ th'[t].at = "stop" /\ th'[t].ses = s /\ so' = so
      BY <1>0, <1>3, <2>1, <2>3, GoIs DEF Release, Moves, Places
    <3>2. s \notin Old
      BY <1>0, <2>3 DEF Parted, Stopping, LastOwner
    <3> QED
      BY <2>2, <3>1, <3>2, OtherParted DEF LateKept, Old
  <2>4. CASE ~(LastOwner(t, s) /\ so[s].wk # "none")
    <3>1. /\ th' = [th EXCEPT ![t].at = th[t].then, ![t].ses = None, ![t].then = "idle"]
          /\ so' = so \/ so' = [so EXCEPT ![s] = Blank]
      BY <1>3, <2>1, <2>4 DEF Release
    <3>2. th[t].then # "add"
      BY <1>0 DEF Thread
    <3>3. /\ \A u \in Threads \ {t} : th'[u] = th[u]
          /\ th'[t].at # "add" /\ th'[t].ses = None
      BY <1>0, <3>1, <3>2 DEF Thread
    <3>4. \A w \in Sessions : so'[w].wk # "none" => so[w].wk # "none"
      BY <1>0, <3>1 DEF Blank
    <3> QED
      BY <1>0, <2>2, <3>3, <3>4, OtherParted DEF LateKept, Old
  <2> QED
    BY <2>3, <2>4
<1>4. CASE t = disc /\ FoundAgain
  <2>1. UNCHANGED <<inMux, so, late, cur>> /\ th[t].at = "idle"
    BY <1>4 DEF FoundAgain, At
  <2>2. CASE cur # None
    <3> DEFINE place == IF version' = version THEN "confirm" ELSE "update"
               r == [at |-> place, ses |-> cur, ver |-> version', then |-> "get"]
    <3>1. th' = [th EXCEPT ![t] = r] /\ place # "add"
      BY <1>4, <2>2 DEF FoundAgain, HasSession
    <3> HIDE DEF place
    <3>2. r.at # "add" /\ r.ses = cur
      BY <3>1
    <3> HIDE DEF r
    <3>3. /\ \A u \in Threads \ {t} : th'[u] = th[u]
          /\ th'[t].at # "add" /\ th'[t].ses = cur
      BY <1>0, <3>1, <3>2
    <3> QED
      BY <2>1, <2>2, <3>3, OtherParted DEF LateKept, Parted, Old
  <2>3. CASE cur = None
    <3>1. Go(t, "get")
      BY <1>4, <2>3 DEF FoundAgain, HasSession
    <3>2. /\ \A u \in Threads \ {t} : th'[u] = th[u]
          /\ th'[t].at # "add" /\ th'[t].ses = th[t].ses
      BY <3>1, GoIs DEF Moves, Places, Outside
    <3>3. th[t].ses \notin Old
      BY <2>1 DEF Parted
    <3> QED
      BY <2>1, <3>2, <3>3, OtherParted DEF LateKept, Old
  <2> QED
    BY <2>2, <2>3
<1>5. CASE (t = dtor /\ (Destroy \/ Erase)) \/ (t \in Clients /\ Refresh(t))
  <2>1. UNCHANGED <<inMux, so, late, cur>>
    BY <1>5 DEF Destroy, Erase, Refresh, device, history
  <2>2. /\ \A u \in Threads \ {t} : th'[u] = th[u]
        /\ th'[t].at \in {"take", "done", "get"} /\ th'[t].ses = th[t].ses
    BY <1>0, <1>5 DEF Destroy, Erase, Refresh, Go, Thread
  <2>3. t = dtor \/ th[t].at = "idle"
    BY <1>5 DEF Refresh, At
  <2>4. th[t].ses \notin Old
    BY <2>3 DEF Parted
  <2> QED
    BY <2>1, <2>2, <2>4, OtherParted DEF LateKept, Old
<1> QED
  BY <1>1, <1>2, <1>3, <1>4, <1>5

\* The reaper deconstructs the device, perhaps another time: it stops what there is,
\* and when it lets go of an old session its worker is gone (WIFIDevice.cpp:72-82).
LEMMA ReaperStepParted ==
  ASSUME TypeOK, TypeOK', Parted, Step(reaper) \/ Take \/ Delete
  PROVE  Parted'
<1>0. /\ cur \in Sessions \cup {None} /\ reaper \in Threads /\ reaper \notin Clients
      /\ th[reaper] \in Thread /\ th \in [Threads -> Thread] /\ so \in [Sessions -> Session]
  BY Basics, SessionAssumption DEF RestOK
<1>1. Reaping /\ th[reaper].at \notin {"get", "start", "rejoin", "claim", "set", "spawn"}
  BY DEF Parted, Reaping
<1>2. \A s \in Old : so[s].wk # "none" => Stopping(s)
  BY DEF Parted
<1>3. CASE Take
  <2>1. UNCHANGED <<inMux, so, late, cur>> /\ th[reaper].at = "idle"
    BY <1>3 DEF Take, At, device, history
  <2>2. ~inMux
    BY <2>1 DEF Parted, Torn
  <2>3. /\ \A u \in Threads \ {reaper} : th'[u] = th[u]
        /\ th'[reaper].at = "take" /\ th'[reaper].then = "delete"
    BY <1>0, <1>3 DEF Take, Thread
  <2> QED
    BY <1>2, <2>1, <2>2, <2>3, ReaperParted DEF LateKept, Reaping, Stopping
<1>4. CASE Delete
  <2>1. UNCHANGED <<so, late, cur>> /\ th[reaper].at = "delete" /\ inMux' = FALSE
    BY <1>4 DEF Delete, At, history
  <2>2. /\ \A u \in Threads \ {reaper} : th'[u] = th[u]
        /\ th'[reaper].at = "idle"
    BY <1>0, <1>4 DEF Delete, Go, Thread
  <2> QED
    BY <1>2, <2>1, <2>2, ReaperParted DEF LateKept, Reaping, Stopping
<1>5. CASE TakeSession(reaper)
  <2>1. UNCHANGED <<inMux, so, late>> /\ cur' = None /\ th[reaper].at = "take"
    BY <1>5 DEF TakeSession, Reset, At
  <2>2. th[reaper].then = "delete"
    BY <1>1, <2>1 DEF Reaping
  <2>3. /\ \A u \in Threads \ {reaper} : th'[u] = th[u]
        /\ \/ th'[reaper].at = "stop" /\ th'[reaper].then = "delete"
           \/ th'[reaper].at = "delete"
    BY <1>0, <1>5, <2>2 DEF TakeSession, Thread
  <2> QED
    BY <1>2, <2>1, <2>3, ReaperParted DEF LateKept, Reaping, Stopping
<1>6. CASE Stop(reaper) \/ Join(reaper)
  <2>1. UNCHANGED <<inMux, cur, late>> /\ th[reaper].at \in {"stop", "join"}
    BY <1>6 DEF Stop, Join, At, device, history
  <2>2. PICK s : s = th[reaper].ses
    OBVIOUS
  <2>3. PICK place \in {"join", "release"} : Go(reaper, place)
    BY <1>6 DEF Stop, Join
  <2>4. /\ \A u \in Threads \ {reaper} : th'[u] = th[u]
        /\ th'[reaper].at = place /\ th'[reaper].ses = s
        /\ th'[reaper].then = th[reaper].then
    BY <1>0, <2>2, <2>3, GoIs DEF Moves, Places
  <2>5. th[reaper].then = "delete"
    BY <1>1, <2>1 DEF Reaping
  <2>6. \A w \in Sessions \ {s} : so'[w].wk = so[w].wk
    BY <1>0, <1>6, <2>2 DEF Stop, Join, Joined
  <2>7. s \in Sessions => so'[s].wk \in {so[s].wk, "none"} /\ (place = "release" => so'[s].wk = "none")
    <3>1. CASE Stop(reaper) /\ s \in Sessions
      <4> DEFINE r == [so[s] EXCEPT !.stop = TRUE, !.reconn = FALSE]
      <4>1. so' = [so EXCEPT ![s] = r] /\ so[s] \in Session
        BY <1>0, <2>2, <3>1 DEF Stop
      <4>2. r.wk = so[s].wk
        BY <4>1 DEF Session
      <4> HIDE DEF r
      <4>3. so'[s].wk = so[s].wk
        BY <1>0, <3>1, <4>1, <4>2
      <4>4. place = "release" => so[s].wk = "none"
        BY <1>0, <2>2, <2>4, <3>1 DEF Stop, Go
      <4> QED
        BY <4>3, <4>4
    <3>2. CASE Join(reaper) /\ s \in Sessions
      BY <1>0, <2>2, <3>2 DEF Join, Joined, Session
    <3> QED
      BY <1>6, <3>1, <3>2
  <2>8. \A w \in Old : so'[w].wk # "none" => so[w].wk # "none"
    BY <2>6, <2>7 DEF Old
  <2>9. \A w \in Old : so'[w].wk # "none" /\ so[w].wk # "none" => Stopping(w)'
    BY <1>2, <2>1, <2>2, <2>4, <2>7 DEF Stopping, Old
  <2> QED
    BY <2>1, <2>4, <2>5, <2>8, <2>9, ReaperParted DEF LateKept, Reaping, Old
<1>7. CASE Release(reaper)
  <2>1. UNCHANGED <<inMux, cur, late>> /\ th[reaper].at = "release"
    BY <1>7 DEF Release, At, device, history
  <2>2. th[reaper].then = "delete"
    BY <1>1, <2>1 DEF Reaping
  <2>3. /\ \A u \in Threads \ {reaper} : th'[u] = th[u]
        /\ \/ th'[reaper].at = "stop" /\ th'[reaper].then = "delete"
           \/ th'[reaper].at = "delete"
    BY <1>0, <1>7, <2>2 DEF Release, Go, Thread
  <2>4. \A w \in Sessions : so'[w].wk # "none" => so[w].wk # "none"
    <3>1. so' = so \/ so' = [so EXCEPT ![th[reaper].ses] = Blank]
      BY <1>7 DEF Release
    <3> QED
      BY <1>0, <3>1 DEF Blank
  <2>5. \A w \in Old : so[w].wk = "none"
    BY <1>2, <2>1 DEF Stopping
  <2> QED
    BY <2>1, <2>3, <2>4, <2>5, ReaperParted DEF LateKept, Reaping, Old
<1> QED
  BY <1>1, <1>3, <1>4, <1>5, <1>6, <1>7
     DEF Step, GetSession, Start, Rejoin, Claim, SetFlags, Spawn, At

\* Workers, and those who only post the device for the reaper.
LEMMA RestParted ==
  ASSUME TypeOK, Parted,
         \/ \E s \in Sessions : Worker(s)
         \/ AddDevice \/ Unpair \/ UNCHANGED vars
  PROVE  Parted'
<1>1. CASE \E s \in Sessions : Worker(s)
  <2>1. PICK s \in Sessions : Worker(s)
    BY <1>1
  <2>2. so[s].wk # "none" /\ UNCHANGED <<device, late, th>>
    BY <2>1 DEF Worker, Top, Snapshot, ClearRequest, Attempt, Leave, Afterwards, Failed, Wake,
       WorkerEnds, Walk, Work, In
  <2>3. \A w \in Sessions \ {s} : so'[w] = so[w]
    BY <2>1, Basics DEF Worker, Top, Snapshot, ClearRequest, Attempt, Leave, Afterwards, Failed,
       Wake, WorkerEnds, Walk
  <2>4. \A w \in Old : so'[w].wk # "none" => so[w].wk # "none"
    BY <2>2, <2>3 DEF Old
  <2> QED
    BY <2>2, <2>4 DEF Parted, Torn, Reaping, Stopping, Old, device
<1>2. CASE AddDevice
  BY <1>2 DEF AddDevice, At, Parted, Torn
<1>3. CASE Unpair \/ UNCHANGED vars
  <2>1. UNCHANGED <<device, so, th, late>>
    BY <1>3 DEF Unpair, vars, history
  <2> QED
    BY <2>1 DEF Parted, Torn, Reaping, Stopping, Old, device
<1> QED
  BY <1>1, <1>2, <1>3

\* Every step.
LEMMA PartedStep ==
  ASSUME TypeOK, TypeOK', Parted, [Next]_vars
  PROVE  Parted'
<1>0. disc \in Threads \ {reaper} /\ dtor \in Threads \ {reaper} /\ Clients \subseteq Threads \ {reaper}
  BY Basics, SessionAssumption
<1>1. CASE Announce \/ FoundAgain
  BY <1>0, <1>1, RestParted, CallParted, LateParted DEF Announce
<1>2. CASE Teardown
  BY <1>0, <1>2, ReaperStepParted, LateParted DEF Teardown
<1>3. CASE \E c \in Clients : Refresh(c) \/ Request(c)
  BY <1>0, <1>3, CallParted, LateParted
<1>4. ASSUME NEW t \in Threads, Step(t) PROVE Parted'
  BY <1>4, CallParted, LateParted, ReaperStepParted DEF Step
<1>5. CASE Unpair \/ (\E s \in Sessions : Worker(s)) \/ UNCHANGED vars
  BY <1>5, RestParted
<1> QED
  BY <1>1, <1>2, <1>3, <1>4, <1>5 DEF Next

\* Only who comes after deconstruct() comes late.
LEMMA LateWhenTorn == [Next]_vars /\ "late" \in raced' => "late" \in raced \/ Torn
<1> SUFFICES ASSUME [Next]_vars, "late" \in raced', "late" \notin raced PROVE Torn
  OBVIOUS
<1>1. \A it, happened : Note(it, happened) => it = "late"
  BY DEF Note
<1>2. CASE Announce \/ FoundAgain \/ Teardown \/ Unpair
  BY <1>1, <1>2 DEF Announce, AddDevice, Notify, FoundAgain, Teardown, Take, Delete, Destroy,
     Erase, Unpair, history
<1>3. ASSUME NEW c \in Clients, Refresh(c) \/ Request(c) PROVE Torn
  BY <1>3 DEF Refresh, Request, history
<1>4. ASSUME NEW t \in Threads, Step(t) PROVE Torn
  <2>1. CASE GetSession(t)
    BY <2>1 DEF GetSession
  <2>2. CASE Start(t) \/ TakeSession(t)
    BY <1>1, <2>2 DEF Start, TakeSession
  <2>3. CASE Rejoin(t) \/ Claim(t) \/ SetFlags(t) \/ Spawn(t)
    BY <2>3 DEF Rejoin, Claim, SetFlags, Spawn, history
  <2>4. CASE Stop(t) \/ Join(t) \/ Release(t)
    BY <2>4 DEF Stop, Join, Release, history
  <2> QED
    BY <1>4, <2>1, <2>2, <2>3, <2>4 DEF Step
<1>5. ASSUME NEW s \in Sessions, Worker(s) PROVE Torn
  <2>1. \E place, kills : Work(s, place, kills)
    <3>1. CASE Failed(s)
      BY <3>1 DEF Failed
    <3>2. CASE ~Failed(s)
      BY <1>5, <3>2 DEF Worker, Top, Snapshot, ClearRequest, Attempt, Leave, Afterwards, Walk,
         Wake, WorkerEnds
    <3> QED
      BY <3>1, <3>2
  <2> QED
    BY <1>1, <2>1 DEF Work
<1>6. CASE UNCHANGED vars
  BY <1>6 DEF vars, history
<1> QED
  BY <1>2, <1>3, <1>4, <1>5, <1>6 DEF Next

\* When nothing has met, the device parts with its session as deconstruct() begins.
LEMMA SoundParted == TypeOK /\ Sound /\ Torn => Parted
<1> SUFFICES ASSUME TypeOK, Sound, Torn PROVE Parted
  OBVIOUS
<1>1. reaper \in Threads /\ dtor \in Threads /\ reaper # dtor /\ reaper # disc /\ None \notin Sessions
  BY Basics, SessionAssumption
<1>2. Reaping
  BY <1>1 DEF Sound, Role, Reaping
<1>3. th[dtor].ses \notin Sessions
  BY <1>1 DEF Sound, Role, Outside
<1> QED
  BY <1>1, <1>2, <1>3 DEF Sound, Apart, Parted, Old, Stopping

\* The invariant about late calls holds in every state.
LEMMA LateInvariant == Spec => []LateInv
<1>1. Init => LateInv
  <2> SUFFICES ASSUME Init PROVE LateInv
    OBVIOUS
  <2>1. th[disc].at = "add"
    BY DEF Init, Threads
  <2> QED
    BY <2>1 DEF Init, LateInv, Torn
<1> DEFINE Parting == TypeOK /\ Sound /\ Torn => Parted
<1>2. SessInv /\ SessInv' /\ Parting' /\ LateInv /\ [Next]_vars => LateInv'
  <2> SUFFICES ASSUME SessInv, SessInv', Parting', LateInv, [Next]_vars, raced' \subseteq {"late"},
                      "late" \in raced' \/ Torn'
               PROVE  Parted'
    BY DEF LateInv
  <2>1. raced \subseteq {"late"}
    BY MeetingsStay
  <2>2. CASE "late" \in raced \/ Torn
    BY <2>1, <2>2, PartedStep DEF LateInv, SessInv
  <2>3. CASE ~("late" \in raced \/ Torn)
    <3>1. raced' = {}
      BY <2>3, LateWhenTorn
    <3> QED
      BY <3>1 DEF SessInv
  <2> QED
    BY <2>2, <2>3
<1> QED
  BY <1>1, <1>2, SoundParted, SessInvariant, PTL DEF Spec

-----------------------------------------------------------------------------
\* However many threads come late, and however often the device is deconstructed:
\* once deconstruct() has stopped the session of the device, its worker is gone, and
\* nobody starts it again. What runs then is the worker of a session that was made
\* late (WIFIDevice.cpp:57-100 and 134-144).
THEOREM StopsForGood == Spec => []StoppedForGood
<1>1. LateInv => StoppedForGood
  BY DEF LateInv, Parted, Stopping, Old, Torn, StoppedForGood
<1> QED
  BY <1>1, LateInvariant, PTL
=============================================================================
