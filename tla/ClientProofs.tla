----------------------------- MODULE ClientProofs -----------------------------
(***************************************************************************)
(* Proofs about Client, for any number of clients and any request length:  *)
(* types, ownership of descriptors and objects, and that the clients       *)
(* implement ClientLink.                                                   *)
(***************************************************************************)
EXTENDS Client, FiniteSetTheorems, SequenceTheorems, TLAPS

-----------------------------------------------------------------------------
(* The reaper's queue. *)

InQueue(q, c) == \E i \in DOMAIN q : q[i] = c

\* A client is posted to the reaper (ClientManager.cpp:104-111, post).
LEMMA AppendInQueue ==
  ASSUME NEW q \in Seq(Clients), NEW c \in Clients, NEW d
  PROVE  /\ Append(q, c) \in Seq(Clients)
         /\ InQueue(Append(q, c), d) <=> InQueue(q, d) \/ d = c
<1>1. Append(q, c) \in Seq(Clients) /\ Len(Append(q, c)) = Len(q) + 1
  BY AppendProperties
<1>2. ASSUME InQueue(Append(q, c), d) PROVE InQueue(q, d) \/ d = c
  BY <1>1, <1>2, AppendProperties DEF InQueue
<1>3. ASSUME InQueue(q, d) PROVE InQueue(Append(q, c), d)
  BY <1>1, <1>3, AppendProperties DEF InQueue
<1>4. InQueue(Append(q, c), c)
  <2>1. Len(q) + 1 \in DOMAIN Append(q, c) /\ Append(q, c)[Len(q) + 1] = c
    BY <1>1, AppendProperties
  <2> QED
    BY <2>1 DEF InQueue
<1> QED
  BY <1>1, <1>2, <1>3, <1>4

\* The reaper takes the oldest post.
LEMMA TailInQueue ==
  ASSUME NEW q \in Seq(Clients), q # << >>, NEW d
  PROVE  /\ Tail(q) \in Seq(Clients) /\ Head(q) \in Clients
         /\ InQueue(q, d) <=> InQueue(Tail(q), d) \/ d = Head(q)
<1>1. /\ Tail(q) \in Seq(Clients) /\ Head(q) \in Clients
      /\ Len(Tail(q)) = Len(q) - 1 /\ Len(q) \in Nat \ {0}
      /\ \A i \in 1 .. Len(Tail(q)) : Tail(q)[i] = q[i + 1]
      /\ Head(q) = q[1]
  BY HeadTailProperties, EmptySeq
<1>2. ASSUME InQueue(q, d), d # Head(q) PROVE InQueue(Tail(q), d)
  <2>1. PICK i \in DOMAIN q : q[i] = d
    BY <1>2 DEF InQueue
  <2>2. i - 1 \in 1 .. Len(Tail(q)) /\ Tail(q)[i - 1] = q[(i - 1) + 1]
    BY <1>1, <1>2, <2>1
  <2>3. i - 1 \in DOMAIN Tail(q) /\ Tail(q)[i - 1] = d
    BY <1>1, <2>1, <2>2
  <2> QED
    BY <2>3 DEF InQueue
<1>3. ASSUME InQueue(Tail(q), d) PROVE InQueue(q, d)
  <2>1. PICK i \in DOMAIN Tail(q) : Tail(q)[i] = d
    BY <1>3 DEF InQueue
  <2>2. i + 1 \in DOMAIN q /\ q[i + 1] = d
    BY <1>1, <2>1
  <2> QED
    BY <2>2 DEF InQueue
<1>4. InQueue(q, Head(q))
  <2>1. 1 \in DOMAIN q
    BY <1>1
  <2> QED
    BY <1>1, <2>1 DEF InQueue
<1> QED
  BY <1>1, <1>2, <1>3, <1>4

\* The manager's destructor posts several clients.
LEMMA ConcatInQueue ==
  ASSUME NEW q \in Seq(Clients), NEW s \in Seq(Clients), NEW d
  PROVE  /\ q \o s \in Seq(Clients)
         /\ InQueue(q \o s, d) <=> InQueue(q, d) \/ InQueue(s, d)
<1>1. /\ q \o s \in Seq(Clients) /\ Len(q \o s) = Len(q) + Len(s)
      /\ Len(q) \in Nat /\ Len(s) \in Nat
      /\ \A i \in 1 .. Len(q) + Len(s) :
           (q \o s)[i] = IF i <= Len(q) THEN q[i] ELSE s[i - Len(q)]
  BY ConcatProperties, LenProperties
<1>2. ASSUME InQueue(q \o s, d), ~InQueue(q, d) PROVE InQueue(s, d)
  <2>1. PICK i \in 1 .. Len(q) + Len(s) : (q \o s)[i] = d
    BY <1>1, <1>2 DEF InQueue
  <2>2. ~(i <= Len(q))
    BY <1>1, <1>2, <2>1 DEF InQueue
  <2>3. i - Len(q) \in DOMAIN s /\ s[i - Len(q)] = d
    BY <1>1, <2>1, <2>2
  <2> QED
    BY <2>3 DEF InQueue
<1>3. ASSUME InQueue(q, d) PROVE InQueue(q \o s, d)
  BY <1>1, <1>3 DEF InQueue
<1>4. ASSUME InQueue(s, d) PROVE InQueue(q \o s, d)
  <2>1. PICK i \in DOMAIN s : s[i] = d
    BY <1>4 DEF InQueue
  <2>2. i + Len(q) \in 1 .. Len(q) + Len(s) /\ ~(i + Len(q) <= Len(q)) /\ (i + Len(q)) - Len(q) = i
    BY <1>1, <2>1
  <2>3. i + Len(q) \in DOMAIN (q \o s) /\ (q \o s)[i + Len(q)] = d
    BY <1>1, <2>1, <2>2
  <2> QED
    BY <2>3 DEF InQueue
<1> QED
  BY <1>1, <1>2, <1>3, <1>4

-----------------------------------------------------------------------------
(* The inductive invariant. *)

Asking == {"request", "connect", "refused", "granted", "handover"}

\* Where a client is before it is accepted, and in the hands of the accept loop;
\* what is known of its socket and of its descriptor's owner.
Origin ==
  \A c \in Clients :
    /\ cl[c].obj = "none" =>
         /\ cl[c].loop = "none" /\ cl[c].owners = {} /\ ~KeptByOthers(c)
         /\ cl[c].sock \in {"none", "backlog", "closed"}
    /\ cl[c].obj # "none" => cl[c].owners \in {{"client"}, {"tcp"}}
    /\ acc = c => cl[c].loop = "none" /\ cl[c].obj = "alive" /\ cl[c].owners = {"client"}
    /\ cl[c].peer = "out" => cl[c].sock = "none" /\ cl[c].obj = "none"
    /\ cl[c].sock = "none" => cl[c].wrote = 0
    /\ cl[c].sock = "backlog" => cl[c].obj = "none"

\* SocketOwned but for the number of owners, which Origin has.
Sockets ==
  \A c \in Clients :
    /\ cl[c].obj \in {"alive", "dying"} => cl[c].sock = "open"
    /\ cl[c].obj = "gone" => cl[c].sock = "closed" \/ cl[c].owners = {"tcp"}
    /\ cl[c].owners = {"tcp"} => cl[c].loop \in {"after", "leave", "ended", "joined"}
    /\ cl[c].sock = "closed" => ~Running(c)

OwnInv == TypeOK /\ Origin /\ Sockets /\ LoopKept

\* Queued speaks of _reapClients.
LEMMA QueuedIs == \A c : Queued(c) <=> InQueue(reapq, c)
  BY DEF Queued, InQueue

\* Nobody is connected yet.
LEMMA InitOwns == Init => OwnInv
<1> SUFFICES ASSUME Init PROVE OwnInv
  OBVIOUS
<1> USE ClientAssumption, NobodyAssumption DEF Init
<1>1. TypeOK
  BY DEF TypeOK, ClientState
<1>2. \A c \in Clients : ~Queued(c) /\ acc # c /\ reaper.cli # c
  BY DEF Queued
<1>3. Origin
  BY <1>2 DEF Origin, KeptByOthers
<1>4. Sockets /\ LoopKept
  BY <1>2 DEF Sockets, LoopKept, Running, Referenced, KeptByOthers
<1> QED
  BY <1>1, <1>3, <1>4 DEF OwnInv

-----------------------------------------------------------------------------
(* The steps of a client's loop. *)

\* What holds of a client whose loop runs (Client.cpp:68-83).
LEMMA RunningIs ==
  ASSUME OwnInv, NEW c \in Clients, Running(c)
  PROVE  /\ cl[c].obj = "alive" /\ cl[c].sock = "open" /\ acc # c /\ cl[c].peer # "out"
         /\ KeptByOthers(c) /\ cl[c].loop # "none"
         /\ cl[c].loop \notin {"after", "leave", "ended", "joined"} => cl[c].owners = {"client"}
<1>1. KeptByOthers(c) /\ cl[c].loop # "none"
  BY DEF OwnInv, LoopKept, Running
<1>2. cl[c].obj \in {"none", "alive", "dying", "gone"}
  BY DEF OwnInv, TypeOK, ClientState
<1>3. cl[c].obj = "alive"
  BY <1>1, <1>2 DEF OwnInv, LoopKept, Referenced, Origin
<1> QED
  BY <1>1, <1>3 DEF OwnInv, Origin, Sockets

\* A step that moves a running loop, and not past its end, keeps OwnInv.
LEMMA LoopStep ==
  ASSUME OwnInv, NEW c \in Clients, Running(c), TypeOK',
         UNCHANGED <<acc, reapq, reaper>>,
         \A d \in Clients \ {c} : cl'[d] = cl[d],
         cl'[c].peer = cl[c].peer, cl'[c].sock = cl[c].sock, cl'[c].owners = cl[c].owners,
         cl'[c].obj = cl[c].obj, cl'[c].inMux = cl[c].inMux,
         cl'[c].loop \notin {"none", "joined"},
         cl[c].loop \in {"after", "leave"} => cl'[c].loop \in {"leave", "ended"}
  PROVE  OwnInv'
<1>1. \A d \in Clients : KeptByOthers(d)' <=> KeptByOthers(d)
  BY DEF KeptByOthers, Queued
<1>2. /\ cl[c].obj = "alive" /\ cl[c].sock = "open" /\ acc # c /\ cl[c].peer # "out"
      /\ KeptByOthers(c) /\ cl[c].loop # "none"
      /\ cl[c].loop \notin {"after", "leave", "ended", "joined"} => cl[c].owners = {"client"}
  BY RunningIs
<1>3. Origin'
  <2> SUFFICES ASSUME NEW d \in Clients PROVE Origin!(d)'
    BY DEF Origin
  <2>1. CASE d = c
    BY <1>1, <1>2, <2>1 DEF OwnInv, Origin
  <2>2. CASE d # c
    BY <1>1, <2>2 DEF OwnInv, Origin
  <2> QED
    BY <2>1, <2>2
<1>4. Sockets'
  <2> SUFFICES ASSUME NEW d \in Clients PROVE Sockets!(d)'
    BY DEF Sockets
  <2>1. CASE d = c
    BY <1>2, <2>1 DEF OwnInv, Sockets, Running
  <2>2. CASE d # c
    BY <2>2 DEF OwnInv, Sockets, Running
  <2> QED
    BY <2>1, <2>2
<1>5. LoopKept'
  <2> SUFFICES ASSUME NEW d \in Clients PROVE LoopKept!(d)'
    BY DEF LoopKept
  <2>1. CASE d = c
    BY <1>1, <1>2, <2>1 DEF LoopKept
  <2>2. CASE d # c
    BY <1>1, <2>2 DEF OwnInv, LoopKept, Running, Referenced
  <2> QED
    BY <2>1, <2>2
<1> QED
  BY <1>3, <1>4, <1>5 DEF OwnInv

\* A step of a loop changes nothing of another client, and of its own only
\* where it is and what it has read.
OnlyItsLoop(c) ==
  /\ cl' \in [Clients -> ClientState]
  /\ \A d \in Clients \ {c} : cl'[d] = cl[d]
  /\ cl'[c].peer = cl[c].peer /\ cl'[c].sock = cl[c].sock /\ cl'[c].owners = cl[c].owners
  /\ cl'[c].obj = cl[c].obj /\ cl'[c].inMux = cl[c].inMux

\* What a step to another place changes.
LEMMA LoopIs ==
  ASSUME cl \in [Clients -> ClientState], NEW c \in Clients,
         NEW place \in {"second", "after", "more", "request", "connect", "refused", "granted",
                        "handover", "leave", "ended", "joined"},
         Loop(c, place)
  PROVE  /\ OnlyItsLoop(c) /\ cl'[c].loop = place
         /\ cl'[c].wrote = cl[c].wrote /\ cl'[c].got = cl[c].got
<1>1. cl' = [cl EXCEPT ![c].loop = place]
  BY DEF Loop
<1>2. cl[c] \in ClientState
  OBVIOUS
<1>3. cl'[c] = [cl[c] EXCEPT !.loop = place] /\ \A d \in Clients \ {c} : cl'[d] = cl[d]
  BY <1>1
<1>4. cl'[c] \in ClientState
  BY <1>2, <1>3 DEF ClientState
<1>5. cl' \in [Clients -> ClientState]
  <2>1. cl' = [cl EXCEPT ![c] = cl'[c]]
    BY <1>1
  <2> QED
    BY <1>4, <2>1
<1> QED
  BY <1>2, <1>3, <1>5 DEF OnlyItsLoop, ClientState

\* What an answer changes (Client.cpp:399-443).
LEMMA AnsweredIs ==
  ASSUME cl \in [Clients -> ClientState], NEW c \in Clients, Answered(c)
  PROVE  OnlyItsLoop(c) /\ cl'[c].loop = "first" /\ cl'[c].wrote = 0 /\ cl'[c].got = 0
<1>1. cl' = [cl EXCEPT ![c].wrote = 0, ![c].got = 0, ![c].loop = "first"]
  BY DEF Answered
<1>2. cl[c] \in ClientState /\ 0 \in 0 .. Length
  BY ClientAssumption
<1>3. /\ cl'[c] = [cl[c] EXCEPT !.wrote = 0, !.got = 0, !.loop = "first"]
      /\ \A d \in Clients \ {c} : cl'[d] = cl[d]
  BY <1>1
<1>4. cl'[c] \in ClientState
  BY <1>2, <1>3 DEF ClientState
<1>5. cl' \in [Clients -> ClientState]
  <2>1. cl' = [cl EXCEPT ![c] = cl'[c]]
    BY <1>1
  <2> QED
    BY <1>4, <2>1
<1> QED
  BY <1>2, <1>3, <1>5 DEF OnlyItsLoop, ClientState

\* What a read changes (Client.cpp:104-130).
LEMMA ReadIs ==
  ASSUME TypeOK, NEW c \in Clients, Read(c)
  PROVE  /\ OnlyItsLoop(c) /\ cl'[c].loop \in {"second", "after", "more", "request"}
         /\ cl'[c].got <= cl'[c].wrote /\ cl'[c].wrote = cl[c].wrote
         /\ cl'[c].loop = "request" => cl'[c].got = Length
<1>1. PICK n \in 1 .. Unread(c) :
        cl' = [cl EXCEPT ![c].got = @ + n,
                         ![c].loop = AfterRead(cl[c].loop, cl[c].got + n)]
  BY DEF Read
<1> DEFINE got == cl[c].got + n
           place == AfterRead(cl[c].loop, got)
<1>2. /\ cl[c] \in ClientState /\ cl \in [Clients -> ClientState]
      /\ cl[c].wrote \in 0 .. Length /\ cl[c].got \in 0 .. Length
  BY DEF TypeOK, ClientState
<1>3. got \in 0 .. Length /\ got <= cl[c].wrote
  BY <1>2, ClientAssumption DEF Unread
<1>4. /\ place \in {"second", "after", "more", "request"}
      /\ place = "request" => got = Length
  BY <1>2, <1>3, ClientAssumption DEF AfterRead
<1> HIDE DEF got, place
<1>5. /\ cl'[c] = [cl[c] EXCEPT !.got = got, !.loop = place]
      /\ \A d \in Clients \ {c} : cl'[d] = cl[d]
      /\ cl' = [cl EXCEPT ![c] = cl'[c]]
  BY <1>1, <1>2 DEF got, place
<1>6. cl'[c] \in ClientState
  BY <1>2, <1>3, <1>4, <1>5 DEF ClientState
<1>7. /\ cl'[c].got = got /\ cl'[c].loop = place /\ cl'[c].wrote = cl[c].wrote
      /\ cl'[c].peer = cl[c].peer /\ cl'[c].sock = cl[c].sock /\ cl'[c].owners = cl[c].owners
      /\ cl'[c].obj = cl[c].obj /\ cl'[c].inMux = cl[c].inMux
  BY <1>2, <1>5 DEF ClientState
<1>8. cl' \in [Clients -> ClientState]
  BY <1>2, <1>5, <1>6
<1> QED
  BY <1>3, <1>4, <1>5, <1>7, <1>8 DEF OnlyItsLoop

\* A step of a loop to another place that keeps what was read keeps OwnInv.
LEMMA OnlyItsLoopKeeps ==
  ASSUME OwnInv, NEW c \in Clients, Running(c), OnlyItsLoop(c),
         UNCHANGED <<acc, reapq, reaper, mgr>>,
         cl'[c].got <= cl'[c].wrote,
         cl'[c].loop \in Asking => cl'[c].got = Length,
         cl'[c].loop \notin {"none", "joined"},
         cl[c].loop \in {"after", "leave"} => cl'[c].loop \in {"leave", "ended"}
  PROVE  OwnInv'
<1>1. TypeOK'
  <2>1. /\ acc' \in Clients \cup {Nobody, "ended"} /\ reapq' \in Seq(Clients)
        /\ reaper' \in [at : {"wait"}, cli : {Nobody}]
                         \cup [at : {"delete", "stop", "join"}, cli : Clients]
        /\ mgr' \in {"run", "kill", "wait", "done", "crashed"}
    BY DEF OwnInv, TypeOK
  <2>2. ASSUME NEW d \in Clients
        PROVE  /\ cl'[d].got <= cl'[d].wrote
               /\ cl'[d].loop \in Asking => cl'[d].got = Length
    BY DEF OwnInv, TypeOK, OnlyItsLoop, Asking
  <2> QED
    BY <2>1, <2>2 DEF TypeOK, OnlyItsLoop, Asking
<1> QED
  BY <1>1, LoopStep DEF OnlyItsLoop

\* The loop's steps keep OwnInv, but for the hand-over and the end (below).
LEMMA ServingKeeps ==
  ASSUME OwnInv, NEW c \in Clients,
         \/ Read(c) \/ ReadFails(c) \/ Serve(c) \/ ConnectBegins(c) \/ ConnectEnds(c)
         \/ Refuse(c) \/ Grant(c) \/ LoopEnds(c)
  PROVE  OwnInv'
<1> DEFINE Places == {"second", "after", "more", "request", "connect", "refused", "granted",
                      "handover", "leave", "ended", "joined"}
<1>1. /\ TypeOK /\ cl \in [Clients -> ClientState]
      /\ cl[c].got \in 0 .. Length /\ cl[c].wrote \in 0 .. Length /\ cl[c].got <= cl[c].wrote
      /\ cl[c].loop \in Asking => cl[c].got = Length
  BY DEF OwnInv, TypeOK, ClientState, Asking
<1>2. ASSUME NEW place \in Places \ {"joined"}, Loop(c, place), Running(c),
             UNCHANGED <<acc, reapq, reaper, mgr>>,
             place \in Asking => cl[c].loop \in Asking,
             cl[c].loop \in {"after", "leave"} => place \in {"leave", "ended"}
      PROVE  OwnInv'
  <2>1. /\ OnlyItsLoop(c) /\ cl'[c].loop = place
        /\ cl'[c].wrote = cl[c].wrote /\ cl'[c].got = cl[c].got
    BY <1>1, <1>2, LoopIs
  <2> QED
    BY <1>1, <1>2, <2>1, OnlyItsLoopKeeps
<1>3. ASSUME Answered(c), Running(c), UNCHANGED <<acc, reapq, reaper, mgr>>,
             cl[c].loop \notin {"after", "leave"}
      PROVE  OwnInv'
  <2>1. OnlyItsLoop(c) /\ cl'[c].loop = "first" /\ cl'[c].wrote = 0 /\ cl'[c].got = 0
    BY <1>1, <1>3, AnsweredIs
  <2> QED
    BY <1>3, <2>1, OnlyItsLoopKeeps DEF Asking
<1>4. CASE Read(c)
  <2>1. /\ OnlyItsLoop(c) /\ cl'[c].loop \in {"second", "after", "more", "request"}
        /\ cl'[c].got <= cl'[c].wrote
        /\ cl'[c].loop = "request" => cl'[c].got = Length
    BY <1>1, <1>4, ReadIs
  <2>2. Running(c) /\ cl[c].loop \notin {"after", "leave"} /\ UNCHANGED <<acc, reapq, reaper, mgr>>
    BY <1>4 DEF Read, Running
  <2>3. /\ cl'[c].loop \in Asking => cl'[c].got = Length
        /\ cl'[c].loop \notin {"none", "joined"}
    BY <2>1 DEF Asking
  <2> QED
    BY <2>1, <2>2, <2>3, OnlyItsLoopKeeps
<1>5. CASE ReadFails(c)
  BY <1>2, <1>5 DEF ReadFails, Running, Asking
<1>6. CASE Serve(c)
  BY <1>2, <1>3, <1>6 DEF Serve, InLoop, Running, Asking
<1>7. CASE ConnectBegins(c)
  BY <1>2, <1>7 DEF ConnectBegins, InLoop, Running, Asking
<1>8. CASE ConnectEnds(c)
  BY <1>2, <1>8 DEF ConnectEnds, InLoop, Running, Asking
<1>9. CASE Refuse(c)
  BY <1>2, <1>3, <1>9 DEF Refuse, NoAnswer, InLoop, Running, Asking
<1>10. CASE Grant(c)
  BY <1>2, <1>10 DEF Grant, NoAnswer, InLoop, Running, Asking
<1>11. CASE LoopEnds(c)
  BY <1>2, <1>11 DEF LoopEnds, InLoop, Running, Asking
<1> QED
  BY <1>4, <1>5, <1>6, <1>7, <1>8, <1>9, <1>10, <1>11

-----------------------------------------------------------------------------
(* The other steps of one client. *)

\* A step of one client leaves the others where they are.
Touched(c) ==
  /\ cl' \in [Clients -> ClientState]
  /\ \A d \in Clients \ {c} : cl'[d] = cl[d]

\* A record that is replaced.
LEMMA TouchedIs ==
  ASSUME cl \in [Clients -> ClientState], NEW c \in Clients, NEW r \in ClientState,
         cl' = [cl EXCEPT ![c] = r]
  PROVE  Touched(c) /\ cl'[c] = r
  BY DEF Touched

\* What has to be shown of such a step.
LEMMA Frame ==
  ASSUME OwnInv, NEW c \in Clients, Touched(c),
         cl'[c].got <= cl'[c].wrote,
         cl'[c].loop \in Asking => cl'[c].got = Length,
         acc' \in Clients \cup {Nobody, "ended"}, reapq' \in Seq(Clients),
         reaper' \in [at : {"wait"}, cli : {Nobody}]
                      \cup [at : {"delete", "stop", "join"}, cli : Clients],
         mgr' \in {"run", "kill", "wait", "done", "crashed"},
         \A d \in Clients \ {c} : (KeptByOthers(d)' <=> KeptByOthers(d)) /\ (acc' = d => acc = d),
         Origin!(c)', Sockets!(c)', LoopKept!(c)'
  PROVE  OwnInv'
<1>1. TypeOK'
  <2>1. ASSUME NEW d \in Clients
        PROVE  /\ cl'[d].got <= cl'[d].wrote
               /\ cl'[d].loop \in Asking => cl'[d].got = Length
    BY DEF OwnInv, TypeOK, Touched, Asking
  <2> QED
    BY <2>1 DEF TypeOK, Touched, Asking
<1>2. ASSUME NEW d \in Clients, d # c PROVE Origin!(d)' /\ Sockets!(d)' /\ LoopKept!(d)'
  <2>1. cl'[d] = cl[d] /\ (KeptByOthers(d)' <=> KeptByOthers(d)) /\ (acc' = d => acc = d)
    BY <1>2 DEF Touched
  <2>2. Origin!(d) /\ Sockets!(d) /\ LoopKept!(d)
    BY DEF OwnInv, Origin, Sockets, LoopKept
  <2> QED
    BY <2>1, <2>2 DEF Running, Referenced
<1>3. Origin'
  BY <1>2 DEF Origin
<1>4. Sockets'
  BY <1>2 DEF Sockets
<1>5. LoopKept'
  BY <1>2 DEF LoopKept
<1> QED
  BY <1>1, <1>3, <1>4, <1>5 DEF OwnInv

\* The invariant, for one client.
LEMMA Known ==
  ASSUME OwnInv, NEW c \in Clients
  PROVE  /\ cl \in [Clients -> ClientState] /\ cl[c] \in ClientState
         /\ acc \in Clients \cup {Nobody, "ended"} /\ reapq \in Seq(Clients)
         /\ reaper \in [at : {"wait"}, cli : {Nobody}]
                         \cup [at : {"delete", "stop", "join"}, cli : Clients]
         /\ mgr \in {"run", "kill", "wait", "done", "crashed"}
         /\ cl[c].wrote \in 0 .. Length /\ cl[c].got \in 0 .. Length
         /\ cl[c].got <= cl[c].wrote
         /\ cl[c].loop \in Asking => cl[c].got = Length
         /\ Origin!(c) /\ Sockets!(c) /\ LoopKept!(c)
  BY DEF OwnInv, TypeOK, ClientState, Origin, Sockets, LoopKept, Asking

\* Whatever the peer does keeps OwnInv.
LEMMA PeerKeeps ==
  ASSUME OwnInv, NEW c \in Clients, Peer(c)
  PROVE  OwnInv'
<1> USE Known
<1>1. UNCHANGED <<acc, reapq, reaper, mgr>>
  BY DEF Peer, PeerConnects, PeerWrites, PeerLeaves
<1>2. \A d \in Clients \ {c} : Touched(c) => (KeptByOthers(d)' <=> KeptByOthers(d))
  BY <1>1 DEF Touched, KeptByOthers, Queued
<1>3. CASE PeerConnects(c)
  <2>1. /\ cl'[c] = [cl[c] EXCEPT !.peer = "in", !.sock = "backlog"]
        /\ cl' = [cl EXCEPT ![c] = cl'[c]]
    BY <1>3 DEF PeerConnects
  <2>2. cl'[c] \in ClientState
    BY <2>1 DEF ClientState
  <2>3. Touched(c)
    BY <2>1, <2>2, TouchedIs
  <2>4. /\ cl'[c].peer = "in" /\ cl'[c].sock = "backlog" /\ cl'[c].wrote = cl[c].wrote
        /\ cl'[c].got = cl[c].got /\ cl'[c].owners = cl[c].owners /\ cl'[c].obj = cl[c].obj
        /\ cl'[c].loop = cl[c].loop /\ cl'[c].inMux = cl[c].inMux
    BY <2>1 DEF ClientState
  <2>5. cl[c].peer = "out" /\ cl[c].obj = "none"
    BY <1>3 DEF PeerConnects
  <2>6. (KeptByOthers(c)' <=> KeptByOthers(c)) /\ (Running(c)' <=> Running(c))
    BY <1>1, <2>4 DEF KeptByOthers, Queued, Running
  <2>7. Origin!(c)' /\ Sockets!(c)' /\ LoopKept!(c)'
    BY <1>1, <2>4, <2>5, <2>6 DEF Running
  <2> QED
    BY <1>1, <1>2, <2>3, <2>4, <2>7, Frame
<1>4. CASE PeerWrites(c)
  <2>1. /\ cl'[c] = [cl[c] EXCEPT !.wrote = cl[c].wrote + 1]
        /\ cl' = [cl EXCEPT ![c] = cl'[c]]
    BY <1>4 DEF PeerWrites
  <2>0. cl[c].wrote + 1 \in 0 .. Length
    BY <1>4, ClientAssumption DEF PeerWrites
  <2>2. cl'[c] \in ClientState
    BY <2>0, <2>1 DEF ClientState
  <2>3. Touched(c)
    BY <2>1, <2>2, TouchedIs
  <2>4. /\ cl'[c].peer = cl[c].peer /\ cl'[c].sock = cl[c].sock /\ cl'[c].wrote = cl[c].wrote + 1
        /\ cl'[c].got = cl[c].got /\ cl'[c].owners = cl[c].owners /\ cl'[c].obj = cl[c].obj
        /\ cl'[c].loop = cl[c].loop /\ cl'[c].inMux = cl[c].inMux
    BY <2>1 DEF ClientState
  <2>5. cl[c].sock # "none" /\ cl'[c].got <= cl'[c].wrote
    BY <1>4, <2>4, ClientAssumption DEF PeerWrites
  <2>6. (KeptByOthers(c)' <=> KeptByOthers(c)) /\ (Running(c)' <=> Running(c))
    BY <1>1, <2>4 DEF KeptByOthers, Queued, Running
  <2>8. Referenced(c)' <=> Referenced(c)
    BY <2>4, <2>6 DEF Referenced
  <2>7. Origin!(c)' /\ Sockets!(c)' /\ LoopKept!(c)'
    BY <1>1, <2>4, <2>5, <2>6, <2>8
  <2> QED
    BY <1>1, <1>2, <2>3, <2>4, <2>5, <2>7, Frame
<1>5. CASE PeerLeaves(c)
  <2>1. /\ cl'[c] = [cl[c] EXCEPT !.peer = "left"]
        /\ cl' = [cl EXCEPT ![c] = cl'[c]]
    BY <1>5 DEF PeerLeaves
  <2>2. cl'[c] \in ClientState
    BY <2>1 DEF ClientState
  <2>3. Touched(c)
    BY <2>1, <2>2, TouchedIs
  <2>4. /\ cl'[c].peer = "left" /\ cl'[c].sock = cl[c].sock /\ cl'[c].wrote = cl[c].wrote
        /\ cl'[c].got = cl[c].got /\ cl'[c].owners = cl[c].owners /\ cl'[c].obj = cl[c].obj
        /\ cl'[c].loop = cl[c].loop /\ cl'[c].inMux = cl[c].inMux
    BY <2>1 DEF ClientState
  <2>6. (KeptByOthers(c)' <=> KeptByOthers(c)) /\ (Running(c)' <=> Running(c))
    BY <1>1, <2>4 DEF KeptByOthers, Queued, Running
  <2>8. Referenced(c)' <=> Referenced(c)
    BY <2>4, <2>6 DEF Referenced
  <2>7. Origin!(c)' /\ Sockets!(c)' /\ LoopKept!(c)'
    BY <1>1, <2>4, <2>6, <2>8
  <2> QED
    BY <1>1, <1>2, <2>3, <2>4, <2>7, Frame
<1> QED
  BY <1>3, <1>4, <1>5 DEF Peer

-----------------------------------------------------------------------------
(* Accepting, handing over, and the reaper. *)

\* A new client's descriptor is its own (ClientManager.cpp:117-162).
LEMMA AcceptKeeps ==
  ASSUME OwnInv, NEW c \in Clients, Accept(c)
  PROVE  OwnInv'
<1> USE Known
<1>1. /\ acc = Nobody /\ acc' = c /\ cl[c].sock = "backlog"
      /\ reapq' = reapq /\ reaper' = reaper /\ mgr' = mgr
  BY DEF Accept
<1>2. /\ cl'[c] = [cl[c] EXCEPT !.sock = "open", !.owners = {"client"}, !.obj = "alive"]
      /\ cl' = [cl EXCEPT ![c] = cl'[c]]
  BY DEF Accept
<1>3. cl'[c] \in ClientState
  <2>1. {"client"} \in SUBSET {"client", "tcp"}
    OBVIOUS
  <2> QED
    BY <1>2, <2>1 DEF ClientState
<1>4. Touched(c)
  BY <1>2, <1>3, TouchedIs
<1>5. /\ cl'[c].peer = cl[c].peer /\ cl'[c].sock = "open" /\ cl'[c].wrote = cl[c].wrote
      /\ cl'[c].got = cl[c].got /\ cl'[c].owners = {"client"} /\ cl'[c].obj = "alive"
      /\ cl'[c].loop = cl[c].loop /\ cl'[c].inMux = cl[c].inMux
  BY <1>2 DEF ClientState
<1>6. cl[c].obj = "none" /\ cl[c].loop = "none" /\ cl[c].peer # "out"
  BY <1>1
<1>7. Origin!(c)' /\ Sockets!(c)' /\ LoopKept!(c)'
  BY <1>1, <1>5, <1>6 DEF Running
<1>8. ASSUME NEW d \in Clients \ {c}
      PROVE  (KeptByOthers(d)' <=> KeptByOthers(d)) /\ (acc' = d => acc = d)
  BY <1>1, <1>4, NobodyAssumption DEF Touched, KeptByOthers, Queued
<1> QED
  BY <1>1, <1>4, <1>5, <1>6, <1>7, <1>8, Frame

\* The muxer gets a reference before the loop starts; without a thread the
\* client is posted (Muxer.cpp:81-93).
LEMMA AddClientKeeps ==
  ASSUME OwnInv, NEW c \in Clients, AddClient(c)
  PROVE  OwnInv'
<1> USE Known
<1>1. acc = c /\ acc' = Nobody /\ reaper' = reaper /\ mgr' = mgr
  BY DEF AddClient
<1>2. cl[c].loop = "none" /\ cl[c].obj = "alive" /\ cl[c].owners = {"client"} /\ cl[c].sock = "open"
  BY <1>1
<1>3. CASE /\ cl' = [cl EXCEPT ![c].inMux = TRUE, ![c].loop = "first"]
           /\ UNCHANGED reapq
  <2>1. /\ cl'[c] = [cl[c] EXCEPT !.inMux = TRUE, !.loop = "first"]
        /\ cl' = [cl EXCEPT ![c] = cl'[c]]
    BY <1>3
  <2>2. cl'[c] \in ClientState
    BY <2>1 DEF ClientState
  <2>3. Touched(c)
    BY <2>1, <2>2, TouchedIs
  <2>4. /\ cl'[c].peer = cl[c].peer /\ cl'[c].sock = cl[c].sock /\ cl'[c].wrote = cl[c].wrote
        /\ cl'[c].got = cl[c].got /\ cl'[c].owners = cl[c].owners /\ cl'[c].obj = cl[c].obj
        /\ cl'[c].loop = "first" /\ cl'[c].inMux = TRUE
    BY <2>1 DEF ClientState
  <2>5. KeptByOthers(c)'
    BY <2>4 DEF KeptByOthers
  <2>6. Origin!(c)' /\ Sockets!(c)' /\ LoopKept!(c)'
    BY <1>1, <1>2, <2>4, <2>5, NobodyAssumption
  <2>7. ASSUME NEW d \in Clients \ {c}
        PROVE  (KeptByOthers(d)' <=> KeptByOthers(d)) /\ (acc' = d => acc = d)
    BY <1>1, <1>3, <2>3, NobodyAssumption DEF Touched, KeptByOthers, Queued
  <2> QED
    BY <1>1, <1>3, <2>3, <2>4, <2>6, <2>7, Frame DEF Asking
<1>4. CASE reapq' = Append(reapq, c) /\ UNCHANGED cl
  <2>1. Touched(c) /\ cl'[c] = cl[c]
    BY <1>4 DEF Touched
  <2>2. reapq' \in Seq(Clients) /\ \A d : Queued(d)' <=> Queued(d) \/ d = c
    <3>1. reapq \in Seq(Clients)
      OBVIOUS
    <3>2. \A d : Queued(d) <=> InQueue(reapq, d)
      BY QueuedIs
    <3>3. \A d : Queued(d)' <=> InQueue(Append(reapq, c), d)
      BY <1>4 DEF Queued, InQueue
    <3> QED
      BY <1>4, <3>1, <3>2, <3>3, AppendInQueue
  <2>3. KeptByOthers(c)'
    BY <2>2 DEF KeptByOthers
  <2>4. Origin!(c)' /\ Sockets!(c)' /\ LoopKept!(c)'
    BY <1>1, <1>2, <2>1, <2>3, NobodyAssumption DEF Running
  <2>5. ASSUME NEW d \in Clients \ {c}
        PROVE  (KeptByOthers(d)' <=> KeptByOthers(d)) /\ (acc' = d => acc = d)
    BY <1>1, <2>1, <2>2, NobodyAssumption DEF Touched, KeptByOthers
  <2> QED
    BY <1>1, <2>1, <2>2, <2>4, <2>5, Frame
<1> QED
  BY <1>3, <1>4 DEF AddClient

\* The descriptor changes hands while the loop is between two reads
\* (TCP.cpp:411, Client.cpp:389).
LEMMA HandOverKeeps ==
  ASSUME OwnInv, NEW c \in Clients, HandOver(c)
  PROVE  OwnInv'
<1> USE Known
<1>1. UNCHANGED <<acc, reapq, reaper, mgr>> /\ Running(c)
  BY DEF HandOver, InLoop, Running
<1>2. /\ cl'[c] = [cl[c] EXCEPT !.owners = {"tcp"}, !.loop = "after"]
      /\ cl' = [cl EXCEPT ![c] = cl'[c]]
  BY DEF HandOver, TakesDescriptor
<1>3. cl'[c] \in ClientState
  <2>1. {"tcp"} \in SUBSET {"client", "tcp"}
    OBVIOUS
  <2> QED
    BY <1>2, <2>1 DEF ClientState
<1>4. Touched(c)
  BY <1>2, <1>3, TouchedIs
<1>5. /\ cl'[c].peer = cl[c].peer /\ cl'[c].sock = cl[c].sock /\ cl'[c].wrote = cl[c].wrote
      /\ cl'[c].got = cl[c].got /\ cl'[c].owners = {"tcp"} /\ cl'[c].obj = cl[c].obj
      /\ cl'[c].loop = "after" /\ cl'[c].inMux = cl[c].inMux
  BY <1>2 DEF ClientState
<1>6. /\ cl[c].obj = "alive" /\ cl[c].sock = "open" /\ acc # c /\ cl[c].peer # "out"
      /\ KeptByOthers(c)
  BY <1>1, RunningIs
<1>7. \A d \in Clients : KeptByOthers(d)' <=> KeptByOthers(d)
  BY <1>1, <1>4, <1>5 DEF Touched, KeptByOthers, Queued
<1>8. Origin!(c)' /\ Sockets!(c)' /\ LoopKept!(c)'
  BY <1>1, <1>5, <1>6, <1>7
<1> QED
  BY <1>1, <1>4, <1>5, <1>7, <1>8, Frame DEF Asking

\* A client that is deleted from the muxer by somebody while another keeps it.
LEMMA DeletedKeeps ==
  ASSUME OwnInv, NEW c \in Clients,
         NEW place \in {"none", "first", "second", "more", "request", "connect", "refused",
                        "granted", "handover", "after", "leave", "ended", "joined"},
         Deleted(c, place), cl[c].obj = "alive", acc' = acc, mgr' = mgr,
         reaper' \in [at : {"wait"}, cli : {Nobody}]
                      \cup [at : {"delete", "stop", "join"}, cli : Clients],
         reaper'.cli = reaper.cli,
         place # cl[c].loop => cl[c].loop = "after" /\ place = "leave"
  PROVE  OwnInv'
<1> USE Known
<1>1. /\ cl'[c] = [cl[c] EXCEPT !.inMux = FALSE, !.loop = place]
      /\ cl' = [cl EXCEPT ![c] = cl'[c]]
      /\ reapq' = IF cl[c].inMux THEN Append(reapq, c) ELSE reapq
  BY DEF Deleted
<1>2. cl'[c] \in ClientState
  BY <1>1 DEF ClientState
<1>3. Touched(c)
  BY <1>1, <1>2, TouchedIs
<1>4. /\ cl'[c].peer = cl[c].peer /\ cl'[c].sock = cl[c].sock /\ cl'[c].wrote = cl[c].wrote
      /\ cl'[c].got = cl[c].got /\ cl'[c].owners = cl[c].owners /\ cl'[c].obj = cl[c].obj
      /\ cl'[c].loop = place /\ cl'[c].inMux = FALSE
  BY <1>1 DEF ClientState
<1>5. reapq' \in Seq(Clients) /\ \A d : Queued(d)' <=> Queued(d) \/ (d = c /\ cl[c].inMux)
  <2>1. reapq \in Seq(Clients)
    OBVIOUS
  <2>2. \A d : Queued(d) <=> InQueue(reapq, d)
    BY QueuedIs
  <2>3. CASE cl[c].inMux
    <3>1. \A d : Queued(d)' <=> InQueue(Append(reapq, c), d)
      BY <1>1, <2>3 DEF Queued, InQueue
    <3> QED
      BY <1>1, <2>1, <2>2, <2>3, <3>1, AppendInQueue
  <2>4. CASE ~cl[c].inMux
    BY <1>1, <2>1, <2>4 DEF Queued
  <2> QED
    BY <2>3, <2>4
<1>6. \A d \in Clients : KeptByOthers(d)' <=> KeptByOthers(d)
  BY <1>3, <1>4, <1>5 DEF Touched, KeptByOthers
<1>7. Running(c)' <=> Running(c)
  BY <1>4 DEF Running
<1>8. Origin!(c)' /\ Sockets!(c)' /\ LoopKept!(c)'
  BY <1>4, <1>6, <1>7
<1> QED
  BY <1>3, <1>4, <1>5, <1>6, <1>8, Frame DEF Asking

\* A loop that ends deletes its client, which posts it (Client.cpp:64-66).
LEMMA AfterLoopKeeps ==
  ASSUME OwnInv, NEW c \in Clients, AfterLoop(c)
  PROVE  OwnInv'
<1>1. cl[c].loop = "after" /\ Running(c) /\ Deleted(c, "leave") /\ UNCHANGED <<acc, reaper, mgr>>
  BY DEF AfterLoop, InLoop, Running
<1>2. cl[c].obj = "alive"
  BY <1>1, RunningIs
<1> QED
  BY <1>1, <1>2, Known, DeletedKeeps

\* The reaper has a reference to what it works on.
LEMMA ReapingIs ==
  ASSUME OwnInv, NEW c \in Clients, reaper.cli = c
  PROVE  cl[c].obj = "alive" /\ KeptByOthers(c) /\ cl[c].sock = "open"
<1> USE Known
<1>1. KeptByOthers(c) /\ Referenced(c)
  BY DEF KeptByOthers, Referenced
<1>2. cl[c].obj \in {"none", "alive", "dying", "gone"}
  BY DEF ClientState
<1> QED
  BY <1>1, <1>2

\* The reaper's steps keep OwnInv: it holds its reference until the loop is
\* joined (Client.cpp:452-457).
LEMMA ReapKeeps ==
  ASSUME OwnInv, NEW c \in Clients, Reap(c)
  PROVE  OwnInv'
<1> USE Known
<1>1. CASE ReapDelete(c)
  <2>1. /\ reaper.cli = c /\ reaper' = [reaper EXCEPT !.at = "stop"]
        /\ reaper = [at |-> "delete", cli |-> c]
        /\ acc' = acc /\ mgr' = mgr /\ Deleted(c, cl[c].loop)
    BY <1>1 DEF ReapDelete
  <2>2. reaper' = [at |-> "stop", cli |-> c]
    BY <2>1
  <2>3. cl[c].loop \in {"none", "first", "second", "more", "request", "connect", "refused",
                        "granted", "handover", "after", "leave", "ended", "joined"}
    BY DEF ClientState
  <2> QED
    BY <2>1, <2>2, <2>3, ReapingIs, DeletedKeeps
<1>2. CASE ReapStop(c)
  <2>1. /\ reaper = [at |-> "stop", cli |-> c] /\ reaper' = [reaper EXCEPT !.at = "join"]
        /\ UNCHANGED <<acc, reapq, mgr>>
    BY <1>2 DEF ReapStop
  <2>2. reaper' = [at |-> "join", cli |-> c] /\ reaper.cli = c
    BY <2>1
  <2>3. /\ cl'[c] = [cl[c] EXCEPT !.shut = cl[c].shut \/ ShutsDown(c)]
        /\ cl' = [cl EXCEPT ![c] = cl'[c]]
    BY <1>2 DEF ReapStop
  <2>4. cl'[c] \in ClientState
    <3>1. (cl[c].shut \/ ShutsDown(c)) \in BOOLEAN
      OBVIOUS
    <3> HIDE DEF ShutsDown
    <3> QED
      BY <2>3, <3>1 DEF ClientState
  <2>5. Touched(c)
    BY <2>3, <2>4, TouchedIs
  <2>6. /\ cl'[c].peer = cl[c].peer /\ cl'[c].sock = cl[c].sock /\ cl'[c].wrote = cl[c].wrote
        /\ cl'[c].got = cl[c].got /\ cl'[c].owners = cl[c].owners /\ cl'[c].obj = cl[c].obj
        /\ cl'[c].loop = cl[c].loop /\ cl'[c].inMux = cl[c].inMux
    BY <2>3 DEF ClientState
  <2>7. \A d \in Clients : KeptByOthers(d)' <=> KeptByOthers(d)
    BY <2>1, <2>2, <2>5, <2>6 DEF Touched, KeptByOthers, Queued
  <2>8. (Running(c)' <=> Running(c)) /\ (Referenced(c)' <=> Referenced(c))
    BY <2>6, <2>7 DEF Running, Referenced
  <2>9. Origin!(c)' /\ Sockets!(c)' /\ LoopKept!(c)'
    BY <2>1, <2>6, <2>7, <2>8
  <2> QED
    BY <2>1, <2>2, <2>5, <2>6, <2>7, <2>9, Frame
<1>3. CASE ReapJoin(c)
  <2>1. /\ reaper = [at |-> "join", cli |-> c] /\ reaper' = [at |-> "wait", cli |-> Nobody]
        /\ UNCHANGED <<acc, reapq, mgr>> /\ ~Running(c)
    BY <1>3 DEF ReapJoin
  <2> DEFINE place == IF InLoop(c, "ended") THEN "joined" ELSE cl[c].loop
  <2>2. /\ cl'[c] = [cl[c] EXCEPT !.loop = place]
        /\ cl' = [cl EXCEPT ![c] = cl'[c]]
    BY <1>3 DEF ReapJoin, Loop
  <2>3. place \in {"none", "joined"} /\ (place = "none" <=> cl[c].loop = "none")
    BY <2>1 DEF Running, InLoop
  <2> HIDE DEF place
  <2>4. cl'[c] \in ClientState
    BY <2>2, <2>3 DEF ClientState
  <2>5. Touched(c)
    BY <2>2, <2>4, TouchedIs
  <2>6. /\ cl'[c].peer = cl[c].peer /\ cl'[c].sock = cl[c].sock /\ cl'[c].wrote = cl[c].wrote
        /\ cl'[c].got = cl[c].got /\ cl'[c].owners = cl[c].owners /\ cl'[c].obj = cl[c].obj
        /\ cl'[c].loop = place /\ cl'[c].inMux = cl[c].inMux
    BY <2>2 DEF ClientState
  <2>7. cl[c].obj = "alive" /\ cl[c].sock = "open"
    BY <2>1, ReapingIs
  <2>8. Origin!(c)' /\ Sockets!(c)' /\ LoopKept!(c)'
    <3>1. acc' = c => cl[c].loop = "none" /\ cl[c].owners = {"client"}
      BY <2>1
    <3>2. cl[c].owners = {"tcp"} => place = "joined"
      BY <2>3
    <3> QED
      BY <2>3, <2>6, <2>7, <3>1, <3>2 DEF Running
  <2>9. ASSUME NEW d \in Clients \ {c}
        PROVE  (KeptByOthers(d)' <=> KeptByOthers(d)) /\ (acc' = d => acc = d)
    BY <2>1, <2>5, NobodyAssumption DEF Touched, KeptByOthers, Queued
  <2> QED
    BY <2>1, <2>3, <2>5, <2>6, <2>8, <2>9, Frame DEF Asking
<1> QED
  BY <1>1, <1>2, <1>3 DEF Reap

-----------------------------------------------------------------------------
(* The destructors. *)

\* The queue's reference becomes the reaper's.
LEMMA TakeKeeps ==
  ASSUME OwnInv, Take
  PROVE  OwnInv'
<1>1. /\ reaper.at = "wait" /\ reapq # << >> /\ reaper' = [at |-> "delete", cli |-> Head(reapq)]
      /\ reapq' = Tail(reapq) /\ UNCHANGED <<cl, acc, mgr>>
  BY DEF Take
<1>2. reapq \in Seq(Clients) /\ reaper.cli = Nobody
  BY <1>1 DEF OwnInv, TypeOK
<1>3. /\ reapq' \in Seq(Clients) /\ Head(reapq) \in Clients
      /\ \A d : InQueue(reapq, d) <=> InQueue(reapq', d) \/ d = Head(reapq)
  BY <1>1, <1>2, TailInQueue
<1>4. \A d : Queued(d) <=> Queued(d)' \/ d = Head(reapq)
  BY <1>3 DEF Queued, InQueue
<1>5. \A d \in Clients : KeptByOthers(d)' <=> KeptByOthers(d)
  BY <1>1, <1>2, <1>4, NobodyAssumption DEF KeptByOthers
<1>6. TypeOK'
  <2>1. reaper' \in [at : {"delete", "stop", "join"}, cli : Clients]
    BY <1>1, <1>3
  <2> QED
    BY <1>1, <1>3, <2>1 DEF OwnInv, TypeOK
<1>7. Origin'
  BY <1>1, <1>5 DEF OwnInv, Origin
<1>8. Sockets'
  BY <1>1 DEF OwnInv, Sockets, Running
<1>9. LoopKept'
  BY <1>1, <1>5 DEF OwnInv, LoopKept, Running, Referenced
<1> QED
  BY <1>6, <1>7, <1>8, <1>9 DEF OwnInv

\* An object without references is destroyed, and its descriptor closed only if
\* it still has one (Client.cpp:45-57).
LEMMA DestroyKeeps ==
  ASSUME OwnInv, NEW c \in Clients, DestroyBegin(c) \/ DestroyEnd(c)
  PROVE  OwnInv'
<1> USE Known
<1>1. UNCHANGED <<acc, reapq, reaper>>
  BY DEF DestroyBegin, DestroyEnd
<1>2. ~Referenced(c) /\ cl[c].obj \in {"alive", "dying"}
  BY DEF DestroyBegin, DestroyEnd
<1>3. /\ ~KeptByOthers(c) /\ acc # c /\ ~Running(c) /\ cl[c].sock = "open" /\ cl[c].peer # "out"
      /\ cl[c].owners \in {{"client"}, {"tcp"}}
  BY <1>2 DEF Referenced, KeptByOthers
<1>4. CASE DestroyBegin(c)
  <2>1. /\ cl'[c] = [cl[c] EXCEPT !.obj = "dying"]
        /\ cl' = [cl EXCEPT ![c] = cl'[c]] /\ mgr' = mgr
    BY <1>4 DEF DestroyBegin
  <2>2. cl'[c] \in ClientState
    BY <2>1 DEF ClientState
  <2>3. Touched(c)
    BY <2>1, <2>2, TouchedIs
  <2>4. /\ cl'[c].peer = cl[c].peer /\ cl'[c].sock = cl[c].sock /\ cl'[c].wrote = cl[c].wrote
        /\ cl'[c].got = cl[c].got /\ cl'[c].owners = cl[c].owners /\ cl'[c].obj = "dying"
        /\ cl'[c].loop = cl[c].loop /\ cl'[c].inMux = cl[c].inMux
    BY <2>1 DEF ClientState
  <2>5. \A d \in Clients : KeptByOthers(d)' <=> KeptByOthers(d)
    BY <1>1, <2>3, <2>4 DEF Touched, KeptByOthers, Queued
  <2>6. (Running(c)' <=> Running(c)) /\ (Referenced(c)' <=> Referenced(c))
    BY <2>4, <2>5 DEF Running, Referenced
  <2>7. Origin!(c)' /\ Sockets!(c)' /\ LoopKept!(c)'
    BY <1>1, <1>2, <1>3, <2>4, <2>5, <2>6
  <2> QED
    BY <1>1, <2>1, <2>3, <2>4, <2>5, <2>7, Frame
<1>5. CASE DestroyEnd(c)
  <2> DEFINE sock == IF "client" \in cl[c].owners THEN "closed" ELSE cl[c].sock
  <2>1. /\ cl'[c] = [cl[c] EXCEPT !.obj = "gone", !.sock = sock]
        /\ cl' = [cl EXCEPT ![c] = cl'[c]]
        /\ mgr' \in {"run", "kill", "wait", "done", "crashed"}
    BY <1>5 DEF DestroyEnd
  <2>0. /\ sock \in {"open", "closed"}
        /\ sock = "closed" \/ cl[c].owners = {"tcp"}
    BY <1>3
  <2> HIDE DEF sock
  <2>2. cl'[c] \in ClientState
    BY <2>0, <2>1 DEF ClientState
  <2>3. Touched(c)
    BY <2>1, <2>2, TouchedIs
  <2>4. /\ cl'[c].peer = cl[c].peer /\ cl'[c].sock = sock /\ cl'[c].wrote = cl[c].wrote
        /\ cl'[c].got = cl[c].got /\ cl'[c].owners = cl[c].owners /\ cl'[c].obj = "gone"
        /\ cl'[c].loop = cl[c].loop /\ cl'[c].inMux = cl[c].inMux
    BY <2>1 DEF ClientState
  <2>5. \A d \in Clients : KeptByOthers(d)' <=> KeptByOthers(d)
    BY <1>1, <2>3, <2>4 DEF Touched, KeptByOthers, Queued
  <2>6. (Running(c)' <=> Running(c)) /\ (Referenced(c)' <=> Referenced(c))
    BY <2>4, <2>5 DEF Running, Referenced
  <2>7. Origin!(c)' /\ Sockets!(c)' /\ LoopKept!(c)'
    BY <1>1, <1>2, <1>3, <2>0, <2>4, <2>5, <2>6
  <2> QED
    BY <1>1, <2>1, <2>3, <2>4, <2>5, <2>7, Frame
<1> QED
  BY <1>4, <1>5

\* Who was not accepted is turned away (ClientManager.cpp:51-56).
LEMMA MgrStopKeeps ==
  ASSUME OwnInv, MgrStop
  PROVE  OwnInv'
<1> USE Known
<1>1. /\ acc = Nobody /\ acc' = "ended" /\ mgr' = "kill" /\ UNCHANGED <<reapq, reaper>>
      /\ cl' = [c \in Clients |-> IF cl[c].sock = "backlog"
                                    THEN [cl[c] EXCEPT !.sock = "closed"] ELSE cl[c]]
  BY DEF MgrStop
<1>2. ASSUME NEW c \in Clients
      PROVE  /\ cl'[c] \in ClientState
             /\ cl'[c].peer = cl[c].peer /\ cl'[c].wrote = cl[c].wrote
             /\ cl'[c].got = cl[c].got /\ cl'[c].owners = cl[c].owners /\ cl'[c].obj = cl[c].obj
             /\ cl'[c].loop = cl[c].loop /\ cl'[c].inMux = cl[c].inMux
             /\ cl'[c].sock = IF cl[c].sock = "backlog" THEN "closed" ELSE cl[c].sock
  <2>1. CASE cl[c].sock = "backlog"
    <3>1. cl'[c] = [cl[c] EXCEPT !.sock = "closed"]
      BY <1>1, <2>1
    <3>2. cl'[c] \in ClientState
      BY <3>1 DEF ClientState
    <3> QED
      BY <2>1, <3>1, <3>2 DEF ClientState
  <2>2. CASE cl[c].sock # "backlog"
    <3>1. cl'[c] = cl[c]
      BY <1>1, <2>2
    <3> QED
      BY <2>2, <3>1
  <2> QED
    BY <2>1, <2>2
<1>3. cl' \in [Clients -> ClientState]
  BY <1>1, <1>2
<1>4. \A c \in Clients : KeptByOthers(c)' <=> KeptByOthers(c)
  BY <1>1, <1>2, NobodyAssumption DEF KeptByOthers, Queued
<1>5. TypeOK'
  <2>1. ASSUME NEW c \in Clients
        PROVE  /\ cl'[c].got <= cl'[c].wrote
               /\ cl'[c].loop \in Asking => cl'[c].got = Length
    BY <1>2
  <2>2. /\ reapq' \in Seq(Clients)
        /\ reaper' \in [at : {"wait"}, cli : {Nobody}]
                        \cup [at : {"delete", "stop", "join"}, cli : Clients]
    BY <1>1 DEF OwnInv, TypeOK
  <2> QED
    BY <1>1, <1>3, <2>1, <2>2 DEF TypeOK, Asking
<1>6. ASSUME NEW c \in Clients PROVE Origin!(c)' /\ Sockets!(c)' /\ LoopKept!(c)'
  <2>1. (Running(c)' <=> Running(c)) /\ (Referenced(c)' <=> Referenced(c)) /\ acc' # c
    BY <1>1, <1>2, <1>4, NobodyAssumption DEF Running, Referenced
  <2>2. cl[c].sock = "backlog" => ~Running(c)
    BY DEF Running
  <2> QED
    BY <1>2, <1>4, <2>1, <2>2
<1>7. Origin'
  BY <1>6 DEF Origin
<1>8. Sockets'
  BY <1>6 DEF Sockets
<1>9. LoopKept'
  BY <1>6 DEF LoopKept
<1> QED
  BY <1>5, <1>7, <1>8, <1>9 DEF OwnInv

\* Every child is posted once more (ClientManager.cpp:58-69).
LEMMA MgrKillKeeps ==
  ASSUME OwnInv, MgrKill
  PROVE  OwnInv'
<1> USE Known
<1>1. UNCHANGED <<cl, acc, reaper>>
  BY DEF MgrKill
<1>2. CASE UNCHANGED reapq /\ mgr' = "crashed"
  <2>1. TypeOK'
    BY <1>1, <1>2 DEF OwnInv, TypeOK
  <2>2. Origin' /\ Sockets' /\ LoopKept'
    BY <1>1, <1>2 DEF OwnInv, Origin, Sockets, LoopKept, Running, Referenced, KeptByOthers, Queued
  <2> QED
    BY <2>1, <2>2 DEF OwnInv
<1>3. CASE ~(UNCHANGED reapq /\ mgr' = "crashed")
  <2>1. /\ \A c \in Children : Referenced(c)
        /\ mgr' = "wait"
        /\ \E s \in [1 .. Cardinality(Children) -> Children] :
             /\ \A c \in Children : \E i \in DOMAIN s : s[i] = c
             /\ reapq' = reapq \o s
    BY <1>3 DEF MgrKill
  <2>2. PICK s \in [1 .. Cardinality(Children) -> Children] :
             /\ \A c \in Children : \E i \in DOMAIN s : s[i] = c
             /\ reapq' = reapq \o s
    BY <2>1
  <2>3. Cardinality(Children) \in Nat
    <3>1. Children \subseteq Clients
      BY DEF Children
    <3> QED
      BY <3>1, ClientAssumption, FS_Subset, FS_CardinalityType
  <2>4. s \in Seq(Clients)
    <3>1. s \in [1 .. Cardinality(Children) -> Clients]
      BY <2>2 DEF Children
    <3> QED
      BY <2>3, <3>1, SeqDef
  <2>5. \A d : InQueue(s, d) <=> d \in Children
    BY <2>2 DEF InQueue
  <2>6. reapq' \in Seq(Clients) /\ \A d : InQueue(reapq', d) <=> InQueue(reapq, d) \/ d \in Children
    <3>1. reapq \in Seq(Clients)
      BY DEF OwnInv, TypeOK
    <3> QED
      BY <2>2, <2>4, <2>5, <3>1, ConcatInQueue
  <2>7. \A d : Queued(d)' <=> Queued(d) \/ d \in Children
    BY <2>6 DEF Queued, InQueue
  <2>8. ASSUME NEW d \in Clients
        PROVE  /\ KeptByOthers(d)' <=> KeptByOthers(d) \/ d \in Children
               /\ d \in Children => cl[d].obj = "alive"
    BY <1>1, <2>1, <2>7 DEF KeptByOthers, Children
  <2>9. TypeOK'
    BY <1>1, <2>1, <2>6 DEF OwnInv, TypeOK
  <2>10. Origin'
    BY <1>1, <2>8 DEF OwnInv, Origin
  <2>11. Sockets'
    BY <1>1 DEF OwnInv, Sockets, Running
  <2>12. LoopKept'
    BY <1>1, <2>8 DEF OwnInv, LoopKept, Running, Referenced, Children
  <2> QED
    BY <2>9, <2>10, <2>11, <2>12 DEF OwnInv
<1> QED
  BY <1>2, <1>3

\* Every step keeps OwnInv.
LEMMA OwnStep == OwnInv /\ [Next]_vars => OwnInv'
<1> SUFFICES ASSUME OwnInv, [Next]_vars PROVE OwnInv'
  OBVIOUS
<1>1. ASSUME NEW c \in Clients, Serving(c) \/ ConnectEnds(c) PROVE OwnInv'
  BY <1>1, ServingKeeps, HandOverKeeps, AfterLoopKeeps DEF Serving
<1>2. CASE MgrDone \/ UNCHANGED vars
  <2>1. TypeOK'
    BY <1>2 DEF MgrDone, vars, OwnInv, TypeOK
  <2>2. Origin' /\ Sockets' /\ LoopKept'
    BY <1>2 DEF MgrDone, vars, OwnInv, Origin, Sockets, LoopKept, Running, Referenced,
                KeptByOthers, Queued
  <2> QED
    BY <2>1, <2>2 DEF OwnInv
<1> QED
  BY <1>1, <1>2, PeerKeeps, AcceptKeeps, AddClientKeeps, ReapKeeps, DestroyKeeps, TakeKeeps,
     MgrStopKeeps, MgrKillKeeps DEF Next

\* OwnInv holds in every reachable state.
LEMMA OwnInvariant == Spec => []OwnInv
BY InitOwns, OwnStep, PTL DEF Spec

\* Whatever clients connect, write, leave, and are destroyed, every variable
\* keeps its type, and a request that is worked on was read completely
\* (Client.cpp:104-130).
THEOREM TypeCorrect == Spec => []TypeOK
<1>1. OwnInv => TypeOK
  BY DEF OwnInv
<1> QED
  BY <1>1, OwnInvariant, PTL

\* A descriptor has one owner at most, is not closed under a loop that uses it,
\* and a client whose loop runs has a reference that somebody else holds
\* (Client.cpp:45-66, TCP.cpp:411, Muxer.cpp:81-118).
THEOREM DescriptorsOwned == Spec => []Ownership
<1>1. OwnInv => Ownership
  <2> SUFFICES ASSUME OwnInv PROVE Ownership
    OBVIOUS
  <2>1. ASSUME NEW c \in Clients PROVE Cardinality(cl[c].owners) <= 1
    <3>1. cl[c].owners \in {{}, {"client"}, {"tcp"}}
      BY Known DEF ClientState
    <3>2. Cardinality({}) = 0 /\ Cardinality({"client"}) = 1 /\ Cardinality({"tcp"}) = 1
      BY FS_EmptySet, FS_Singleton
    <3> QED
      BY <3>1, <3>2
  <2>2. SocketOwned
    BY <2>1 DEF SocketOwned, OwnInv, Sockets
  <2> QED
    BY <2>2 DEF Ownership, OwnInv
<1> QED
  BY <1>1, OwnInvariant, PTL

-----------------------------------------------------------------------------
(* The clients keep what ClientLink promises. *)

phases == [c \in Clients |-> Phase(c)]

\* Nothing a phase depends on changes.
Quiet == \A c \in Clients : /\ cl'[c].sock = cl[c].sock
                            /\ cl'[c].owners = cl[c].owners
                            /\ cl'[c].wrote = cl[c].wrote

\* Such a step is a stutter of ClientLink.
LEMMA QuietStutters ==
  ASSUME Quiet
  PROVE  UNCHANGED phases
<1>1. \A c \in Clients : Phase(c)' = Phase(c)
  BY DEF Quiet, Phase
<1> QED
  BY <1>1 DEF phases

\* One client's phase changes.
LEMMA OneBecomes ==
  ASSUME NEW c \in Clients, \A d \in Clients \ {c} : cl'[d] = cl[d]
  PROVE  phases' = [phases EXCEPT ![c] = Phase(c)']
<1>1. \A d \in Clients \ {c} : Phase(d)' = Phase(d)
  BY DEF Phase
<1> QED
  BY <1>1 DEF phases

\* The steps that neither write nor answer, nor hand over or close a socket.
LEMMA QuietSteps ==
  ASSUME OwnInv, NEW c \in Clients,
         \/ PeerLeaves(c) \/ AddClient(c) \/ Read(c) \/ ReadFails(c) \/ ConnectBegins(c)
         \/ ConnectEnds(c) \/ Grant(c) \/ AfterLoop(c) \/ LoopEnds(c) \/ Reap(c)
         \/ DestroyBegin(c) \/ Loop(c, "after")
  PROVE  Quiet
<1>0. cl \in [Clients -> ClientState] /\ cl[c] \in ClientState
  BY Known
<1>1. ASSUME \A d \in Clients \ {c} : cl'[d] = cl[d],
             cl'[c].sock = cl[c].sock, cl'[c].owners = cl[c].owners, cl'[c].wrote = cl[c].wrote
      PROVE  Quiet
  BY <1>1 DEF Quiet
<1>2. ASSUME NEW place, cl' = [cl EXCEPT ![c].loop = place] PROVE Quiet
  <2>1. /\ cl'[c] = [cl[c] EXCEPT !.loop = place]
        /\ \A d \in Clients \ {c} : cl'[d] = cl[d]
    BY <1>0, <1>2
  <2>2. cl'[c].sock = cl[c].sock /\ cl'[c].owners = cl[c].owners /\ cl'[c].wrote = cl[c].wrote
    BY <1>0, <2>1 DEF ClientState
  <2> QED
    BY <1>1, <2>1, <2>2
<1>3. ASSUME NEW place, Deleted(c, place) PROVE Quiet
  <2>1. /\ cl'[c] = [cl[c] EXCEPT !.inMux = FALSE, !.loop = place]
        /\ \A d \in Clients \ {c} : cl'[d] = cl[d]
    BY <1>0, <1>3 DEF Deleted
  <2>2. cl'[c].sock = cl[c].sock /\ cl'[c].owners = cl[c].owners /\ cl'[c].wrote = cl[c].wrote
    BY <1>0, <2>1 DEF ClientState
  <2> QED
    BY <1>1, <2>1, <2>2
<1>4. CASE PeerLeaves(c)
  <2>1. /\ cl'[c] = [cl[c] EXCEPT !.peer = "left"]
        /\ \A d \in Clients \ {c} : cl'[d] = cl[d]
    BY <1>0, <1>4 DEF PeerLeaves
  <2>2. cl'[c].sock = cl[c].sock /\ cl'[c].owners = cl[c].owners /\ cl'[c].wrote = cl[c].wrote
    BY <1>0, <2>1 DEF ClientState
  <2> QED
    BY <1>1, <2>1, <2>2
<1>5. CASE AddClient(c)
  <2>1. CASE UNCHANGED cl
    BY <2>1 DEF Quiet
  <2>2. CASE cl' = [cl EXCEPT ![c].inMux = TRUE, ![c].loop = "first"]
    <3>1. /\ cl'[c] = [cl[c] EXCEPT !.inMux = TRUE, !.loop = "first"]
          /\ \A d \in Clients \ {c} : cl'[d] = cl[d]
      BY <1>0, <2>2
    <3>2. cl'[c].sock = cl[c].sock /\ cl'[c].owners = cl[c].owners /\ cl'[c].wrote = cl[c].wrote
      BY <1>0, <3>1 DEF ClientState
    <3> QED
      BY <1>1, <3>1, <3>2
  <2> QED
    BY <1>5, <2>1, <2>2 DEF AddClient
<1>6. CASE Read(c)
  <2>1. OnlyItsLoop(c) /\ cl'[c].wrote = cl[c].wrote
    BY <1>6, ReadIs DEF OwnInv
  <2> QED
    BY <1>1, <2>1 DEF OnlyItsLoop
<1>7. CASE ReadFails(c) \/ ConnectBegins(c) \/ ConnectEnds(c) \/ Grant(c) \/ LoopEnds(c)
            \/ Loop(c, "after")
  BY <1>2, <1>7 DEF ReadFails, ConnectBegins, ConnectEnds, Grant, NoAnswer, LoopEnds, Loop
<1>8. CASE AfterLoop(c)
  BY <1>3, <1>8 DEF AfterLoop
<1>9. CASE ReapDelete(c)
  BY <1>3, <1>9 DEF ReapDelete
<1>10. CASE ReapStop(c)
  <2>1. /\ cl'[c] = [cl[c] EXCEPT !.shut = cl[c].shut \/ ShutsDown(c)]
        /\ \A d \in Clients \ {c} : cl'[d] = cl[d]
    BY <1>0, <1>10 DEF ReapStop
  <2>2. cl'[c].sock = cl[c].sock /\ cl'[c].owners = cl[c].owners /\ cl'[c].wrote = cl[c].wrote
    BY <1>0, <2>1 DEF ClientState
  <2> QED
    BY <1>1, <2>1, <2>2
<1>11. CASE ReapJoin(c)
  BY <1>2, <1>11 DEF ReapJoin, Loop
<1>12. CASE DestroyBegin(c)
  <2>1. /\ cl'[c] = [cl[c] EXCEPT !.obj = "dying"]
        /\ \A d \in Clients \ {c} : cl'[d] = cl[d]
    BY <1>0, <1>12 DEF DestroyBegin
  <2>2. cl'[c].sock = cl[c].sock /\ cl'[c].owners = cl[c].owners /\ cl'[c].wrote = cl[c].wrote
    BY <1>0, <2>1 DEF ClientState
  <2> QED
    BY <1>1, <2>1, <2>2
<1> QED
  BY <1>4, <1>5, <1>6, <1>7, <1>8, <1>9, <1>10, <1>11, <1>12 DEF Reap

\* A request that is worked on was written: its socket is asked.
LEMMA AskingIs ==
  ASSUME OwnInv, NEW c \in Clients, cl[c].loop \in Asking
  PROVE  Running(c) /\ cl[c].sock = "open" /\ cl[c].owners = {"client"} /\ Phase(c) = "asked"
<1>1. Running(c)
  BY DEF Running, Asking
<1>2. cl[c].sock = "open" /\ cl[c].owners = {"client"}
  BY <1>1, RunningIs DEF Asking
<1>3. cl[c].wrote = Length
  BY Known, ClientAssumption
<1> QED
  BY <1>1, <1>2, <1>3 DEF Phase

\* Connecting and writing are Connect and, with the last unit, Ask.
LEMMA PeerLinks ==
  ASSUME OwnInv, NEW c \in Clients, PeerConnects(c) \/ PeerWrites(c)
  PROVE  [Link!Next]_phases
<1>0. cl \in [Clients -> ClientState] /\ cl[c] \in ClientState
  BY Known
<1> USE ClientAssumption
<1>1. CASE PeerConnects(c)
  <2>1. /\ cl'[c] = [cl[c] EXCEPT !.peer = "in", !.sock = "backlog"]
        /\ \A d \in Clients \ {c} : cl'[d] = cl[d]
    BY <1>0, <1>1 DEF PeerConnects
  <2>2. cl'[c].sock = "backlog" /\ cl'[c].owners = cl[c].owners /\ cl'[c].wrote = cl[c].wrote
    BY <1>0, <2>1 DEF ClientState
  <2>3. cl[c].sock = "none" /\ cl[c].owners = {} /\ cl[c].wrote = 0
    BY <1>1, Known DEF PeerConnects
  <2>4. Phase(c) = "none" /\ Phase(c)' = "served"
    BY <2>2, <2>3 DEF Phase
  <2>5. phases[c] = "none" /\ phases' = [phases EXCEPT ![c] = "served"]
    BY <2>1, <2>4, OneBecomes DEF phases
  <2> QED
    BY <2>5 DEF phases, Link!Next, Link!Connect, Link!Becomes
<1>2. CASE PeerWrites(c)
  <2>1. /\ cl'[c] = [cl[c] EXCEPT !.wrote = cl[c].wrote + 1]
        /\ \A d \in Clients \ {c} : cl'[d] = cl[d]
    BY <1>0, <1>2 DEF PeerWrites
  <2>2. cl'[c].sock = cl[c].sock /\ cl'[c].owners = cl[c].owners /\ cl'[c].wrote = cl[c].wrote + 1
    BY <1>0, <2>1 DEF ClientState
  <2>3. /\ cl[c].sock \in {"backlog", "open"} /\ "tcp" \notin cl[c].owners
        /\ cl[c].wrote < Length /\ cl[c].wrote \in 0 .. Length
    BY <1>2, Known DEF PeerWrites
  <2>4. Phase(c) = "served" /\ Phase(c)' \in {"served", "asked"}
    BY <2>2, <2>3 DEF Phase
  <2>5. phases[c] = "served" /\ phases' = [phases EXCEPT ![c] = Phase(c)']
    BY <2>1, <2>4, OneBecomes DEF phases
  <2>6. CASE Phase(c)' = "asked"
    BY <2>5, <2>6 DEF phases, Link!Next, Link!Ask, Link!Becomes
  <2>7. CASE Phase(c)' = "served"
    BY <2>5, <2>7 DEF phases
  <2> QED
    BY <2>4, <2>6, <2>7
<1> QED
  BY <1>1, <1>2

\* Accepting is no step of ClientLink.
LEMMA AcceptLinks ==
  ASSUME OwnInv, NEW c \in Clients, Accept(c)
  PROVE  UNCHANGED phases
<1>0. cl \in [Clients -> ClientState] /\ cl[c] \in ClientState
  BY Known
<1>1. /\ cl'[c] = [cl[c] EXCEPT !.sock = "open", !.owners = {"client"}, !.obj = "alive"]
      /\ \A d \in Clients \ {c} : cl'[d] = cl[d]
  BY <1>0 DEF Accept
<1>2. cl'[c].sock = "open" /\ cl'[c].owners = {"client"} /\ cl'[c].wrote = cl[c].wrote
  BY <1>0, <1>1 DEF ClientState
<1>3. cl[c].sock = "backlog" /\ cl[c].owners = {}
  BY Known DEF Accept
<1>4. Phase(c)' = Phase(c)
  BY <1>2, <1>3 DEF Phase
<1> QED
  BY <1>1, <1>4, OneBecomes DEF phases

\* An answer is one to a request that was written.
LEMMA AnsweredLinks ==
  ASSUME OwnInv, NEW c \in Clients, cl[c].loop \in Asking, Answered(c)
  PROVE  Link!Next
<1>1. OnlyItsLoop(c) /\ cl'[c].wrote = 0
  BY AnsweredIs, Known
<1>2. cl[c].sock = "open" /\ cl[c].owners = {"client"} /\ Phase(c) = "asked"
  BY AskingIs
<1>3. Phase(c)' = "served"
  BY <1>1, <1>2, ClientAssumption DEF Phase, OnlyItsLoop
<1>4. phases[c] = "asked" /\ phases' = [phases EXCEPT ![c] = "served"]
  BY <1>1, <1>2, <1>3, OneBecomes DEF phases, OnlyItsLoop
<1> QED
  BY <1>4 DEF phases, Link!Next, Link!Answer, Link!Becomes

\* The hand-over grants a request that was not answered.
LEMMA HandOverLinks ==
  ASSUME OwnInv, NEW c \in Clients, HandOver(c)
  PROVE  Link!Next
<1>0. cl \in [Clients -> ClientState] /\ cl[c] \in ClientState
  BY Known
<1>1. /\ cl'[c] = [cl[c] EXCEPT !.owners = {"tcp"}, !.loop = "after"]
      /\ \A d \in Clients \ {c} : cl'[d] = cl[d]
  BY <1>0 DEF HandOver, TakesDescriptor
<1>2. cl'[c].sock = cl[c].sock /\ cl'[c].owners = {"tcp"}
  BY <1>0, <1>1 DEF ClientState
<1>3. cl[c].sock = "open" /\ Phase(c) = "asked"
  BY AskingIs DEF HandOver, InLoop, Asking
<1>4. Phase(c)' = "tunnel"
  BY <1>2, <1>3 DEF Phase
<1>5. phases[c] = "asked" /\ phases' = [phases EXCEPT ![c] = "tunnel"]
  BY <1>1, <1>3, <1>4, OneBecomes DEF phases
<1> QED
  BY <1>5 DEF phases, Link!Next, Link!Grant, Link!Becomes

\* A socket is closed from a phase in which it was not closed yet, and one that
\* was handed over not at all.
LEMMA DestroyEndLinks ==
  ASSUME OwnInv, NEW c \in Clients, DestroyEnd(c)
  PROVE  [Link!Next]_phases
<1>0. /\ cl \in [Clients -> ClientState] /\ cl[c] \in ClientState
      /\ cl[c].sock = "open" /\ cl[c].owners \in {{"client"}, {"tcp"}}
  BY Known DEF DestroyEnd
<1> DEFINE sock == IF "client" \in cl[c].owners THEN "closed" ELSE cl[c].sock
<1>1. /\ cl'[c] = [cl[c] EXCEPT !.obj = "gone", !.sock = sock]
      /\ \A d \in Clients \ {c} : cl'[d] = cl[d]
  BY <1>0 DEF DestroyEnd
<1>2. cl'[c].sock = sock /\ cl'[c].owners = cl[c].owners /\ cl'[c].wrote = cl[c].wrote
  BY <1>0, <1>1 DEF ClientState
<1>3. phases' = [phases EXCEPT ![c] = Phase(c)']
  BY <1>1, OneBecomes
<1>4. CASE cl[c].owners = {"client"}
  <2>1. Phase(c) \in {"served", "asked"} /\ Phase(c)' = "closed"
    BY <1>0, <1>2, <1>4 DEF Phase
  <2>2. phases[c] \in {"served", "asked"} /\ phases' = [phases EXCEPT ![c] = "closed"]
    BY <1>3, <2>1 DEF phases
  <2>3. phases' = [d \in Clients |-> IF d \in {c} THEN "closed" ELSE phases[d]]
    BY <2>2 DEF phases
  <2>4. Link!Close({c})
    BY <2>2, <2>3 DEF phases, Link!Close
  <2> QED
    BY <2>4 DEF Link!Next
<1>5. CASE cl[c].owners = {"tcp"}
  <2>1. Phase(c) = "tunnel" /\ Phase(c)' = "tunnel"
    BY <1>0, <1>2, <1>5 DEF Phase
  <2> QED
    BY <1>3, <2>1 DEF phases
<1> QED
  BY <1>0, <1>4, <1>5

\* Closing the listening socket closes all that wait there.
LEMMA MgrStopLinks ==
  ASSUME OwnInv, MgrStop
  PROVE  Link!Next
<1> DEFINE S == {c \in Clients : cl[c].sock = "backlog"}
<1>1. cl' = [c \in Clients |-> IF cl[c].sock = "backlog"
                                 THEN [cl[c] EXCEPT !.sock = "closed"] ELSE cl[c]]
  BY DEF MgrStop
<1>2. ASSUME NEW c \in S PROVE Phase(c) \in {"served", "asked"} /\ Phase(c)' = "closed"
  <2>1. cl[c] \in ClientState /\ cl[c].sock = "backlog" /\ cl[c].owners = {}
    BY Known
  <2>2. cl'[c] = [cl[c] EXCEPT !.sock = "closed"]
    BY <1>1, <2>1
  <2>3. cl'[c].sock = "closed" /\ cl'[c].owners = {}
    BY <2>1, <2>2 DEF ClientState
  <2>4. Phase(c) \in {"served", "asked"}
    BY <2>1 DEF Phase
  <2>5. Phase(c)' = "closed"
    BY <2>3 DEF Phase
  <2> QED
    BY <2>4, <2>5
<1>3. ASSUME NEW c \in Clients \ S PROVE Phase(c)' = Phase(c)
  BY <1>1, <1>3 DEF Phase
<1>4. \A c \in S : phases[c] \in {"served", "asked"}
  BY <1>2 DEF phases
<1>5. phases' = [c \in Clients |-> IF c \in S THEN "closed" ELSE phases[c]]
  BY <1>2, <1>3 DEF phases
<1>6. Link!Close(S)
  BY <1>4, <1>5 DEF phases, Link!Close
<1>7. S \in SUBSET Clients
  OBVIOUS
<1> HIDE DEF S
<1> QED
  BY <1>6, <1>7 DEF Link!Next

\* One answer to each request, a connection instead of the answer, and the
\* socket closed once (Client.cpp:132-268 and 376-390, TCP.cpp:408-411).
THEOREM ImplementsClientLink == Spec => LinkSpec
<1>1. Init => Link!Init
  <2> SUFFICES ASSUME Init PROVE Link!Init
    OBVIOUS
  <2>1. \A c \in Clients : Phase(c) = "none"
    BY DEF Init, Phase
  <2> QED
    BY <2>1 DEF Link!Init
<1>2. OwnInv /\ [Next]_vars => [Link!Next]_phases
  <2> SUFFICES ASSUME OwnInv, [Next]_vars PROVE [Link!Next]_phases
    OBVIOUS
  <2>1. ASSUME NEW c \in Clients, Peer(c) PROVE [Link!Next]_phases
    BY <2>1, PeerLinks, QuietSteps, QuietStutters DEF Peer
  <2>2. ASSUME NEW c \in Clients, Serve(c) \/ Refuse(c) PROVE [Link!Next]_phases
    <3>1. cl[c].loop \in Asking /\ (Answered(c) \/ Loop(c, "after"))
      BY <2>2 DEF Serve, Refuse, NoAnswer, InLoop, Asking
    <3> QED
      BY <3>1, AnsweredLinks, QuietSteps, QuietStutters
  <2>3. ASSUME NEW c \in Clients, Serving(c) PROVE [Link!Next]_phases
    BY <2>2, <2>3, HandOverLinks, QuietSteps, QuietStutters DEF Serving
  <2>4. ASSUME NEW c \in Clients, DestroyBegin(c) \/ DestroyEnd(c) PROVE [Link!Next]_phases
    BY <2>4, DestroyEndLinks, QuietSteps, QuietStutters
  <2>5. CASE Take \/ MgrKill \/ MgrDone \/ UNCHANGED vars
    BY <2>5, QuietStutters DEF Take, MgrKill, MgrDone, vars, Quiet
  <2> QED
    BY <2>1, <2>3, <2>4, <2>5, AcceptLinks, MgrStopLinks, QuietSteps, QuietStutters DEF Next
<1> QED
  BY <1>1, <1>2, OwnInvariant, PTL DEF Spec, LinkSpec, Link!Spec, phases
=============================================================================
