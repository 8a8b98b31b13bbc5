-------------------------------- MODULE Client --------------------------------
(***************************************************************************)
(* The local clients and their manager: a socket is accepted, its client's *)
(* loop reads requests and answers them, one of them may hand the socket   *)
(* over to a TCP connection, and the object is reaped.                     *)
(*                                                                         *)
(* Threads: the manager's accept loop, one loop per client, the reaper,    *)
(* the manager's destructor. The peers are processes that send a request,  *)
(* wait for the answer, and may leave at any moment. A request is Length   *)
(* units long of which the first Header are its header; the socket is a    *)
(* stream of units, which a read takes in any portion.                     *)
(*                                                                         *)
(* What a request is about is in other modules: here it is answered, or    *)
(* asks for a connection (TCP).                                            *)
(***************************************************************************)
EXTENDS Integers, Sequences, FiniteSets

CONSTANTS
  Clients,          \* connections to the daemon's socket
  Header, Length    \* units of a header and of a request

ASSUME ClientAssumption ==
  /\ IsFiniteSet(Clients)
  /\ Header \in Nat \ {0} /\ Length \in Nat /\ Header <= Length

Nobody == "nobody"
ASSUME NobodyAssumption == Nobody \notin Clients /\ "ended" \notin Clients

VARIABLES
  cl,       \* the clients
  acc,      \* the accept loop: the client in its hands, Nobody, or "ended"
  reapq,    \* _reapClients
  reaper,   \* where the reaper is, and with whom
  mgr       \* where the manager's destructor is

vars == <<cl, acc, reapq, reaper, mgr>>

\* The peer; the socket, who has its descriptor (_fd, TCP's _pfd.fd), and if it
\* was shut down; the object; its loop; what the peer wrote of its request and
\* how much of that is read (_recvBytesCnt); if the muxer has it.
ClientState ==
  [peer : {"out", "in", "left"},
   sock : {"none", "backlog", "open", "closed"},
   owners : SUBSET {"client", "tcp"}, shut : BOOLEAN,
   obj : {"none", "alive", "dying", "gone"},
   loop : {"none", "first", "second", "more", "request", "connect", "refused",
           "granted", "handover", "after", "leave", "ended", "joined"},
   wrote : 0 .. Length, got : 0 .. Length,
   inMux : BOOLEAN]

Init ==
  /\ cl = [c \in Clients |->
            [peer |-> "out", sock |-> "none", owners |-> {}, shut |-> FALSE, obj |-> "none",
             loop |-> "none", wrote |-> 0, got |-> 0,
             inMux |-> FALSE]]
  /\ acc = Nobody
  /\ reapq = << >>
  /\ reaper = [at |-> "wait", cli |-> Nobody]
  /\ mgr = "run"

-----------------------------------------------------------------------------
InLoop(c, place) == cl[c].loop = place
Loop(c, place) == cl' = [cl EXCEPT ![c].loop = place]

Queued(c) == \E i \in DOMAIN reapq : reapq[i] = c

\* Who owns a shared_ptr to the client, apart from its own loop.
KeptByOthers(c) == cl[c].inMux \/ Queued(c) \/ reaper.cli = c \/ acc = c

\* ~Client runs, or is about to: no reference is left. (The loop has one while
\* it serves a request or is in afterLoop.)
Referenced(c) ==
  KeptByOthers(c) \/ cl[c].loop \in {"request", "connect", "refused", "granted",
                                     "handover", "after", "leave"}

\* Children of the manager.
Children == {c \in Clients : cl[c].obj \in {"alive", "dying"}}

\* Mutant: a client that is taken out is not killed.
DeletedOnly(c, loop) ==
  /\ cl' = [cl EXCEPT ![c].inMux = FALSE, ![c].loop = loop]
  /\ UNCHANGED reapq

\* Muxer::delete_client: whoever takes the client out of the muxer kills it.
Deleted(c, loop) ==
  /\ cl' = [cl EXCEPT ![c].inMux = FALSE, ![c].loop = loop]
  /\ reapq' = IF cl[c].inMux THEN Append(reapq, c) ELSE reapq

-----------------------------------------------------------------------------
(* The peers. *)

PeerConnects(c) ==
  /\ cl[c].peer = "out" /\ acc # "ended"
  /\ cl' = [cl EXCEPT ![c].peer = "in", ![c].sock = "backlog"]
  /\ UNCHANGED <<acc, reapq, reaper, mgr>>

PeerWrites(c) ==
  /\ cl[c].peer = "in" /\ cl[c].sock \in {"backlog", "open"} /\ "tcp" \notin cl[c].owners
  /\ cl[c].wrote < Length
  /\ cl' = [cl EXCEPT ![c].wrote = @ + 1]
  /\ UNCHANGED <<acc, reapq, reaper, mgr>>

PeerLeaves(c) ==
  /\ cl[c].peer = "in"
  /\ cl' = [cl EXCEPT ![c].peer = "left"]
  /\ UNCHANGED <<acc, reapq, reaper, mgr>>

-----------------------------------------------------------------------------
(* The accept loop. *)

\* accept_client, and handle_client up to the insertion into _children.
Accept(c) ==
  /\ acc = Nobody /\ cl[c].sock = "backlog"
  /\ cl' = [cl EXCEPT ![c].sock = "open", ![c].owners = {"client"},
                      ![c].obj = "alive"]
  /\ acc' = c
  /\ UNCHANGED <<reapq, reaper, mgr>>

\* Muxer::add_client. Without a thread the client is taken out again.
AddClient(c) ==
  /\ acc = c
  /\ acc' = Nobody
  /\ \/ /\ cl' = [cl EXCEPT ![c].inMux = TRUE, ![c].loop = "first"]
        /\ UNCHANGED reapq
     \/ reapq' = Append(reapq, c) /\ UNCHANGED cl
  /\ UNCHANGED <<reaper, mgr>>

-----------------------------------------------------------------------------
(* Client::loopEvent *)

Unread(c) == cl[c].wrote - cl[c].got

\* Mutant: the header alone is taken for the request.
AfterReadHeader(place, n) ==
  IF n >= Header THEN "request" ELSE IF place = "first" THEN "second" ELSE "after"

\* Mutant: one unit more than the request is waited for.
AfterReadOneMore(place, n) ==
  IF n >= Header THEN "more" ELSE IF place = "first" THEN "second" ELSE "after"

\* recv_data with n units in the buffer, after the first, the second, or another
\* read: the header has to come with two reads.
AfterRead(place, n) ==
  CASE n < Header -> IF place = "first" THEN "second" ELSE "after"
    [] n >= Header /\ n < Length -> "more"
    [] OTHER -> "request"

\* readData: some of what is there.
Read(c) ==
  /\ cl[c].loop \in {"first", "second", "more"}
  /\ \E n \in 1 .. Unread(c) :
       cl' = [cl EXCEPT ![c].got = @ + n,
                        ![c].loop = AfterRead(cl[c].loop, cl[c].got + n)]
  /\ UNCHANGED <<acc, reapq, reaper, mgr>>

\* Mutant: an empty read is not the end.
ShutDown(c) == cl[c].shut
Disconnected(c) == cl[c].shut \/ (cl[c].peer = "left" /\ Unread(c) = 0)

\* readData: the peer is gone and all is read, or stopAction shut the socket down.
ReadFails(c) ==
  /\ cl[c].loop \in {"first", "second", "more"}
  /\ Disconnected(c)
  /\ Loop(c, "after")
  /\ UNCHANGED <<acc, reapq, reaper, mgr>>

\* send() to a peer that is there; else it throws.
Reaches(c) == cl[c].peer = "in" /\ ~cl[c].shut

\* The answer is sent, and the next iteration forgets what it has read.
Answered(c) ==
  /\ Reaches(c)
  /\ cl' = [cl EXCEPT ![c].wrote = 0, ![c].got = 0, ![c].loop = "first"]

NoAnswer(c) == ~Reaches(c) /\ Loop(c, "after")

\* processData, all requests that are answered: send_result or send_plist_pkt. A
\* malformed one may throw instead, which ends the client.
Serve(c) ==
  /\ InLoop(c, "request")
  /\ Answered(c) \/ Loop(c, "after")
  /\ UNCHANGED <<acc, reapq, reaper, mgr>>

\* PLIST_CLIENT_CONNECTION_LOC: start_connect waits for the device.
ConnectBegins(c) ==
  /\ InLoop(c, "request")
  /\ Loop(c, "connect")
  /\ UNCHANGED <<acc, reapq, reaper, mgr>>

ConnectEnds(c) ==
  /\ InLoop(c, "connect")
  /\ Loop(c, "granted") \/ Loop(c, "refused")
  /\ UNCHANGED <<acc, reapq, reaper, mgr>>

\* RESULT_CONNREFUSED
Refuse(c) ==
  /\ InLoop(c, "refused")
  /\ Answered(c) \/ NoAnswer(c)
  /\ UNCHANGED <<acc, reapq, reaper, mgr>>

\* The end of TCP::connect: RESULT_OK, whose failure makes it throw; then the
\* answer that the connection was refused cannot be sent either.
Grant(c) ==
  /\ InLoop(c, "granted")
  /\ (Reaches(c) /\ Loop(c, "handover")) \/ NoAnswer(c)
  /\ UNCHANGED <<acc, reapq, reaper, mgr>>

\* Mutant: the client keeps the descriptor as well.
SharesDescriptor == {"client", "tcp"}
TakesDescriptor == {"tcp"}

\* The descriptor goes to the connection; the loop ends ("graceful kill").
HandOver(c) ==
  /\ InLoop(c, "handover")
  /\ cl' = [cl EXCEPT ![c].owners = TakesDescriptor, ![c].loop = "after"]
  /\ UNCHANGED <<acc, reapq, reaper, mgr>>

\* afterLoop: delete_client,
AfterLoop(c) ==
  /\ InLoop(c, "after")
  /\ Deleted(c, "leave")
  /\ UNCHANGED <<acc, reaper, mgr>>

\* whose argument is released on the way back, and the end of the thread.
LoopEnds(c) ==
  /\ InLoop(c, "leave")
  /\ Loop(c, "ended")
  /\ UNCHANGED <<acc, reapq, reaper, mgr>>

-----------------------------------------------------------------------------
(* The reaper and the destructor. *)

Take ==
  /\ reaper.at = "wait" /\ reapq # << >>
  /\ reaper' = [at |-> "delete", cli |-> Head(reapq)]
  /\ reapq' = Tail(reapq)
  /\ UNCHANGED <<cl, acc, mgr>>

\* deconstruct: delete_client, which may post it once more,
ReapDelete(c) ==
  /\ reaper = [at |-> "delete", cli |-> c]
  /\ Deleted(c, cl[c].loop)
  /\ reaper' = [reaper EXCEPT !.at = "stop"]
  /\ UNCHANGED <<acc, mgr>>

Running(c) == cl[c].loop \notin {"none", "ended", "joined"}

\* Mutant: nothing wakes the loop.
StopQuietly(c) == FALSE
ShutsDown(c) == Running(c) /\ "client" \in cl[c].owners

\* stopLoop: stopAction,
ReapStop(c) ==
  /\ reaper = [at |-> "stop", cli |-> c]
  /\ cl' = [cl EXCEPT ![c].shut = @ \/ ShutsDown(c)]
  /\ reaper' = [reaper EXCEPT !.at = "join"]
  /\ UNCHANGED <<acc, reapq, mgr>>

\* and the join; the reaper's reference goes.
ReapJoin(c) ==
  /\ reaper = [at |-> "join", cli |-> c]
  /\ ~Running(c)
  /\ Loop(c, IF InLoop(c, "ended") THEN "joined" ELSE cl[c].loop)
  /\ reaper' = [at |-> "wait", cli |-> Nobody]
  /\ UNCHANGED <<acc, reapq, mgr>>

\* ~Client, on the thread that had the last reference.
DestroyBegin(c) ==
  /\ cl[c].obj = "alive" /\ ~Referenced(c)
  /\ cl' = [cl EXCEPT ![c].obj = "dying"]
  /\ UNCHANGED <<acc, reapq, reaper, mgr>>

\* The client leaves _children; the descriptor is closed if it still has one.
DestroyEnd(c) ==
  /\ cl[c].obj = "dying"
  /\ cl' = [cl EXCEPT ![c].obj = "gone",
                      ![c].sock = IF "client" \in cl[c].owners THEN "closed" ELSE @]
  /\ mgr' = IF mgr = "wait" THEN "kill" ELSE mgr
  /\ UNCHANGED <<acc, reapq, reaper>>

-----------------------------------------------------------------------------
(* ~ClientManager *)

\* stopLoop: the accept loop ends between two clients, the listening socket is
\* closed and with it who has not been accepted.
MgrStop ==
  /\ mgr = "run" /\ acc = Nobody
  /\ acc' = "ended"
  /\ cl' = [c \in Clients |-> IF cl[c].sock = "backlog"
                                THEN [cl[c] EXCEPT !.sock = "closed"] ELSE cl[c]]
  /\ mgr' = "kill"
  /\ UNCHANGED <<reapq, reaper>>

\* Kill every child and wait for one to go. A child whose last reference is gone
\* posts a null reference, with which the reaper crashes.
MgrKill ==
  /\ mgr = "kill" /\ Children # {}
  /\ IF \E c \in Children : ~Referenced(c)
       THEN mgr' = "crashed" /\ UNCHANGED reapq
       ELSE /\ mgr' = "wait"
            /\ \E s \in [1 .. Cardinality(Children) -> Children] :
                 /\ \A c \in Children : \E i \in DOMAIN s : s[i] = c
                 /\ reapq' = reapq \o s
  /\ UNCHANGED <<cl, acc, reaper>>

MgrDone ==
  /\ mgr = "kill" /\ Children = {}
  /\ mgr' = "done"
  /\ UNCHANGED <<cl, acc, reapq, reaper>>
-----------------------------------------------------------------------------
Peer(c) == PeerConnects(c) \/ PeerWrites(c) \/ PeerLeaves(c)

Serving(c) ==
  \/ Read(c) \/ ReadFails(c) \/ Serve(c) \/ ConnectBegins(c) \/ Refuse(c) \/ Grant(c)
  \/ HandOver(c) \/ AfterLoop(c) \/ LoopEnds(c)

Reap(c) == ReapDelete(c) \/ ReapStop(c) \/ ReapJoin(c)

Next ==
  \/ \E c \in Clients :
       \/ Peer(c) \/ Accept(c) \/ AddClient(c) \/ Serving(c) \/ ConnectEnds(c)
       \/ Reap(c) \/ DestroyBegin(c) \/ DestroyEnd(c)
  \/ Take \/ MgrStop \/ MgrKill \/ MgrDone

Spec == Init /\ [][Next]_vars

\* Threads go on. Peers need not, nor a device that is asked for a connection,
\* and nobody has to shut down.
Fairness ==
  /\ WF_vars(\E c \in Clients : Accept(c) \/ AddClient(c))
  /\ \A c \in Clients : WF_vars(Serving(c)) /\ WF_vars(DestroyBegin(c) \/ DestroyEnd(c))
  /\ WF_vars(Take \/ \E c \in Clients : Reap(c))
  /\ WF_vars(MgrKill \/ MgrDone)

FairSpec == Spec /\ Fairness

-----------------------------------------------------------------------------
\* The types; a peer that waits for an answer has written all of its request.
TypeOK ==
  /\ cl \in [Clients -> ClientState]
  /\ acc \in Clients \cup {Nobody, "ended"}
  /\ reapq \in Seq(Clients)
  /\ reaper \in [at : {"wait"}, cli : {Nobody}] \cup [at : {"delete", "stop", "join"}, cli : Clients]
  /\ mgr \in {"run", "kill", "wait", "done", "crashed"}
  /\ \A c \in Clients :
       /\ cl[c].got <= cl[c].wrote
       /\ cl[c].loop \in {"request", "connect", "refused", "granted", "handover"}
            => cl[c].got = Length

\* A descriptor has one owner from accept() on: it is closed with the object, unless
\* the connection got it, and never while the loop may still use it.
SocketOwned ==
  \A c \in Clients :
    /\ Cardinality(cl[c].owners) <= 1
    /\ cl[c].obj \in {"alive", "dying"} => cl[c].sock = "open"
    /\ cl[c].obj = "gone" => cl[c].sock = "closed" \/ cl[c].owners = {"tcp"}
    /\ cl[c].owners = {"tcp"} => cl[c].loop \in {"after", "leave", "ended", "joined"}
    /\ cl[c].sock = "closed" => ~Running(c)

\* While its loop runs somebody else has a reference to the client, and once it is
\* being destroyed nobody: else ~Client would run on the loop and join it.
LoopKept ==
  \A c \in Clients :
    /\ Running(c) => KeptByOthers(c)
    /\ cl[c].obj \in {"dying", "gone"} => ~Referenced(c)

\* Both at once: what a client's thread has is its own as long as it uses it.
Ownership == SocketOwned /\ LoopKept

\* What ClientLink calls the phase of a socket.
Phase(c) ==
  CASE cl[c].sock \in {"none", "closed"} -> cl[c].sock
    [] "tcp" \in cl[c].owners -> "tunnel"
    [] OTHER -> IF cl[c].wrote = Length THEN "asked" ELSE "served"

Link == INSTANCE ClientLink WITH phase <- [c \in Clients |-> Phase(c)]

\* The clients keep what ClientLink promises.
LinkSpec == Link!Spec

\* Devices answer every connection attempt sooner or later.
DevicesAnswer == \A c \in Clients : []<>(cl[c].loop # "connect")

\* A request that was written is answered, granted, or the client is dropped.
RequestAnswered ==
  DevicesAnswer =>
    \A c \in Clients :
      cl[c].wrote = Length ~>
        (cl[c].wrote # Length \/ Phase(c) \in {"tunnel", "closed"} \/ mgr = "crashed")

Buried(c) == Phase(c) \in {"tunnel", "closed"} /\ cl[c].obj \in {"none", "gone"}

\* A client whose peer left is destroyed, also if it was never added.
LeaverDies ==
  DevicesAnswer =>
    \A c \in Clients : (cl[c].peer = "left") ~> (Buried(c) \/ mgr = "crashed")

\* The manager's destructor comes back, unless a child takes a null reference down
\* with it (see MgrKill).
ShutdownEnds == DevicesAnswer => (mgr = "kill" ~> mgr \in {"done", "crashed"})
=============================================================================
