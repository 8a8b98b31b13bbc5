----------------------------- MODULE MuxerProofs -----------------------------
(***************************************************************************)
(* Proofs about Muxer, for any number of devices, clients and calls:       *)
(* types, that ids are fresh, and that clients know the devices that are   *)
(* there. Nothing in the code keeps some of the calls apart; what it would *)
(* have to keep apart is a premise of a theorem (ChoicesApart, Orderly),   *)
(* and the bounds of the run that checks the property imply it.            *)
(***************************************************************************)
EXTENDS Muxer, FiniteSetTheorems, WellFoundedInduction, TLAPS

-----------------------------------------------------------------------------
(* Premises. *)

\* Devices that have looked for their number and are not in the list yet.
Choosing == {d \in Devices : call[d]["add"] \in {"pick", "insert"}}

\* At most one device is between the lookup and the insertion, the sections
\* of add_device that no common lock covers (Muxer.cpp:124-154).
ChoicesApart == \A d, e \in Choosing : d = e

\* A phone has one connection of each type at a time.
OneEach ==
  \A d, e \in registered \cup Choosing :
    Serial[d] = Serial[e] /\ Conn[d] = Conn[e] => d = e

\* From the first of a device's removals to the end of the last.
Leaving(d) ==
  \E first, last \in Removals[d] :
    call[d][first] # "new" /\ call[d][last] # "done"

\* A device is added by one call at a time, while no other leaves, and leaves
\* when its add_device has returned (Muxer.cpp:120-190).
Orderly ==
  /\ \A d, e \in Devices :
       InProgress(d, "add") => (InProgress(e, "add") => d = e) /\ ~Leaving(e)
  /\ \A d \in Devices, op \in RemovalCalls :
       call[d][op] # "new" => call[d]["add"] = "done"

-----------------------------------------------------------------------------
(* The inductive invariants. *)

\* Numbers are given out in order, one for each device at most.
Picked == {d \in Devices : call[d]["add"] \notin {"new", "pick"}}

NumberInv ==
  /\ \A d \in Devices : Number(id[d]) \in Nat /\ Number(id[d]) <= newid
  /\ newid <= 1 + Cardinality(Picked)

TypeInv == TypeOK /\ NumberInv

\* A device that has its id is in the list or about to be. The id has a number,
\* not 0, which id_for_device returns for none, and the type of the connection.
HasId(d) == d \in registered \/ call[d]["add"] = "insert"

IdInv ==
  /\ \A d \in registered : call[d]["add"] \notin {"new", "pick", "insert"}
  /\ \A d \in Devices : HasId(d) =>
       Number(id[d]) > 0 /\ id[d] = 2 * Number(id[d]) + IsWifi(d)

\* The numbers are the phones. A device gets a new one when its phone has none.
PhoneInv ==
  /\ \A d, e \in Devices : HasId(d) /\ HasId(e) =>
       ((Number(id[d]) = Number(id[e])) <=> (Serial[d] = Serial[e]))
  /\ \A d \in Devices, e \in registered :
       call[d]["add"] = "pick" => Serial[d] # Serial[e]

\* Who is registered, as far as the calls tell. While a device leaves nobody
\* else has its id.
CallInv ==
  /\ \A d \in Devices, op \in RemovalCalls :
       /\ op \notin Removals[d] => call[d][op] = "new"
       /\ call[d][op] # "new" => d \notin registered
  /\ \A d \in Devices :
       /\ call[d]["add"] \notin {"new", "pick", "insert"} =>
            d \in registered \/ \E op \in RemovalCalls : call[d][op] # "new"
       /\ Leaving(d) => \A e \in registered : id[e] # id[d]

ClientInv ==
  \A c \in Clients :
    /\ view[c] # {} \/ lpc[c] # "idle" => cstate[c] = "listening"
    /\ lpc[c] = "sending" => listing[c] \subseteq registered

\* The message of the call about d is still to come to c.
Due(c, d, op) ==
  call[d][op] = "notify" \/ (call[d][op] = "sending" /\ c \in todo[d][op])

\* The device is still to come in the answer to c's Listen request.
InAnswer(c, d) == lpc[c] = "list" \/ (lpc[c] = "sending" /\ d \in listing[c])

\* What a listening client does not know of will be told.
KnownInv ==
  \A c \in Clients : cstate[c] = "listening" =>
    \A d \in registered \ Pairing :
      id[d] \in view[c] \/ Due(c, d, "add") \/ InAnswer(c, d)

\* What it knows is there, or it will be told that it left.
GoneInv ==
  \A c \in Clients : \A i \in view[c] :
    \/ \E d \in registered : id[d] = i
    \/ \E d \in Devices, op \in RemovalCalls : id[d] = i /\ Due(c, d, op)

ViewInv == CallInv /\ ClientInv /\ KnownInv /\ GoneInv

-----------------------------------------------------------------------------
(* Induction over data, without operators as parameters: a set of numbers  *)
(* has a least element.                                                    *)

LEMMA LeastNat ==
  ASSUME NEW T \in SUBSET Nat, T # {}
  PROVE  \E x \in T : \A y \in T : x <= y
<1>1. IsWellFoundedOn(OpToRel(<, Nat), Nat)
  BY NatLessThanWellFounded
<1>2. PICK x \in T : \A y \in T : ~ (<<y, x>> \in OpToRel(<, Nat))
  BY <1>1, WFMin
<1>3. \A y \in T : y < x => <<y, x>> \in OpToRel(<, Nat)
  BY DEF OpToRel
<1>4. \A y \in T : ~(y < x)
  <2> HIDE DEF OpToRel
  <2> QED
    BY <1>2, <1>3, Zenon
<1> QED
  BY <1>4

-----------------------------------------------------------------------------
(* Values. *)

\* What MuxerAssumption says of the list.
LEMMA OrderTypes ==
  /\ Order \in Seq(Devices) /\ Len(Order) \in Nat
  /\ \A d \in Devices : \E i \in 1 .. Len(Order) : Order[i] = d
  /\ \A i \in 1 .. Len(Order) : Order[i] \in Devices
  /\ IsFiniteSet(Devices) /\ Cardinality(Devices) \in Nat
  /\ MaxId \in Nat /\ Cardinality(Devices) < MaxId
<1>1. Order \in Seq(Devices) /\ Range(Order) = Devices /\ MaxId \in Nat
      /\ Cardinality(Devices) < MaxId
  BY MuxerAssumption
<1>2. /\ Len(Order) \in Nat /\ DOMAIN Order = 1 .. Len(Order)
      /\ Order \in [1 .. Len(Order) -> Devices]
  BY <1>1
<1>3. \A d \in Devices : \E i \in 1 .. Len(Order) : Order[i] = d
  BY <1>1, <1>2 DEF Range
<1>4. Order \in Surjection(1 .. Len(Order), Devices)
  BY <1>2, <1>3 DEF Surjection
<1>5. IsFiniteSet(Devices)
  BY <1>2, <1>4, FS_Interval, FS_Surjection
<1> QED
  BY <1>1, <1>2, <1>3, <1>5, FS_CardinalityType

\* The id is the number and the bit of the connection type (Muxer.cpp:144-147).
LEMMA IdParts ==
  ASSUME NEW n \in Nat, NEW d \in Devices
  PROVE  /\ IsWifi(d) \in {0, 1}
         /\ 2 * n + IsWifi(d) \in Nat
         /\ Number(2 * n + IsWifi(d)) = n
BY DEF IsWifi, Number

\* What one pass over the list computes, as long as no device has a greater
\* number than the candidate: whether some device has it (Muxer.cpp:134-143).
LEMMA ScanResult ==
  ASSUME NEW s \in Nat,
         \A d \in registered : Number(id[d]) \in Nat /\ Number(id[d]) <= s,
         registered \subseteq Devices
  PROVE  ScanFrom(s) = IF \E d \in registered : Number(id[d]) = s THEN s + 1 ELSE s
<1> DEFINE L == Len(Order)
           Has(i, n) == Order[i] \in registered /\ Number(id[Order[i]]) = n
           Steps(f) == [i \in 0 .. L |->
                         IF i = 0 THEN s
                         ELSE IF Order[i] \in registered /\ Number(id[Order[i]]) = f[i - 1]
                           THEN f[i - 1] + 1
                           ELSE f[i - 1]]
           g == [i \in 0 .. L |-> IF \E j \in 1 .. i : Has(j, s) THEN s + 1 ELSE s]
<1>0. L \in Nat
  BY OrderTypes
<1>1. \A i \in 0 .. L : i # 0 =>
        g[i] = IF Has(i, g[i - 1]) THEN g[i - 1] + 1 ELSE g[i - 1]
  <2> SUFFICES ASSUME NEW i \in 0 .. L, i # 0
               PROVE  g[i] = IF Has(i, g[i - 1]) THEN g[i - 1] + 1 ELSE g[i - 1]
    OBVIOUS
  <2>1. i - 1 \in 0 .. L /\ 1 .. i = (1 .. i - 1) \cup {i}
    BY <1>0
  <2>2. ~Has(i, s + 1)
    OBVIOUS
  <2>3. CASE \E j \in 1 .. i - 1 : Has(j, s)
    BY <2>1, <2>2, <2>3
  <2>4. CASE ~ \E j \in 1 .. i - 1 : Has(j, s)
    BY <2>1, <2>4
  <2> QED
    BY <2>3, <2>4
<1>2. g = Steps(g)
  <2>1. g[0] = s
    BY <1>0
  <2> QED
    BY <1>0, <1>1, <2>1
<1>3. ASSUME NEW f, f = Steps(f) PROVE f = g
  <2> DEFINE T == {i \in 0 .. L : f[i] # g[i]}
  <2>1. f[0] = s /\ g[0] = s
    BY <1>0, <1>3
  <2>2. \A i \in 0 .. L : i # 0 => f[i] = IF Has(i, f[i - 1]) THEN f[i - 1] + 1 ELSE f[i - 1]
    BY <1>3
  <2>3. CASE T # {}
    <3>1. T \in SUBSET Nat
      BY <1>0
    <3>2. PICK i \in T : \A j \in T : i <= j
      BY <2>3, <3>1, LeastNat
    <3>3. i \in 0 .. L /\ i # 0
      BY <2>1, <3>2
    <3>4. i - 1 \in 0 .. L /\ ~(i <= i - 1)
      BY <1>0, <3>3
    <3>5. f[i - 1] = g[i - 1]
      <4> HIDE DEF g
      <4> QED
        BY <3>2, <3>4
    <3>6. f[i] = g[i]
      <4> HIDE DEF g
      <4> QED
        BY <1>1, <2>2, <3>3, <3>5
    <3> QED
      BY <3>2, <3>6
  <2>4. CASE T = {}
    BY <1>3, <2>4
  <2> QED
    BY <2>3, <2>4
<1>4. ScanFrom(s) = (CHOOSE f : f = Steps(f))[L]
  BY DEF ScanFrom
<1>5. (CHOOSE f : f = Steps(f)) = g
  <2> HIDE DEF g, Steps
  <2> QED
    BY <1>2, <1>3
<1>6. (\E j \in 1 .. L : Has(j, s)) <=> \E d \in registered : Number(id[d]) = s
  BY OrderTypes
<1>7. g[L] = IF \E j \in 1 .. L : Has(j, s) THEN s + 1 ELSE s
  BY <1>0
<1>8. ScanFrom(s) = g[L]
  <2> HIDE DEF g, Steps
  <2> QED
    BY <1>4, <1>5
<1> QED
  <2> HIDE DEF g
  <2> QED
    BY <1>6, <1>7, <1>8

-----------------------------------------------------------------------------
(* Types. *)

\* The number a device gets (Muxer.cpp:132-144): the range is never left, so that
\* the second pass, from 1, is not needed.
LEMMA FreshNumber ==
  ASSUME TypeInv, NEW d \in Devices, call[d]["add"] = "pick"
  PROVE  /\ newid \in Nat /\ NextNewId \in {newid, newid + 1}
         /\ NextNewId <= MaxId
         /\ \A e \in registered : Number(id[e]) # NextNewId
<1>1. /\ newid \in 1 .. MaxId /\ registered \subseteq Devices
      /\ \A e \in registered : Number(id[e]) \in Nat /\ Number(id[e]) <= newid
  BY DEF TypeInv, TypeOK, NumberInv
<1>2. ScanFrom(newid) = IF \E e \in registered : Number(id[e]) = newid THEN newid + 1
                        ELSE newid
  BY <1>1, ScanResult
<1>3. newid + 1 <= MaxId
  <2>1. Picked \subseteq Devices /\ d \notin Picked
    BY DEF Picked
  <2>2. /\ IsFiniteSet(Devices \ {d})
        /\ Cardinality(Devices \ {d}) = Cardinality(Devices) - 1
    BY OrderTypes, FS_RemoveElement
  <2>3. Cardinality(Picked) <= Cardinality(Devices) - 1 /\ Cardinality(Picked) \in Nat
    BY <2>1, <2>2, FS_Subset, FS_CardinalityType
  <2> QED
    BY <1>1, <2>3, OrderTypes DEF TypeInv, NumberInv
<1>4. newid \in Nat /\ MaxId \in Nat
  BY <1>1, OrderTypes
<1>5. ScanFrom(newid) \in {newid, newid + 1} /\ ~(ScanFrom(newid) > MaxId)
  BY <1>1, <1>2, <1>3, <1>4
<1>6. NextNewId = ScanFrom(newid)
  BY <1>5 DEF NextNewId
<1>7. NextNewId <= MaxId
  BY <1>4, <1>5, <1>6
<1>8. ASSUME NEW e \in registered, Number(id[e]) = NextNewId PROVE FALSE
  <2>1. Number(id[e]) \in Nat /\ Number(id[e]) <= newid
    BY <1>1
  <2>2. Number(id[e]) = newid /\ NextNewId = newid
    BY <1>4, <1>5, <1>6, <1>8, <2>1
  <2>3. NextNewId = newid + 1
    BY <1>2, <1>6, <2>2
  <2> QED
    BY <1>4, <2>2, <2>3
<1> QED
  BY <1>4, <1>5, <1>6, <1>7, <1>8

\* Devices that have their number stay among those.
LEMMA PickedStay ==
  ASSUME TypeInv, NEW d \in Devices, NEW op \in Calls,
         NEW pc \in {"new", "pick", "insert", "notify", "sending", "done"},
         Goto(d, op, pc),
         op = "add" /\ d \in Picked => pc \notin {"new", "pick"}
  PROVE  /\ call' \in [Devices -> [Calls ->
                        {"new", "pick", "insert", "notify", "sending", "done"}]]
         /\ Picked' = IF op = "add" /\ pc \notin {"new", "pick"} THEN Picked \cup {d}
                      ELSE Picked
         /\ IsFiniteSet(Picked) /\ Cardinality(Picked) \in Nat
         /\ Cardinality(Picked') \in Nat /\ Cardinality(Picked) <= Cardinality(Picked')
         /\ d \notin Picked /\ d \in Picked' =>
              Cardinality(Picked') = Cardinality(Picked) + 1
<1>1. call \in [Devices -> [Calls ->
                  {"new", "pick", "insert", "notify", "sending", "done"}]]
  BY DEF TypeInv, TypeOK
<1>2. call' = [call EXCEPT ![d] = [call[d] EXCEPT ![op] = pc]]
  BY DEF Goto
<1>3. \A e \in Devices : call'[e] = IF e = d THEN [call[d] EXCEPT ![op] = pc] ELSE call[e]
  BY <1>1, <1>2
<1>4. call' \in [Devices -> [Calls ->
                  {"new", "pick", "insert", "notify", "sending", "done"}]]
  BY <1>1, <1>2
<1>5. \A e \in Devices : call'[e]["add"] = IF e = d /\ op = "add" THEN pc ELSE call[e]["add"]
  BY <1>1, <1>3 DEF Calls
<1>6. Picked' = IF op = "add" /\ pc \notin {"new", "pick"} THEN Picked \cup {d} ELSE Picked
  BY <1>5 DEF Picked
<1>7. IsFiniteSet(Picked) /\ Cardinality(Picked) \in Nat
  BY OrderTypes, FS_Subset, FS_CardinalityType DEF Picked
<1>8. IsFiniteSet(Picked \cup {d})
      /\ Cardinality(Picked \cup {d}) =
           IF d \in Picked THEN Cardinality(Picked) ELSE Cardinality(Picked) + 1
  BY <1>7, FS_AddElement
<1>9. /\ Cardinality(Picked') \in Nat /\ Cardinality(Picked) <= Cardinality(Picked')
      /\ d \notin Picked /\ d \in Picked' =>
           Cardinality(Picked') = Cardinality(Picked) + 1
  <2>1. CASE Picked' = Picked
    BY <1>7, <2>1
  <2>2. CASE Picked' = Picked \cup {d}
    BY <1>7, <1>8, <2>2
  <2> QED
    BY <1>6, <2>1, <2>2
<1> QED
  BY <1>4, <1>6, <1>7, <1>9

\* Steps that give out no id.
LEMMA OthersKeepTypes ==
  ASSUME TypeInv, [Next]_vars,
         \A d \in Devices : ~AddLookup(d) /\ ~AddPick(d)
  PROVE  TypeInv'
<1> USE DEF TypeInv
<1>1. ASSUME NEW d \in Devices, NEW op \in Calls,
             NEW pc \in {"insert", "notify", "sending", "done"},
             Goto(d, op, pc), UNCHANGED <<id, newid>>
      PROVE  /\ NumberInv'
             /\ call' \in [Devices -> [Calls ->
                  {"new", "pick", "insert", "notify", "sending", "done"}]]
  <2>1. Cardinality(Picked) <= Cardinality(Picked') /\ Cardinality(Picked') \in Nat
        /\ Cardinality(Picked) \in Nat
        /\ call' \in [Devices -> [Calls ->
                  {"new", "pick", "insert", "notify", "sending", "done"}]]
    BY <1>1, PickedStay
  <2>2. newid \in Nat /\ newid <= 1 + Cardinality(Picked)
    BY OrderTypes DEF NumberInv, TypeOK
  <2>3. newid' <= 1 + Cardinality(Picked')
    BY <1>1, <2>1, <2>2
  <2>4. \A e \in Devices : Number(id[e])' \in Nat /\ Number(id[e])' <= newid'
    BY <1>1 DEF NumberInv, Number
  <2> QED
    BY <2>1, <2>3, <2>4 DEF NumberInv
<1>2. ASSUME UNCHANGED <<id, newid, call>> PROVE NumberInv'
  BY <1>2 DEF NumberInv, Number, Picked
<1>3. ASSUME NEW d \in Devices, AddInsert(d) PROVE TypeInv'
  BY <1>1, <1>3 DEF AddInsert, TypeOK, Calls
<1>4. ASSUME NEW d \in Devices, DeleteDevice(d) PROVE TypeInv'
  BY <1>1, <1>4 DEF DeleteDevice, TypeOK, Calls, RemovalCalls
<1>5. ASSUME NEW d \in Devices, NEW op \in {"left", "service"}, DeleteMatching(d, op)
      PROVE TypeInv'
  BY <1>1, <1>5 DEF DeleteMatching, TypeOK, Calls, RemovalCalls
<1>6. ASSUME NEW d \in Devices, NEW op \in Calls, BeginNotify(d, op) PROVE TypeInv'
  <2>1. todo' \in [Devices -> [Calls -> SUBSET Clients]]
    BY <1>6 DEF BeginNotify, TypeOK, InClients
  <2> QED
    BY <1>1, <1>6, <2>1 DEF BeginNotify, TypeOK
<1>7. ASSUME NEW d \in Devices, NEW op \in Calls, NEW c \in Clients, NotifyClient(d, op, c)
      PROVE TypeInv'
  <2>1. todo' \in [Devices -> [Calls -> SUBSET Clients]]
    BY <1>7 DEF NotifyClient, TypeOK
  <2>2. view' \in [Clients -> SUBSET Ids]
    BY <1>7 DEF NotifyClient, TypeOK
  <2> QED
    BY <1>2, <1>7, <2>1, <2>2 DEF NotifyClient, TypeOK
<1>8. ASSUME NEW d \in Devices, NEW op \in Calls, EndNotify(d, op) PROVE TypeInv'
  BY <1>1, <1>8 DEF EndNotify, TypeOK
<1>9. ASSUME NEW c \in Clients, AddClient(c) \/ DeleteClient(c) \/ Listen(c) PROVE TypeInv'
  BY <1>2, <1>9 DEF AddClient, DeleteClient, Listen, TypeOK
<1>10. ASSUME NEW c \in Clients, BeginList(c) \/ EndList(c) PROVE TypeInv'
  BY <1>2, <1>10 DEF BeginList, EndList, TypeOK
<1>11. ASSUME NEW c \in Clients, NEW d \in Devices, ListDevice(c, d) PROVE TypeInv'
  <2>1. view' \in [Clients -> SUBSET Ids] /\ listing' \in [Clients -> SUBSET Devices]
    BY <1>11 DEF ListDevice, TypeOK
  <2> QED
    BY <1>2, <1>11, <2>1 DEF ListDevice, TypeOK
<1>12. CASE UNCHANGED vars
  BY <1>2, <1>12 DEF vars, TypeOK
<1> QED
  BY <1>3, <1>4, <1>5, <1>6, <1>7, <1>8, <1>9, <1>10, <1>11, <1>12
  DEF Next, Continue, ContinueListen

\* The two sections that give out an id (Muxer.cpp:126 and 132-147).
LEMMA GivesId ==
  ASSUME TypeInv, NEW d \in Devices, AddLookup(d) \/ AddPick(d)
  PROVE  /\ TypeInv'
         /\ \A e \in Devices : call'[e]["add"] = IF e = d THEN call'[d]["add"] ELSE call[e]["add"]
         /\ \A e \in Devices : e # d => id'[e] = id[e]
         /\ \A e \in Devices, op \in RemovalCalls : call'[e][op] = call[e][op]
<1>0. /\ newid \in Nat /\ newid > 0 /\ newid <= MaxId /\ MaxId \in Nat
      /\ id \in [Devices -> Ids] /\ registered \subseteq Devices
      /\ call \in [Devices -> [Calls ->
                     {"new", "pick", "insert", "notify", "sending", "done"}]]
  BY OrderTypes DEF TypeInv, TypeOK
<1>1. \A pc : Goto(d, "add", pc) =>
        /\ \A e \in Devices : call'[e]["add"] = IF e = d THEN call'[d]["add"] ELSE call[e]["add"]
        /\ \A e \in Devices, op \in RemovalCalls : call'[e][op] = call[e][op]
  BY <1>0 DEF Goto, Calls, RemovalCalls
<1>2. ASSUME NEW n \in Nat, n <= MaxId, id' = [id EXCEPT ![d] = 2 * n + IsWifi(d)]
      PROVE  /\ id' \in [Devices -> Ids] /\ Number(id'[d]) = n
             /\ \A e \in Devices : e # d => id'[e] = id[e]
  <2>1. 2 * n + IsWifi(d) \in Ids
    BY <1>0, <1>2 DEF Ids, IsWifi
  <2>2. id' \in [Devices -> Ids] /\ id'[d] = 2 * n + IsWifi(d)
    BY <1>0, <1>2, <2>1
  <2> QED
    BY <1>0, <1>2, <2>2, IdParts
<1>3. CASE AddLookup(d)
  <2>1. CASE Goto(d, "add", "pick") /\ UNCHANGED id
    <3>1. d \notin Picked
      BY <1>3 DEF AddLookup, Picked
    <3>2. /\ Picked' = Picked /\ call' \in [Devices -> [Calls ->
                     {"new", "pick", "insert", "notify", "sending", "done"}]]
      BY <2>1, <3>1, PickedStay DEF Calls
    <3>3. NumberInv'
      BY <1>3, <2>1, <3>2 DEF AddLookup, TypeInv, NumberInv, Number
    <3> QED
      BY <1>1, <1>3, <2>1, <3>2, <3>3 DEF AddLookup, TypeInv, TypeOK
  <2>2. ASSUME NEW e \in Siblings(d), id' = [id EXCEPT ![d] = 2 * Number(id[e]) + IsWifi(d)],
               Goto(d, "add", "insert")
        PROVE  /\ TypeInv'
               /\ \A f \in Devices : f # d => id'[f] = id[f]
    <3>1. d \notin Picked /\ e \in Devices
      BY <1>0, <1>3 DEF AddLookup, Picked, Siblings
    <3>2. /\ Cardinality(Picked) \in Nat /\ Cardinality(Picked) <= Cardinality(Picked')
          /\ Cardinality(Picked') \in Nat
          /\ call' \in [Devices -> [Calls ->
                     {"new", "pick", "insert", "notify", "sending", "done"}]]
      BY <2>2, <3>1, PickedStay DEF Calls
    <3>3. Number(id[e]) \in Nat /\ Number(id[e]) <= newid /\ Number(id[e]) <= MaxId
      BY <1>0, <3>1 DEF TypeInv, NumberInv
    <3>4. /\ id' \in [Devices -> Ids] /\ Number(id'[d]) = Number(id[e])
          /\ \A f \in Devices : f # d => id'[f] = id[f]
      BY <1>2, <2>2, <3>3
    <3>5. newid' = newid
      BY <1>3 DEF AddLookup
    <3>6. newid' <= 1 + Cardinality(Picked')
      BY <1>0, <3>2, <3>5 DEF TypeInv, NumberInv
    <3>7. \A f \in Devices : Number(id'[f]) \in Nat /\ Number(id'[f]) <= newid'
      <4> SUFFICES ASSUME NEW f \in Devices
                   PROVE  Number(id'[f]) \in Nat /\ Number(id'[f]) <= newid'
        OBVIOUS
      <4>1. CASE f = d
        BY <3>3, <3>4, <3>5, <4>1
      <4>2. CASE f # d
        <5>1. id'[f] = id[f]
          BY <3>4, <4>2
        <5> QED
          BY <3>5, <5>1 DEF TypeInv, NumberInv
      <4> QED
        BY <4>1, <4>2
    <3>8. NumberInv'
      BY <3>6, <3>7 DEF NumberInv, Number
    <3> QED
      BY <1>3, <3>2, <3>4, <3>8 DEF AddLookup, TypeInv, TypeOK
  <2> QED
    BY <1>1, <1>3, <2>1, <2>2 DEF AddLookup
<1>4. CASE AddPick(d)
  <2> DEFINE n == NextNewId
  <2>1. n \in Nat /\ n \in {newid, newid + 1} /\ n <= MaxId
    BY <1>0, <1>4, FreshNumber DEF AddPick
  <2>2. d \notin Picked /\ Goto(d, "add", "insert") /\ newid' = n
    BY <1>4 DEF AddPick, Picked
  <2>3. /\ Cardinality(Picked) \in Nat /\ Cardinality(Picked') = Cardinality(Picked) + 1
        /\ call' \in [Devices -> [Calls ->
                     {"new", "pick", "insert", "notify", "sending", "done"}]]
    BY <2>2, PickedStay DEF Calls
  <2>4. /\ id' \in [Devices -> Ids] /\ Number(id'[d]) = n
        /\ \A e \in Devices : e # d => id'[e] = id[e]
    <3> HIDE DEF n
    <3>1. id' = [id EXCEPT ![d] = 2 * n + IsWifi(d)]
      BY <1>4 DEF AddPick, n
    <3> QED
      BY <1>2, <2>1, <3>1
  <2>5. newid' \in 1 .. MaxId /\ newid <= newid'
    BY <1>0, <2>1, <2>2
  <2>6. newid' <= 1 + Cardinality(Picked')
    BY <1>0, <2>1, <2>2, <2>3 DEF TypeInv, NumberInv
  <2>7. \A e \in Devices : Number(id'[e]) \in Nat /\ Number(id'[e]) <= newid'
    <3> SUFFICES ASSUME NEW e \in Devices
                 PROVE  Number(id'[e]) \in Nat /\ Number(id'[e]) <= newid'
      OBVIOUS
    <3>1. CASE e = d
      BY <2>1, <2>2, <2>4, <3>1
    <3>2. CASE e # d
      <4>1. id'[e] = id[e]
        BY <2>4, <3>2
      <4>2. Number(id[e]) \in Nat /\ Number(id[e]) <= newid
        BY DEF TypeInv, NumberInv
      <4> QED
        BY <1>0, <2>5, <4>1, <4>2
    <3> QED
      BY <3>1, <3>2
  <2>8. NumberInv'
    BY <2>6, <2>7 DEF NumberInv, Number
  <2> QED
    BY <1>1, <1>4, <2>2, <2>3, <2>4, <2>5, <2>8 DEF AddPick, TypeInv, TypeOK
<1> QED
  BY <1>3, <1>4

LEMMA TypeStep == TypeInv /\ [Next]_vars => TypeInv'
<1> SUFFICES ASSUME TypeInv, [Next]_vars PROVE TypeInv'
  OBVIOUS
<1>1. CASE \E d \in Devices : AddLookup(d) \/ AddPick(d)
  BY <1>1, GivesId
<1>2. CASE \A d \in Devices : ~AddLookup(d) /\ ~AddPick(d)
  BY <1>2, OthersKeepTypes
<1> QED
  BY <1>1, <1>2

LEMMA InitTypes == Init => TypeInv
<1> SUFFICES ASSUME Init PROVE TypeInv
  OBVIOUS
<1>1. Picked = {}
  BY DEF Init, Picked, Calls
<1>2. Cardinality(Picked) = 0
  BY <1>1, FS_EmptySet
<1>3. \A d \in Devices : id[d] = 0 /\ Number(id[d]) = 0
  BY DEF Init, Number
<1>4. NumberInv
  BY <1>2, <1>3 DEF Init, NumberInv
<1>5. newid \in 1 .. MaxId
  <2>1. Cardinality(Devices) >= 0
    BY OrderTypes
  <2> QED
    BY <2>1, OrderTypes DEF Init
<1>6. TypeOK
  BY <1>5, OrderTypes DEF Init, TypeOK, Ids
<1> QED
  BY <1>4, <1>6 DEF TypeInv

\* Types, in particular that the counter of add_device stays in its range
\* (Muxer.cpp:137), whatever calls overlap, as long as there are fewer devices than
\* numbers.
THEOREM TypeCorrect == Spec => []TypeOK
<1>1. TypeInv => TypeOK
  BY DEF TypeInv
<1> QED
  BY <1>1, InitTypes, TypeStep, PTL DEF Spec

-----------------------------------------------------------------------------
(* Ids. *)

\* What a step of a call leaves of the other calls.
LEMMA GotoResult ==
  ASSUME TypeInv, NEW d \in Devices, NEW op \in Calls, NEW pc, Goto(d, op, pc)
  PROVE  \A e \in Devices, o \in Calls :
           call'[e][o] = IF e = d /\ o = op THEN pc ELSE call[e][o]
<1>1. call \in [Devices -> [Calls ->
                  {"new", "pick", "insert", "notify", "sending", "done"}]]
  BY DEF TypeInv, TypeOK
<1>2. call' = [call EXCEPT ![d] = [call[d] EXCEPT ![op] = pc]]
  BY DEF Goto
<1> QED
  BY <1>1, <1>2

\* Every step is one of these: an id is given out; a device is inserted, or removed;
\* a call goes on after the registry; or only clients and messages are concerned.
LEMMA StepKinds ==
  ASSUME TypeInv, [Next]_vars
  PROVE  \/ \E d \in Devices : AddLookup(d) \/ AddPick(d)
         \/ \E d \in Devices : AddInsert(d)
         \/ \E d \in Devices, op \in RemovalCalls :
              /\ op \in Removals[d] /\ call[d][op] = "new"
              /\ DeleteDevice(d) \/ DeleteMatching(d, op)
              /\ registered' = registered \ {d} /\ UNCHANGED <<id, todo, cstate, lpc, listing, view>>
              /\ \/ Goto(d, op, "notify")
                 \/ d \notin registered /\ Goto(d, op, "done")
         \/ \E d \in Devices, op \in Calls :
              BeginNotify(d, op) \/ EndNotify(d, op)
              \/ \E c \in Clients : NotifyClient(d, op, c)
         \/ \E c \in Clients :
              AddClient(c) \/ DeleteClient(c) \/ Listen(c) \/ BeginList(c) \/ EndList(c)
              \/ \E d \in Devices : ListDevice(c, d)
         \/ UNCHANGED vars
<1>1. ASSUME NEW d \in Devices, DeleteDevice(d)
      PROVE  \E op \in RemovalCalls :
              /\ op \in Removals[d] /\ call[d][op] = "new"
              /\ DeleteDevice(d) \/ DeleteMatching(d, op)
              /\ registered' = registered \ {d} /\ UNCHANGED <<id, todo, cstate, lpc, listing, view>>
              /\ Goto(d, op, "notify")
  <2>1. "delete" \in RemovalCalls
    BY DEF RemovalCalls
  <2> QED
    BY <1>1, <2>1 DEF DeleteDevice
<1>2. ASSUME NEW d \in Devices, NEW op \in {"left", "service"}, DeleteMatching(d, op)
      PROVE   /\ op \in RemovalCalls
              /\ op \in Removals[d] /\ call[d][op] = "new"
              /\ registered' = registered \ {d} /\ UNCHANGED <<id, todo, cstate, lpc, listing, view>>
              /\ \/ Goto(d, op, "notify")
                 \/ d \notin registered /\ Goto(d, op, "done")
  BY <1>2 DEF DeleteMatching, RemovalCalls
<1>3. CASE \E d \in Devices : DeleteDevice(d)
  BY <1>1, <1>3
<1>4. CASE \E d \in Devices, op \in {"left", "service"} : DeleteMatching(d, op)
  BY <1>2, <1>4
<1>5. CASE ~(\E d \in Devices : DeleteDevice(d))
           /\ ~(\E d \in Devices, op \in {"left", "service"} : DeleteMatching(d, op))
  BY <1>5 DEF Next, Continue, ContinueListen
<1> QED
  BY <1>3, <1>4, <1>5

\* Steps that leave the ids alone: the registry changes by one device or not at all.
LEMMA RegistryStep ==
  ASSUME TypeInv, IdInv, PhoneInv, ChoicesApart, [Next]_vars,
         \A d \in Devices : ~AddLookup(d) /\ ~AddPick(d)
  PROVE  /\ IdInv' /\ PhoneInv' /\ UNCHANGED id
<1> DEFINE Add(d) == call[d]["add"]
<1>1. ASSUME UNCHANGED id,
             \A d \in Devices : Add(d) \in {"new", "pick", "insert"} \/
                                Add(d)' \in {"new", "pick", "insert"} => Add(d)' = Add(d),
             registered' \subseteq registered
      PROVE  IdInv' /\ PhoneInv'
  <2>1. registered \subseteq Devices
    BY DEF TypeInv, TypeOK
  <2>2. \A d \in Devices : HasId(d)' => HasId(d)
    BY <1>1 DEF HasId
  <2>3. \A d \in Devices : Number(id[d])' = Number(id[d])
    BY <1>1 DEF Number
  <2>4. \A d \in registered' : Add(d)' \notin {"new", "pick", "insert"}
    BY <1>1, <2>1 DEF IdInv
  <2>5. IdInv'
    BY <1>1, <2>2, <2>3, <2>4 DEF IdInv
  <2>6. \A d \in Devices : Add(d)' = "pick" => Add(d) = "pick"
    BY <1>1
  <2> QED
    BY <1>1, <2>2, <2>3, <2>5, <2>6 DEF PhoneInv
<1>2. ASSUME NEW d \in Devices, AddInsert(d) PROVE IdInv' /\ PhoneInv' /\ UNCHANGED id
  <2>1. /\ call[d]["add"] = "insert" /\ registered' = registered \cup {d} /\ id' = id
        /\ registered \subseteq Devices
    BY <1>2 DEF AddInsert, TypeInv, TypeOK
  <2>2. \A e \in Devices : Add(e)' = IF e = d THEN Add(d)' ELSE Add(e)
    BY <1>2, GotoResult DEF AddInsert, Calls
  <2>3. Add(d)' \in {"notify", "done"}
    BY <1>2, GotoResult DEF AddInsert, Calls
  <2>4. \A e \in Devices : HasId(e)' <=> HasId(e)
    BY <2>1, <2>2, <2>3 DEF HasId
  <2>5. \A e \in Devices : Number(id[e])' = Number(id[e])
    BY <2>1 DEF Number
  <2>6. IdInv'
    BY <2>1, <2>2, <2>3, <2>4, <2>5 DEF IdInv
  <2>7. \A e \in Devices : Add(e) # "pick"
    <3> SUFFICES ASSUME NEW e \in Devices, Add(e) = "pick" PROVE FALSE
      OBVIOUS
    <3>1. d \in Choosing /\ e \in Choosing
      BY <2>1 DEF Choosing
    <3> QED
      BY <2>1, <3>1 DEF ChoicesApart
  <2>8. \A e \in Devices : Add(e)' # "pick"
    BY <2>2, <2>3, <2>7
  <2>9. PhoneInv'
    BY <2>4, <2>5, <2>8 DEF PhoneInv
  <2> QED
    BY <2>1, <2>6, <2>9
<1>3. ASSUME NEW d \in Devices, NEW op \in RemovalCalls, NEW pc, Goto(d, op, pc),
             registered' = registered \ {d}, UNCHANGED id
      PROVE  IdInv' /\ PhoneInv'
  <2>1. \A e \in Devices : Add(e)' = Add(e)
    BY <1>3, GotoResult DEF Calls, RemovalCalls
  <2> QED
    BY <1>1, <1>3, <2>1
<1>4. ASSUME NEW d \in Devices, NEW op \in Calls, BeginNotify(d, op) \/ EndNotify(d, op)
      PROVE IdInv' /\ PhoneInv' /\ UNCHANGED id
  <2>1. PICK pc \in {"sending", "done"} : Goto(d, op, pc)
    BY <1>4 DEF BeginNotify, EndNotify
  <2>2. call[d][op] \in {"notify", "sending"} /\ UNCHANGED <<registered, id>>
    BY <1>4 DEF BeginNotify, EndNotify
  <2>3. \A e \in Devices : Add(e)' = IF e = d /\ op = "add" THEN pc ELSE Add(e)
    <3>1. "add" \in Calls
      BY DEF Calls
    <3>2. \A e \in Devices, o \in Calls :
            call'[e][o] = IF e = d /\ o = op THEN pc ELSE call[e][o]
      BY <1>4, <2>1, GotoResult
    <3> QED
      BY <3>1, <3>2
  <2> QED
    BY <1>1, <2>2, <2>3
<1>5. ASSUME UNCHANGED <<registered, id, call>> PROVE IdInv' /\ PhoneInv' /\ UNCHANGED id
  BY <1>1, <1>5
<1>6. ASSUME NEW d \in Devices, NEW op \in Calls, NEW c \in Clients, NotifyClient(d, op, c)
      PROVE IdInv' /\ PhoneInv' /\ UNCHANGED id
  BY <1>5, <1>6 DEF NotifyClient
<1>7. ASSUME NEW c \in Clients,
             AddClient(c) \/ DeleteClient(c) \/ Listen(c) \/ BeginList(c) \/ EndList(c)
             \/ \E d \in Devices : ListDevice(c, d)
      PROVE IdInv' /\ PhoneInv' /\ UNCHANGED id
  BY <1>5, <1>7 DEF AddClient, DeleteClient, Listen, BeginList, EndList, ListDevice
<1>8. CASE UNCHANGED vars
  BY <1>5, <1>8 DEF vars
<1> QED
  BY <1>2, <1>3, <1>4, <1>6, <1>7, <1>8, StepKinds

\* ... and the two that give one out. The number is the one of the phone's other
\* connection, or one that no device in the list has.
LEMMA LookupKeepsIds ==
  ASSUME TypeInv, IdInv, PhoneInv, OneEach', NEW d \in Devices, AddLookup(d)
  PROVE  IdInv' /\ PhoneInv'
<1> DEFINE Add(e) == call[e]["add"]
<1>1. /\ registered' = registered /\ registered \subseteq Devices /\ Add(d) = "new"
      /\ \A e \in Devices : Add(e)' = IF e = d THEN Add(d)' ELSE Add(e)
      /\ \A e \in Devices : e # d => id'[e] = id[e]
  BY GivesId DEF AddLookup, TypeInv, TypeOK
<1>2. d \notin registered
  BY <1>1 DEF IdInv
<1>3. \A e \in registered : e \in Devices /\ e # d /\ id'[e] = id[e]
  BY <1>1, <1>2
<1>4. CASE Goto(d, "add", "pick") /\ UNCHANGED id /\ Siblings(d) = {}
  <2>1. Add(d)' = "pick"
    BY <1>4, GotoResult DEF Calls
  <2>2. \A e \in Devices : HasId(e)' => HasId(e)
    BY <1>1, <2>1 DEF HasId
  <2>3. IdInv'
    BY <1>1, <1>2, <1>4, <2>1, <2>2 DEF IdInv, Number
  <2>4. ASSUME NEW e \in registered PROVE Serial[d] # Serial[e]
    <3>1. Serial[e] = Serial[d] => Conn[e] = Conn[d]
      BY <1>4 DEF Siblings
    <3>2. d \in Choosing' /\ e \in registered'
      BY <1>1, <2>1 DEF Choosing
    <3>3. Serial[d] = Serial[e] /\ Conn[d] = Conn[e] => d = e
      BY <3>2 DEF OneEach
    <3> QED
      BY <1>2, <3>1, <3>3
  <2>5. PhoneInv'
    BY <1>1, <1>4, <2>1, <2>2, <2>4 DEF PhoneInv, Number
  <2> QED
    BY <2>3, <2>5
<1>5. ASSUME NEW s \in Siblings(d), id' = [id EXCEPT ![d] = 2 * Number(id[s]) + IsWifi(d)],
             Goto(d, "add", "insert")
      PROVE  IdInv' /\ PhoneInv'
  <2>1. Add(d)' = "insert"
    BY <1>5, GotoResult DEF Calls
  <2>2. s \in registered /\ s \in Devices /\ HasId(s) /\ Serial[s] = Serial[d] /\ s # d
    BY <1>1, <1>2 DEF Siblings, HasId
  <2>3. Number(id[s]) \in Nat /\ Number(id[s]) > 0
    BY <2>2 DEF TypeInv, NumberInv, IdInv
  <2>4. id'[d] = 2 * Number(id[s]) + IsWifi(d) /\ Number(id'[d]) = Number(id[s])
    <3>1. id'[d] = 2 * Number(id[s]) + IsWifi(d)
      BY <1>5 DEF TypeInv, TypeOK
    <3> QED
      BY <2>3, <3>1, IdParts
  <2>5. \A e \in Devices : HasId(e)' <=> e = d \/ HasId(e)
    BY <1>1, <2>1 DEF HasId
  <2>6. IdInv'
    <3>1. \A e \in registered' : Add(e)' \notin {"new", "pick", "insert"}
      BY <1>1, <1>2 DEF IdInv
    <3>2. \A e \in Devices : HasId(e)' =>
            Number(id'[e]) > 0 /\ id'[e] = 2 * Number(id'[e]) + IsWifi(e)
      <4> SUFFICES ASSUME NEW e \in Devices, HasId(e)'
                   PROVE  Number(id'[e]) > 0 /\ id'[e] = 2 * Number(id'[e]) + IsWifi(e)
        OBVIOUS
      <4>1. CASE e = d
        BY <2>3, <2>4, <4>1
      <4>2. CASE e # d
        <5>1. id'[e] = id[e] /\ HasId(e)
          BY <1>1, <2>5, <4>2
        <5> QED
          BY <5>1 DEF IdInv
      <4> QED
        BY <4>1, <4>2
    <3> QED
      BY <3>1, <3>2 DEF IdInv, Number
  <2>7. \A e \in Devices : HasId(e)' =>
          \E f \in Devices : /\ HasId(f) /\ Number(id'[e]) = Number(id[f])
                             /\ Serial[e] = Serial[f]
    <3> SUFFICES ASSUME NEW e \in Devices, HasId(e)'
                 PROVE  \E f \in Devices : /\ HasId(f) /\ Number(id'[e]) = Number(id[f])
                                           /\ Serial[e] = Serial[f]
      OBVIOUS
    <3>1. CASE e = d
      BY <2>2, <2>4, <3>1
    <3>2. CASE e # d
      <4>1. id'[e] = id[e] /\ HasId(e)
        BY <1>1, <2>5, <3>2
      <4> QED
        BY <4>1
    <3> QED
      BY <3>1, <3>2
  <2>8. \A e, f \in Devices : HasId(e)' /\ HasId(f)' =>
          ((Number(id'[e]) = Number(id'[f])) <=> (Serial[e] = Serial[f]))
    BY <2>7 DEF PhoneInv
  <2>9. \A e \in Devices, f \in registered : Add(e)' = "pick" => Serial[e] # Serial[f]
    BY <1>1, <2>1 DEF PhoneInv
  <2>10. PhoneInv'
    BY <1>1, <2>8, <2>9 DEF PhoneInv, Number
  <2> QED
    BY <2>6, <2>10
<1> QED
  BY <1>4, <1>5 DEF AddLookup

LEMMA PickKeepsIds ==
  ASSUME TypeInv, IdInv, PhoneInv, ChoicesApart, NEW d \in Devices, AddPick(d)
  PROVE  IdInv' /\ PhoneInv'
<1> DEFINE Add(e) == call[e]["add"]
           n == NextNewId
<1>1. /\ registered' = registered /\ registered \subseteq Devices /\ Add(d) = "pick"
      /\ \A e \in Devices : Add(e)' = IF e = d THEN Add(d)' ELSE Add(e)
      /\ \A e \in Devices : e # d => id'[e] = id[e]
  BY GivesId DEF AddPick, TypeInv, TypeOK
<1>2. Add(d)' = "insert"
  BY GotoResult DEF AddPick, Calls
<1>3. n \in Nat /\ n > 0 /\ \A e \in registered : Number(id[e]) # n
  <2>1. newid \in Nat /\ newid > 0
    BY OrderTypes DEF TypeInv, TypeOK
  <2>2. n \in {newid, newid + 1} /\ \A e \in registered : Number(id[e]) # n
    BY <1>1, FreshNumber
  <2> QED
    BY <2>1, <2>2
<1>4. id'[d] = 2 * n + IsWifi(d) /\ Number(id'[d]) = n
  <2>1. id'[d] = 2 * n + IsWifi(d)
    BY DEF AddPick, TypeInv, TypeOK
  <2> HIDE DEF n
  <2> QED
    BY <1>3, <2>1, IdParts
<1> HIDE DEF n
<1>5. \A e \in Devices : e # d => Add(e) \notin {"pick", "insert"}
  BY <1>1 DEF ChoicesApart, Choosing
<1>6. \A e \in Devices : e # d /\ HasId(e)' => e \in registered /\ HasId(e)
  BY <1>1, <1>5 DEF HasId
<1>7. d \notin registered
  BY <1>1 DEF IdInv
<1>8. IdInv'
  <2>1. \A e \in registered' : Add(e)' \notin {"new", "pick", "insert"}
    BY <1>1, <1>7 DEF IdInv
  <2>2. \A e \in Devices : HasId(e)' =>
          Number(id'[e]) > 0 /\ id'[e] = 2 * Number(id'[e]) + IsWifi(e)
    <3> SUFFICES ASSUME NEW e \in Devices, HasId(e)'
                 PROVE  Number(id'[e]) > 0 /\ id'[e] = 2 * Number(id'[e]) + IsWifi(e)
      OBVIOUS
    <3>1. CASE e = d
      BY <1>3, <1>4, <3>1
    <3>2. CASE e # d
      <4>1. id'[e] = id[e] /\ HasId(e)
        BY <1>1, <1>6, <3>2
      <4> QED
        BY <4>1 DEF IdInv
    <3> QED
      BY <3>1, <3>2
  <2> QED
    BY <2>1, <2>2 DEF IdInv, Number
<1>9. \A e \in Devices : e # d /\ HasId(e)' =>
        Number(id'[e]) # Number(id'[d]) /\ Serial[e] # Serial[d]
  BY <1>1, <1>3, <1>4, <1>6 DEF PhoneInv
<1>10. \A e, f \in Devices : e # d /\ f # d /\ HasId(e)' /\ HasId(f)' =>
         ((Number(id'[e]) = Number(id'[f])) <=> (Serial[e] = Serial[f]))
  <2> SUFFICES ASSUME NEW e \in Devices, NEW f \in Devices,
                      e # d /\ f # d /\ HasId(e)' /\ HasId(f)'
               PROVE  (Number(id'[e]) = Number(id'[f])) <=> (Serial[e] = Serial[f])
    OBVIOUS
  <2>1. HasId(e) /\ HasId(f) /\ id'[e] = id[e] /\ id'[f] = id[f]
    BY <1>1, <1>6
  <2> QED
    BY <2>1 DEF PhoneInv
<1>11. \A e, f \in Devices : HasId(e)' /\ HasId(f)' =>
         ((Number(id'[e]) = Number(id'[f])) <=> (Serial[e] = Serial[f]))
  BY <1>9, <1>10
<1>12. \A e \in Devices : Add(e)' # "pick"
  BY <1>1, <1>2, <1>5
<1>13. PhoneInv'
  BY <1>11, <1>12 DEF PhoneInv, Number
<1> QED
  BY <1>8, <1>13

IdsInv == TypeInv /\ IdInv /\ PhoneInv

LEMMA InitIds == Init => IdsInv
<1>1. ASSUME Init PROVE IdInv /\ PhoneInv
  BY <1>1 DEF Init, IdInv, PhoneInv, HasId, Calls
<1> QED
  BY <1>1, InitTypes DEF IdsInv

LEMMA IdsStep == IdsInv /\ ChoicesApart /\ OneEach' /\ [Next]_vars => IdsInv'
<1> SUFFICES ASSUME IdsInv, ChoicesApart, OneEach', [Next]_vars PROVE IdsInv'
  OBVIOUS
<1>1. TypeInv'
  BY TypeStep DEF IdsInv
<1>2. CASE \E d \in Devices : AddLookup(d)
  BY <1>1, <1>2, LookupKeepsIds DEF IdsInv
<1>3. CASE \E d \in Devices : AddPick(d)
  BY <1>1, <1>3, PickKeepsIds DEF IdsInv
<1>4. CASE \A d \in Devices : ~AddLookup(d) /\ ~AddPick(d)
  BY <1>1, <1>4, RegistryStep DEF IdsInv
<1> QED
  BY <1>2, <1>3, <1>4

LEMMA IdsGiveSound == IdsInv /\ OneEach => IdsSound
<1> SUFFICES ASSUME IdsInv, OneEach PROVE IdsSound
  OBVIOUS
<1>1. registered \subseteq Devices /\ \A d \in registered : HasId(d)
  BY DEF IdsInv, TypeInv, TypeOK, HasId
<1>2. NumberIsDevice
  BY <1>1 DEF NumberIsDevice, IdsInv, PhoneInv
<1>3. ASSUME NEW d \in registered, NEW e \in registered, id[d] = id[e] PROVE d = e
  <2>1. Serial[d] = Serial[e]
    BY <1>2, <1>3 DEF NumberIsDevice
  <2>2. /\ id[d] = 2 * Number(id[d]) + IsWifi(d) /\ id[e] = 2 * Number(id[d]) + IsWifi(e)
        /\ Number(id[d]) \in Nat
    BY <1>1, <1>3 DEF IdsInv, IdInv, TypeInv, NumberInv
  <2>3. IsWifi(d) = IsWifi(e)
    BY <1>3, <2>2 DEF IsWifi
  <2>4. Conn[d] = Conn[e]
    BY <1>1, <2>3, MuxerAssumption DEF IsWifi
  <2> QED
    BY <2>1, <2>4 DEF OneEach
<1>4. IdsUnique
  BY <1>3 DEF IdsUnique
<1> QED
  BY <1>2, <1>4 DEF IdsSound

\* Ids are unique and their numbers are the phones, for any number of devices and
\* calls, removals in between included, as long as one device at a time is between
\* the lookup and the insertion of add_device (Muxer.cpp:124-154).
THEOREM IdsStaySound == Spec /\ []ChoicesApart /\ []OneEach => []IdsSound
<1>1. Spec /\ []ChoicesApart /\ []OneEach => []IdsInv
  BY InitIds, IdsStep, PTL DEF Spec
<1> QED
  BY <1>1, IdsGiveSound, PTL

-----------------------------------------------------------------------------
(* Views. *)

ViewsInv == IdsInv /\ ViewInv

\* What is known while calls are orderly.
Premise == Orderly /\ OneEach

\* Orderly calls do not choose a number at the same time.
LEMMA OrderlyApart == IdsInv /\ Orderly => ChoicesApart
<1> SUFFICES ASSUME Orderly, NEW d \in Choosing, NEW e \in Choosing PROVE d = e
  BY DEF ChoicesApart
<1>1. d \in Devices /\ e \in Devices /\ InProgress(d, "add") /\ InProgress(e, "add")
  BY DEF Choosing, InProgress
<1> QED
  BY <1>1 DEF Orderly

\* Who is leaving is not in the list, and nobody in the list has its id.
LEMMA LeavingAlone ==
  ASSUME IdsInv, CallInv, NEW d \in Devices, NEW op \in RemovalCalls,
         InProgress(d, op)
  PROVE  d \notin registered /\ \A e \in registered : id[e] # id[d]
<1>1. op \in Removals[d]
  BY DEF CallInv, InProgress
<1>2. Leaving(d)
  BY <1>1 DEF Leaving, InProgress
<1> QED
  BY <1>2 DEF CallInv, InProgress

\* The calls' part of the invariant depends on the calls, the list and the ids only.
LEMMA CallStep ==
  ASSUME ViewsInv, Premise, Premise', IdsInv', [Next]_vars
  PROVE  CallInv'
<1> DEFINE Add(d) == call[d]["add"]
<1> USE DEF ViewsInv, ViewInv
<1>0. registered \subseteq Devices /\ RemovalCalls \subseteq Calls /\ "add" \in Calls
      /\ "add" \notin RemovalCalls /\ \A d \in Devices : Removals[d] \subseteq RemovalCalls
  <2>1. \A d \in Devices : Removals[d] \subseteq RemovalCalls
    BY MuxerAssumption
  <2> QED
    BY <2>1 DEF IdsInv, TypeInv, TypeOK, Calls, RemovalCalls
<1>1. ASSUME UNCHANGED <<registered, id>>,
             \A d \in Devices, op \in RemovalCalls :
               \/ call'[d][op] = call[d][op]
               \/ {call[d][op], call'[d][op]} \subseteq {"notify", "sending", "done"}
                  /\ call[d][op] # "done",
             \A d \in Devices : Add(d) \in {"new", "pick", "insert"} => Add(d)' = Add(d)
      PROVE  CallInv'
  <2>1. \A d \in Devices, op \in RemovalCalls : call'[d][op] # "new" <=> call[d][op] # "new"
    BY <1>1
  <2>2. \A d \in Devices, op \in RemovalCalls : call[d][op] = "done" => call'[d][op] = "done"
    BY <1>1
  <2>3. \A d \in Devices : Leaving(d)' => Leaving(d)
    BY <1>0, <2>1, <2>2 DEF Leaving
  <2> QED
    BY <1>1, <2>1, <2>3 DEF CallInv
<1>2. ASSUME NEW d \in Devices, AddLookup(d) \/ AddPick(d) PROVE CallInv'
  <2>1. /\ \A e \in Devices : Add(e)' = IF e = d THEN Add(d)' ELSE Add(e)
        /\ \A e \in Devices : e # d => id'[e] = id[e]
        /\ \A e \in Devices, op \in RemovalCalls : call'[e][op] = call[e][op]
        /\ registered' = registered
        /\ Add(d) \in {"new", "pick"}
    BY <1>2, GivesId DEF IdsInv, AddLookup, AddPick
  <2>2. Add(d)' \in {"pick", "insert"}
    BY <1>0, <1>2, GotoResult DEF IdsInv, AddLookup, AddPick
  <2>3. d \notin registered
    BY <2>1 DEF IdsInv, IdInv
  <2>4. \A e \in Devices : Leaving(e)' <=> Leaving(e)
    BY <1>0, <2>1 DEF Leaving
  <2>5. ~Leaving(d)
    <3>1. \A op \in RemovalCalls : call[d][op] = "new"
      BY <2>1 DEF Premise, Orderly
    <3> QED
      BY <1>0, <3>1 DEF Leaving
  <2>6. \A e \in Devices : Leaving(e)' => \A f \in registered' : id'[f] # id'[e]
    <3> SUFFICES ASSUME NEW e \in Devices, Leaving(e), NEW f \in registered
                 PROVE  id'[f] # id'[e]
      BY <2>1, <2>4
    <3>1. e # d /\ f # d /\ f \in Devices
      BY <1>0, <2>3, <2>5
    <3> QED
      BY <2>1, <3>1 DEF CallInv
  <2> QED
    BY <2>1, <2>2, <2>6 DEF CallInv
<1>3. ASSUME NEW d \in Devices, AddInsert(d) PROVE CallInv'
  <2>1. /\ Add(d) = "insert" /\ registered' = registered \cup {d} /\ id' = id
        /\ \E pc \in {"done", "notify"} : Goto(d, "add", pc)
    BY <1>3 DEF AddInsert
  <2>2. \A e \in Devices, op \in Calls : e # d \/ op # "add" => call'[e][op] = call[e][op]
    BY <1>0, <2>1, GotoResult DEF IdsInv
  <2>3. \A op \in RemovalCalls : call[d][op] = "new"
    BY <2>1 DEF Premise, Orderly
  <2>4. \A e \in Devices : ~Leaving(e)
    BY <2>1 DEF Premise, Orderly, InProgress
  <2>5. \A e \in Devices : Leaving(e)' => Leaving(e)
    BY <1>0, <2>2 DEF Leaving
  <2> QED
    BY <1>0, <2>1, <2>2, <2>3, <2>4, <2>5 DEF CallInv
<1>4. ASSUME NEW d \in Devices, NEW op \in RemovalCalls, NEW pc \in {"notify", "done"},
             op \in Removals[d], call[d][op] = "new", Goto(d, op, pc),
             registered' = registered \ {d}, UNCHANGED id
      PROVE  CallInv'
  <2>1. \A e \in Devices, o \in Calls : call'[e][o] = IF e = d /\ o = op THEN pc ELSE call[e][o]
    BY <1>0, <1>4, GotoResult DEF IdsInv
  <2>2. \A e \in Devices : e # d => (Leaving(e)' <=> Leaving(e))
    BY <1>0, <2>1 DEF Leaving
  <2>3. call'[d][op] # "new"
    BY <1>0, <1>4, <2>1
  <2>4. Add(d)' = "done" /\ Add(d) = "done"
    BY <1>0, <2>1, <2>3 DEF Premise, Orderly
  <2>5. \A e \in registered' : id[e] # id[d]
    <3>1. CASE d \in registered
      BY <1>4, <3>1, IdsGiveSound DEF Premise, IdsSound, IdsUnique
    <3>2. CASE d \notin registered
      <4>1. PICK o \in RemovalCalls : call[d][o] # "new"
        BY <2>4, <3>2 DEF CallInv
      <4>2. o \in Removals[d]
        BY <4>1 DEF CallInv
      <4>3. Leaving(d)
        BY <1>4, <4>1, <4>2 DEF Leaving
      <4> QED
        BY <1>4, <4>3 DEF CallInv
    <3> QED
      BY <3>1, <3>2
  <2>6. \A e \in Devices : Leaving(e)' => \A f \in registered' : id'[f] # id'[e]
    <3> SUFFICES ASSUME NEW e \in Devices, Leaving(e)' PROVE \A f \in registered' : id[f] # id[e]
      BY <1>4
    <3>1. CASE e = d
      BY <2>5, <3>1
    <3>2. CASE e # d
      BY <1>4, <2>2, <3>2 DEF CallInv
    <3> QED
      BY <3>1, <3>2
  <2>7. \A e \in Devices, o \in RemovalCalls :
          /\ o \notin Removals[e] => call'[e][o] = "new"
          /\ call'[e][o] # "new" => e \notin registered'
    BY <1>0, <1>4, <2>1 DEF CallInv
  <2>8. \A e \in Devices : Add(e)' \notin {"new", "pick", "insert"} =>
          e \in registered' \/ \E o \in RemovalCalls : call'[e][o] # "new"
    <3> SUFFICES ASSUME NEW e \in Devices, Add(e)' \notin {"new", "pick", "insert"},
                        e \notin registered'
                 PROVE  \E o \in RemovalCalls : call'[e][o] # "new"
      OBVIOUS
    <3>1. CASE e = d
      BY <2>3, <3>1
    <3>2. CASE e # d
      <4>1. Add(e) = Add(e)' /\ e \notin registered
        BY <1>0, <1>4, <2>1, <3>2
      <4>2. PICK o \in RemovalCalls : call[e][o] # "new"
        BY <4>1 DEF CallInv
      <4> QED
        BY <1>0, <2>1, <3>2, <4>2
    <3> QED
      BY <3>1, <3>2
  <2> QED
    BY <2>6, <2>7, <2>8 DEF CallInv
<1>5. ASSUME NEW d \in Devices, NEW op \in Calls, BeginNotify(d, op) \/ EndNotify(d, op)
      PROVE  CallInv'
  <2>1. PICK pc \in {"sending", "done"} : Goto(d, op, pc)
    BY <1>5 DEF BeginNotify, EndNotify
  <2>2. call[d][op] \in {"notify", "sending"} /\ UNCHANGED <<registered, id>>
    BY <1>5 DEF BeginNotify, EndNotify
  <2>3. \A e \in Devices, o \in Calls : call'[e][o] = IF e = d /\ o = op THEN pc ELSE call[e][o]
    BY <1>5, <2>1, GotoResult DEF IdsInv
  <2> QED
    BY <1>0, <1>1, <2>2, <2>3
<1>6. ASSUME UNCHANGED <<registered, id, call>> PROVE CallInv'
  BY <1>1, <1>6
<1>7. ASSUME NEW d \in Devices, NEW op \in Calls, NEW c \in Clients, NotifyClient(d, op, c)
      PROVE  CallInv'
  BY <1>6, <1>7 DEF NotifyClient
<1>8. ASSUME NEW c \in Clients,
             AddClient(c) \/ DeleteClient(c) \/ Listen(c) \/ BeginList(c) \/ EndList(c)
             \/ \E d \in Devices : ListDevice(c, d)
      PROVE  CallInv'
  BY <1>6, <1>8 DEF AddClient, DeleteClient, Listen, BeginList, EndList, ListDevice
<1>9. CASE UNCHANGED vars
  BY <1>6, <1>9 DEF vars
<1> QED
  BY <1>2, <1>3, <1>4, <1>5, <1>7, <1>8, <1>9, StepKinds DEF IdsInv

\* What the proofs about views use of the state.
LEMMA ViewFacts ==
  ASSUME ViewsInv
  PROVE  /\ registered \subseteq Devices /\ RemovalCalls \subseteq Calls
         /\ "add" \in Calls /\ "add" \notin RemovalCalls
         /\ \A op \in Calls : op = "add" \/ op \in RemovalCalls
         /\ view \in [Clients -> SUBSET Ids] /\ listing \in [Clients -> SUBSET Devices]
         /\ cstate \in [Clients -> {"new", "connected", "listening", "gone"}]
         /\ lpc \in [Clients -> {"idle", "list", "sending"}]
         /\ todo \in [Devices -> [Calls -> SUBSET Clients]]
BY DEF ViewsInv, IdsInv, TypeInv, TypeOK, Calls, RemovalCalls

\* add_device before its notification: nothing is sent, and nobody's id changes
\* that a client could have been told (Muxer.cpp:120-154).
LEMMA AddKeepsViews ==
  ASSUME ViewsInv, Premise, NEW d \in Devices, AddLookup(d) \/ AddPick(d) \/ AddInsert(d)
  PROVE  ClientInv' /\ KnownInv' /\ GoneInv'
<1> USE DEF ViewsInv, ViewInv
<1> DEFINE Add(e) == call[e]["add"]
<1>1. UNCHANGED <<todo, cstate, lpc, listing, view>>
  BY DEF AddLookup, AddPick, AddInsert
<1>2. CASE AddLookup(d) \/ AddPick(d)
  <2>1. /\ \A e \in Devices : Add(e)' = IF e = d THEN Add(d)' ELSE Add(e)
        /\ \A e \in Devices : e # d => id'[e] = id[e]
        /\ \A e \in Devices, op \in RemovalCalls : call'[e][op] = call[e][op]
        /\ registered' = registered
        /\ Add(d) \in {"new", "pick"}
    BY <1>2, GivesId DEF IdsInv, AddLookup, AddPick
  <2>2. d \notin registered
    BY <2>1 DEF IdsInv, IdInv
  <2>3. \A op \in RemovalCalls : call[d][op] = "new"
    BY <2>1 DEF Premise, Orderly
  <2>4. ClientInv'
    BY <1>1, <2>1 DEF ClientInv
  <2>5. \A e \in registered : e \in Devices /\ e # d /\ id'[e] = id[e] /\ Add(e)' = Add(e)
    BY <2>1, <2>2, ViewFacts
  <2>6. KnownInv'
    BY <1>1, <2>1, <2>5 DEF KnownInv, Due, InAnswer
  <2>7. \A c \in Clients, e \in Devices, op \in RemovalCalls :
          Due(c, e, op) => Due(c, e, op)' /\ id'[e] = id[e]
    BY <1>1, <2>1, <2>3 DEF Due
  <2>8. GoneInv'
    BY <1>1, <2>1, <2>5, <2>7 DEF GoneInv
  <2> QED
    BY <2>4, <2>6, <2>8
<1>3. CASE AddInsert(d)
  <2>1. /\ registered' = registered \cup {d} /\ id' = id /\ DevicesWritable
        /\ Goto(d, "add", IF d \in Pairing THEN "done" ELSE "notify")
        /\ Add(d) = "insert"
    BY <1>3 DEF AddInsert
  <2>2. /\ \A e \in Devices, op \in Calls : e # d \/ op # "add" => call'[e][op] = call[e][op]
        /\ d \notin Pairing => Add(d)' = "notify"
    BY <2>1, ViewFacts, GotoResult DEF IdsInv
  <2>3. ClientInv'
    BY <1>1, <2>1 DEF ClientInv, DevicesWritable
  <2>4. \A c \in Clients, e \in Devices, op \in Calls :
          Due(c, e, op) => e # d \/ op # "add"
    BY <2>1 DEF Due
  <2>5. \A c \in Clients, e \in Devices, op \in Calls : Due(c, e, op) => Due(c, e, op)'
    BY <1>1, <2>2, <2>4 DEF Due
  <2>6. KnownInv'
    <3> SUFFICES ASSUME NEW c \in Clients, cstate[c] = "listening", NEW e \in registered' \ Pairing
                 PROVE  id[e] \in view[c] \/ Due(c, e, "add")' \/ InAnswer(c, e)
      BY <1>1, <2>1 DEF KnownInv, InAnswer
    <3>1. CASE e = d
      BY <2>2, <3>1 DEF Due
    <3>2. CASE e # d
      <4>1. e \in registered \ Pairing /\ e \in Devices
        BY <2>1, <3>2, ViewFacts
      <4> QED
        BY <2>5, <4>1, ViewFacts DEF KnownInv
    <3> QED
      BY <3>1, <3>2
  <2>7. GoneInv'
    BY <1>1, <2>1, <2>5, ViewFacts DEF GoneInv
  <2> QED
    BY <2>3, <2>6, <2>7
<1> QED
  BY <1>2, <1>3

\* A removal: the device's id will be taken back, or nobody knows it
\* (Muxer.cpp:184-249).
LEMMA RemovalKeepsViews ==
  ASSUME ViewsInv, NEW d \in Devices, NEW op \in RemovalCalls, call[d][op] = "new",
         DevicesWritable, registered' = registered \ {d},
         UNCHANGED <<id, todo, cstate, lpc, listing, view>>,
         Goto(d, op, "notify") \/ (d \notin registered /\ Goto(d, op, "done"))
  PROVE  ClientInv' /\ KnownInv' /\ GoneInv'
<1> USE DEF ViewsInv, ViewInv
<1>1. \A e \in Devices, o \in Calls : e # d \/ o # op => call'[e][o] = call[e][o]
  BY ViewFacts, GotoResult DEF IdsInv
<1>2. d \in registered => call'[d][op] = "notify"
  BY ViewFacts, GotoResult DEF IdsInv
<1>3. \A c \in Clients, e \in Devices, o \in Calls : Due(c, e, o) => Due(c, e, o)'
  BY <1>1 DEF Due
<1>4. ClientInv'
  BY DEF ClientInv, DevicesWritable
<1>5. KnownInv'
  BY <1>3, ViewFacts DEF KnownInv, InAnswer
<1>6. GoneInv'
  <2> SUFFICES ASSUME NEW c \in Clients, NEW i \in view[c]
               PROVE  \/ \E e \in registered' : id[e] = i
                      \/ \E e \in Devices, o \in RemovalCalls : id[e] = i /\ Due(c, e, o)'
    BY DEF GoneInv
  <2>1. CASE \E e \in Devices, o \in RemovalCalls : id[e] = i /\ Due(c, e, o)
    BY <1>3, <2>1, ViewFacts
  <2>2. CASE d \in registered /\ id[d] = i
    BY <1>2, <2>2 DEF Due
  <2>3. CASE \E e \in registered : e # d /\ id[e] = i
    BY <2>3
  <2> QED
    BY <2>1, <2>2, <2>3 DEF GoneInv
<1> QED
  BY <1>4, <1>5, <1>6

\* The notification is begun: for everybody who knows something; it ends when
\* everybody was told (Muxer.cpp:413-458).
LEMMA BeginKeepsViews ==
  ASSUME ViewsInv, NEW d \in Devices, NEW op \in Calls, BeginNotify(d, op) \/ EndNotify(d, op)
  PROVE  ClientInv' /\ KnownInv' /\ GoneInv'
<1> USE DEF ViewsInv, ViewInv
<1>1. UNCHANGED <<registered, id, cstate, lpc, listing, view>>
  BY DEF BeginNotify, EndNotify
<1>2. ClientInv'
  BY <1>1 DEF ClientInv
<1>3. \A c \in Clients : cstate[c] = "listening" =>
        \A e \in Devices, o \in Calls : Due(c, e, o) => Due(c, e, o)'
  <2> SUFFICES ASSUME NEW c \in Clients, cstate[c] = "listening", NEW e \in Devices,
                      NEW o \in Calls, Due(c, e, o)
               PROVE  Due(c, e, o)'
    OBVIOUS
  <2>1. CASE e = d /\ o = op
    <3>1. CASE BeginNotify(d, op)
      <4>1. call'[d][op] = "sending"
        BY <3>1, GotoResult DEF BeginNotify, IdsInv
      <4>2. c \in todo'[d][op]
        BY <3>1, ViewFacts DEF BeginNotify, InClients
      <4> QED
        BY <2>1, <4>1, <4>2 DEF Due
    <3>2. CASE EndNotify(d, op)
      BY <2>1, <3>2 DEF EndNotify, Due
    <3> QED
      BY <3>1, <3>2
  <2>2. CASE e # d \/ o # op
    <3>1. PICK pc : Goto(d, op, pc)
      BY DEF BeginNotify, EndNotify
    <3>2. call'[e][o] = call[e][o]
      BY <2>2, <3>1, GotoResult DEF IdsInv
    <3>3. todo'[e][o] = todo[e][o]
      BY <2>2, ViewFacts DEF BeginNotify, EndNotify
    <3> QED
      BY <3>2, <3>3 DEF Due
  <2> QED
    BY <2>1, <2>2
<1>4. KnownInv'
  BY <1>1, <1>3, ViewFacts DEF KnownInv, InAnswer
<1>5. GoneInv'
  BY <1>1, <1>3, ViewFacts DEF GoneInv, ClientInv
<1> QED
  BY <1>2, <1>4, <1>5

\* One message (Muxer.cpp:413-458).
LEMMA MessageKeepsViews ==
  ASSUME ViewsInv, Premise, NEW d \in Devices, NEW op \in Calls, NEW c \in Clients,
         NotifyClient(d, op, c)
  PROVE  ClientInv' /\ KnownInv' /\ GoneInv'
<1> USE DEF ViewsInv, ViewInv
<1>1. /\ UNCHANGED <<registered, id, call, cstate, lpc, listing>>
      /\ call[d][op] = "sending"
  BY DEF NotifyClient
<1>2. \A e \in Clients, f \in Devices, o \in Calls :
        e # c \/ f # d \/ o # op => (Due(e, f, o)' <=> Due(e, f, o))
  BY <1>1, ViewFacts DEF NotifyClient, Due
<1>3. \A e \in Clients : e # c => view'[e] = view[e]
  BY ViewFacts DEF NotifyClient
<1>4. cstate[c] # "listening" => view'[c] = view[c]
  BY DEF NotifyClient
<1>5. view'[c] # {} => cstate[c] = "listening"
  BY <1>4 DEF ClientInv
<1>6. ClientInv'
  BY <1>1, <1>3, <1>5 DEF ClientInv
<1>7. CASE op = "add"
  <2>1. d \in registered
    BY <1>1, <1>7, ViewFacts DEF CallInv, Premise, Orderly
  <2>2. cstate[c] = "listening" => view'[c] = view[c] \cup {id[d]}
    BY <1>7, ViewFacts DEF NotifyClient
  <2>3. KnownInv'
    <3> SUFFICES ASSUME NEW e \in Clients, cstate[e] = "listening", NEW f \in registered \ Pairing
                 PROVE  id[f] \in view'[e] \/ Due(e, f, "add")' \/ InAnswer(e, f)
      BY <1>1 DEF KnownInv, InAnswer
    <3>1. id[f] \in view[e] \/ Due(e, f, "add") \/ InAnswer(e, f)
      BY DEF KnownInv
    <3>2. CASE e = c /\ f = d
      BY <2>2, <3>2
    <3>3. CASE e # c \/ f # d
      BY <1>2, <1>3, <2>2, <3>1, <3>3, ViewFacts
    <3> QED
      BY <3>2, <3>3
  <2>4. GoneInv'
    <3> SUFFICES ASSUME NEW e \in Clients, NEW i \in view'[e]
                 PROVE  \/ \E f \in registered : id[f] = i
                        \/ \E f \in Devices, o \in RemovalCalls : id[f] = i /\ Due(e, f, o)'
      BY <1>1 DEF GoneInv
    <3>1. CASE i \in view[e]
      <4>1. \A f \in Devices, o \in RemovalCalls : Due(e, f, o) => Due(e, f, o)'
        BY <1>2, <1>7, ViewFacts
      <4> QED
        BY <3>1, <4>1 DEF GoneInv
    <3>2. CASE i \notin view[e]
      BY <1>3, <1>4, <2>1, <2>2, <3>2
    <3> QED
      BY <3>1, <3>2
  <2> QED
    BY <1>6, <2>3, <2>4
<1>8. CASE op # "add"
  <2>1. op \in RemovalCalls /\ InProgress(d, op)
    BY <1>1, <1>8, ViewFacts DEF InProgress
  <2>2. \A f \in registered : id[f] # id[d]
    BY <2>1, LeavingAlone
  <2>3. cstate[c] = "listening" => view'[c] = view[c] \ {id[d]}
    BY <1>8, ViewFacts DEF NotifyClient
  <2>4. KnownInv'
    <3> SUFFICES ASSUME NEW e \in Clients, cstate[e] = "listening", NEW f \in registered \ Pairing
                 PROVE  id[f] \in view'[e] \/ Due(e, f, "add")' \/ InAnswer(e, f)
      BY <1>1 DEF KnownInv, InAnswer
    <3>1. id[f] \in view[e] \/ Due(e, f, "add") \/ InAnswer(e, f)
      BY DEF KnownInv
    <3>2. id[f] \in view[e] => id[f] \in view'[e]
      BY <1>3, <2>2, <2>3
    <3>3. Due(e, f, "add") => Due(e, f, "add")'
      BY <1>2, <1>8, ViewFacts
    <3> QED
      BY <3>1, <3>2, <3>3
  <2>5. GoneInv'
    <3> SUFFICES ASSUME NEW e \in Clients, NEW i \in view'[e]
                 PROVE  \/ \E f \in registered : id[f] = i
                        \/ \E f \in Devices, o \in RemovalCalls : id[f] = i /\ Due(e, f, o)'
      BY <1>1 DEF GoneInv
    <3>1. i \in view[e] /\ (e = c => i # id[d])
      BY <1>3, <1>4, <2>3, ViewFacts DEF ClientInv
    <3>2. CASE \E f \in registered : id[f] = i
      BY <3>2
    <3>3. CASE \E f \in Devices, o \in RemovalCalls : id[f] = i /\ Due(e, f, o)
      <4>1. PICK f \in Devices, o \in RemovalCalls : id[f] = i /\ Due(e, f, o)
        BY <3>3
      <4>2. e # c \/ f # d
        BY <3>1, <4>1
      <4> QED
        BY <1>2, <4>1, <4>2, ViewFacts
    <3> QED
      BY <3>1, <3>2, <3>3 DEF GoneInv
  <2> QED
    BY <1>6, <2>4, <2>5
<1> QED
  BY <1>7, <1>8

\* Clients come and go, and ask what is there (Muxer.cpp:81-118 and 513-535).
LEMMA ClientKeepsViews ==
  ASSUME ViewsInv, NEW c \in Clients,
         AddClient(c) \/ DeleteClient(c) \/ Listen(c) \/ BeginList(c) \/ EndList(c)
         \/ \E d \in Devices : ListDevice(c, d)
  PROVE  ClientInv' /\ KnownInv' /\ GoneInv'
<1> USE DEF ViewsInv, ViewInv
<1>1. UNCHANGED <<registered, id, call, todo>>
  BY DEF AddClient, DeleteClient, Listen, BeginList, EndList, ListDevice
<1>2. \A e \in Clients, f \in Devices, o \in Calls : Due(e, f, o)' <=> Due(e, f, o)
  BY <1>1 DEF Due
<1>3. \A e \in Clients : e # c =>
        /\ view'[e] = view[e] /\ cstate'[e] = cstate[e]
        /\ lpc'[e] = lpc[e] /\ listing'[e] = listing[e]
  BY ViewFacts DEF AddClient, DeleteClient, Listen, BeginList, EndList, ListDevice
\* It is enough to look at c.
<1>4. ASSUME view'[c] # {} \/ lpc'[c] # "idle" => cstate'[c] = "listening",
             lpc'[c] = "sending" => listing'[c] \subseteq registered,
             cstate'[c] = "listening" =>
               \A f \in registered \ Pairing :
                 id[f] \in view'[c] \/ Due(c, f, "add") \/ InAnswer(c, f)',
             \A i \in view'[c] : i \in view[c] \/ \E f \in registered : id[f] = i
      PROVE  ClientInv' /\ KnownInv' /\ GoneInv'
  <2>1. ClientInv'
    BY <1>1, <1>3, <1>4 DEF ClientInv
  <2>2. \A e \in Clients : e # c => \A f \in Devices : InAnswer(e, f)' <=> InAnswer(e, f)
    BY <1>3 DEF InAnswer
  <2>3. KnownInv'
    <3> SUFFICES ASSUME NEW e \in Clients, cstate'[e] = "listening", NEW f \in registered \ Pairing
                 PROVE  id[f] \in view'[e] \/ Due(e, f, "add") \/ InAnswer(e, f)'
      BY <1>1, <1>2, ViewFacts DEF KnownInv
    <3>1. CASE e = c
      BY <1>4, <3>1
    <3>2. CASE e # c
      BY <1>3, <2>2, <3>2, ViewFacts DEF KnownInv
    <3> QED
      BY <3>1, <3>2
  <2>4. \A e \in Clients : \A i \in view'[e] : i \in view[e] \/ \E f \in registered : id[f] = i
    BY <1>3, <1>4
  <2>5. GoneInv'
    BY <1>1, <1>2, <2>4, ViewFacts DEF GoneInv
  <2> QED
    BY <2>1, <2>3, <2>5
<1>5. CASE AddClient(c)
  <2>1. view'[c] = {} /\ lpc'[c] = "idle" /\ cstate'[c] = "connected"
    BY <1>5, ViewFacts DEF AddClient, ClientInv
  <2> QED
    BY <1>4, <2>1
<1>6. CASE DeleteClient(c)
  <2>1. view'[c] = {} /\ lpc'[c] = "idle" /\ cstate'[c] = "gone"
    BY <1>6, ViewFacts DEF DeleteClient
  <2> QED
    BY <1>4, <2>1
<1>7. CASE Listen(c)
  <2>1. view'[c] = view[c] /\ lpc'[c] = "list" /\ cstate'[c] = "listening"
    BY <1>7, ViewFacts DEF Listen
  <2> QED
    BY <1>4, <2>1 DEF InAnswer
<1>8. CASE BeginList(c)
  <2>1. /\ view'[c] = view[c] /\ lpc'[c] = "sending" /\ cstate'[c] = cstate[c]
        /\ listing'[c] = registered /\ lpc[c] = "list"
    BY <1>8, ViewFacts DEF BeginList
  <2> QED
    BY <1>4, <2>1 DEF InAnswer, ClientInv
<1>9. CASE EndList(c)
  <2>1. /\ view'[c] = view[c] /\ lpc'[c] = "idle" /\ cstate'[c] = cstate[c]
        /\ listing[c] = {} /\ lpc[c] = "sending"
    BY <1>9, ViewFacts DEF EndList
  <2>2. \A f \in Devices : ~InAnswer(c, f)
    BY <2>1 DEF InAnswer
  <2> QED
    BY <1>4, <2>1, <2>2, ViewFacts DEF ClientInv, KnownInv
<1>10. ASSUME NEW d \in Devices, ListDevice(c, d) PROVE ClientInv' /\ KnownInv' /\ GoneInv'
  <2>1. /\ view'[c] = view[c] \cup {id[d]} /\ lpc'[c] = lpc[c] /\ cstate'[c] = cstate[c]
        /\ listing'[c] = listing[c] \ {d} /\ lpc[c] = "sending" /\ d \in listing[c]
    BY <1>10, ViewFacts DEF ListDevice
  <2>2. d \in registered /\ cstate[c] = "listening"
    BY <2>1 DEF ClientInv
  <2>3. \A f \in registered \ Pairing :
          id[f] \in view'[c] \/ Due(c, f, "add") \/ InAnswer(c, f)'
    <3> SUFFICES ASSUME NEW f \in registered \ Pairing, f # d
                 PROVE  id[f] \in view'[c] \/ Due(c, f, "add") \/ InAnswer(c, f)'
      BY <2>1
    <3>1. InAnswer(c, f) => InAnswer(c, f)'
      BY <2>1 DEF InAnswer
    <3> QED
      BY <2>1, <2>2, <3>1 DEF KnownInv
  <2> QED
    BY <1>4, <2>1, <2>2, <2>3 DEF ClientInv
<1> QED
  BY <1>5, <1>6, <1>7, <1>8, <1>9, <1>10

LEMMA ViewsStep ==
  ViewsInv /\ Premise /\ Premise' /\ [Next]_vars => ViewsInv'
<1> SUFFICES ASSUME ViewsInv, Premise, Premise', [Next]_vars PROVE ViewsInv'
  OBVIOUS
<1>1. IdsInv'
  BY OrderlyApart, IdsStep DEF ViewsInv, Premise
<1>2. CallInv'
  BY <1>1, CallStep
<1>3. CASE \E d \in Devices : AddLookup(d) \/ AddPick(d) \/ AddInsert(d)
  BY <1>1, <1>2, <1>3, AddKeepsViews DEF ViewsInv, ViewInv
<1>4. ASSUME NEW d \in Devices, NEW op \in RemovalCalls, call[d][op] = "new",
             DeleteDevice(d) \/ DeleteMatching(d, op),
             registered' = registered \ {d}, UNCHANGED <<id, todo, cstate, lpc, listing, view>>,
             Goto(d, op, "notify") \/ (d \notin registered /\ Goto(d, op, "done"))
      PROVE  ViewsInv'
  <2>1. DevicesWritable
    BY <1>4 DEF DeleteDevice, DeleteMatching
  <2> QED
    BY <1>1, <1>2, <1>4, <2>1, RemovalKeepsViews DEF ViewsInv, ViewInv
<1>5. ASSUME NEW d \in Devices, NEW op \in Calls, BeginNotify(d, op) \/ EndNotify(d, op)
      PROVE  ViewsInv'
  BY <1>1, <1>2, <1>5, BeginKeepsViews DEF ViewsInv, ViewInv
<1>6. ASSUME NEW d \in Devices, NEW op \in Calls, NEW c \in Clients, NotifyClient(d, op, c)
      PROVE  ViewsInv'
  BY <1>1, <1>2, <1>6, MessageKeepsViews DEF ViewsInv, ViewInv
<1>7. ASSUME NEW c \in Clients,
             AddClient(c) \/ DeleteClient(c) \/ Listen(c) \/ BeginList(c) \/ EndList(c)
             \/ \E d \in Devices : ListDevice(c, d)
      PROVE  ViewsInv'
  BY <1>1, <1>2, <1>7, ClientKeepsViews DEF ViewsInv, ViewInv
<1>8. CASE UNCHANGED vars
  BY <1>1, <1>2, <1>8
  DEF vars, ViewsInv, ViewInv, ClientInv, KnownInv, GoneInv, Due, InAnswer
<1> QED
  BY <1>3, <1>4, <1>5, <1>6, <1>7, <1>8, StepKinds DEF ViewsInv, IdsInv

LEMMA InitViews == Init => ViewsInv
<1>1. ASSUME Init PROVE ViewInv
  <2>1. \A d \in Devices : ~Leaving(d)
    <3>1. \A d \in Devices : Removals[d] \subseteq RemovalCalls
      BY MuxerAssumption
    <3> QED
      BY <1>1, <3>1 DEF Init, Leaving, Calls, RemovalCalls
  <2>2. CallInv
    BY <1>1, <2>1 DEF Init, CallInv, Calls, RemovalCalls
  <2>3. ClientInv /\ KnownInv /\ GoneInv
    BY <1>1 DEF Init, ClientInv, KnownInv, GoneInv
  <2> QED
    BY <2>2, <2>3 DEF ViewInv
<1> QED
  BY <1>1, InitIds DEF ViewsInv

\* With nothing under way no message is due: what a client knows is what is there.
LEMMA ViewsGiveExact == ViewsInv => ViewExact
<1> SUFFICES ASSUME ViewsInv, Quiet, NEW c \in Clients, cstate[c] = "listening"
             PROVE  /\ {id[d] : d \in registered \ Pairing} \subseteq view[c]
                    /\ view[c] \subseteq {id[d] : d \in registered}
  BY DEF ViewExact
<1>1. \A d \in Devices, op \in Calls : ~Due(c, d, op)
  BY DEF Quiet, InProgress, Due
<1>2. \A d \in Devices : ~InAnswer(c, d)
  BY DEF Quiet, InAnswer
<1> QED
  BY <1>1, <1>2, ViewFacts DEF ViewsInv, ViewInv, KnownInv, GoneInv

\* When nothing is under way, a listening client knows exactly the devices that are
\* there, for any number of devices and clients and also for devices that are
\* removed twice, as long as devices are added while none leaves (Muxer.cpp:413-458
\* and 513-535).
THEOREM ViewsStayExact == Spec /\ []Orderly /\ []OneEach => []ViewExact
<1>1. Orderly /\ OneEach <=> Premise
  BY DEF Premise
<1>2. Spec /\ []Orderly /\ []OneEach => []ViewsInv
  BY <1>1, InitViews, ViewsStep, PTL DEF Spec
<1> QED
  BY <1>2, ViewsGiveExact, PTL

-----------------------------------------------------------------------------
(* The bounds of the run without races give the premises. *)

OneRemoval == \A d \in Devices : \A a, b \in Removals[d] : a = b

OrderBounds == AddsAlone /\ ~EarlyDelete /\ OneRemoval

\* The bounds of the run keep calls orderly.
LEMMA OrderlyStep ==
  OrderBounds => (TypeInv /\ Orderly /\ [Next]_vars => Orderly')
<1> SUFFICES ASSUME OrderBounds, TypeInv, Orderly, [Next]_vars PROVE Orderly'
  OBVIOUS
<1> DEFINE Add(d) == call[d]["add"]
<1>0. /\ RemovalCalls \subseteq Calls /\ "add" \in Calls /\ "add" \notin RemovalCalls
      /\ \A op \in Calls : op = "add" \/ op \in RemovalCalls
      /\ \A d \in Devices : Removals[d] \subseteq RemovalCalls
  <2>1. \A d \in Devices : Removals[d] \subseteq RemovalCalls
    BY MuxerAssumption
  <2> QED
    BY <2>1 DEF Calls, RemovalCalls
<1>1. \A d \in Devices : Leaving(d) <=> \E op \in Removals[d] : InProgress(d, op)
  BY DEF Leaving, InProgress, OrderBounds, OneRemoval
<1>2. \A d \in Devices : Leaving(d)' <=> \E op \in Removals[d] : InProgress(d, op)'
  BY DEF Leaving, InProgress, OrderBounds, OneRemoval
\* What goes on stays within what was in progress.
<1>3. ASSUME \A d \in Devices, op \in Calls :
               \/ call'[d][op] = call[d][op]
               \/ InProgress(d, op) /\ call'[d][op] # "new"
      PROVE  Orderly'
  <2>1. \A d \in Devices, op \in Calls :
          /\ InProgress(d, op)' => InProgress(d, op)
          /\ call'[d][op] # "new" => call[d][op] # "new"
          /\ call[d][op] = "done" => call'[d][op] = "done"
    BY <1>3 DEF InProgress
  <2>2. \A d \in Devices : Leaving(d)' => Leaving(d)
    BY <1>0, <1>1, <1>2, <2>1
  <2> QED
    BY <1>0, <2>1, <2>2 DEF Orderly
<1>4. ASSUME NEW d \in Devices, AddPick(d) \/ AddInsert(d) PROVE Orderly'
  <2>1. PICK pc \in {"insert", "notify", "done"} : Goto(d, "add", pc)
    BY <1>4 DEF AddPick, AddInsert
  <2>2. InProgress(d, "add")
    BY <1>4 DEF AddPick, AddInsert, InProgress
  <2>3. \A e \in Devices, o \in Calls :
          call'[e][o] = IF e = d /\ o = "add" THEN pc ELSE call[e][o]
    BY <1>0, <2>1, GotoResult
  <2> QED
    BY <1>3, <2>2, <2>3
<1>5. ASSUME NEW d \in Devices, AddLookup(d) PROVE Orderly'
  <2>1. PICK pc \in {"pick", "insert"} : Goto(d, "add", pc)
    BY <1>5 DEF AddLookup
  <2>2. \A e \in Devices, o \in Calls :
          call'[e][o] = IF e = d /\ o = "add" THEN pc ELSE call[e][o]
    BY <1>0, <2>1, GotoResult
  <2>3. \A e \in Devices, o \in Calls : ~InProgress(e, o)
    BY <1>5 DEF AddLookup, MayStartAdd, OrderBounds
  <2>4. \A e \in Devices, o \in Calls : InProgress(e, o)' => e = d /\ o = "add"
    BY <2>2, <2>3 DEF InProgress
  <2>5. \A e \in Devices : ~Leaving(e)'
    BY <1>0, <1>2, <2>4
  <2>6. \A e \in Devices, o \in RemovalCalls : call'[e][o] # "new" => e # d /\ Add(e) = "done"
    BY <1>0, <1>5, <2>2 DEF AddLookup, OrderBounds, Orderly
  <2>7. \A e \in Devices, o \in RemovalCalls : call'[e][o] # "new" => Add(e)' = "done"
    BY <1>0, <2>2, <2>6
  <2> QED
    BY <1>0, <2>4, <2>5, <2>7 DEF Orderly
<1>6. ASSUME NEW d \in Devices, NEW op \in RemovalCalls,
             DeleteDevice(d) \/ DeleteMatching(d, op),
             Goto(d, op, "notify") \/ Goto(d, op, "done")
      PROVE  Orderly'
  <2>1. PICK pc \in {"notify", "done"} : Goto(d, op, pc)
    BY <1>6
  <2>2. \A e \in Devices, o \in Calls :
          call'[e][o] = IF e = d /\ o = op THEN pc ELSE call[e][o]
    BY <1>0, <2>1, GotoResult
  <2>3. Add(d) = "done" /\ \A e \in Devices : ~InProgress(e, "add")
    BY <1>6 DEF DeleteDevice, DeleteMatching, MayStartRemoval, OrderBounds
  <2>4. \A e \in Devices : Add(e)' = Add(e)
    BY <1>0, <2>2
  <2> QED
    BY <1>0, <2>2, <2>3, <2>4 DEF Orderly, InProgress
<1>7. ASSUME NEW d \in Devices, NEW op \in Calls, BeginNotify(d, op) \/ EndNotify(d, op)
      PROVE  Orderly'
  <2>1. PICK pc \in {"sending", "done"} : Goto(d, op, pc)
    BY <1>7 DEF BeginNotify, EndNotify
  <2>2. InProgress(d, op)
    BY <1>7 DEF BeginNotify, EndNotify, InProgress
  <2>3. \A e \in Devices, o \in Calls : call'[e][o] = IF e = d /\ o = op THEN pc ELSE call[e][o]
    BY <1>7, <2>1, GotoResult
  <2> QED
    BY <1>3, <2>2, <2>3
<1>8. ASSUME UNCHANGED call PROVE Orderly'
  BY <1>3, <1>8
<1>9. ASSUME NEW d \in Devices, NEW op \in Calls, NEW c \in Clients, NotifyClient(d, op, c)
      PROVE  Orderly'
  BY <1>8, <1>9 DEF NotifyClient
<1>10. ASSUME NEW c \in Clients,
             AddClient(c) \/ DeleteClient(c) \/ Listen(c) \/ BeginList(c) \/ EndList(c)
             \/ \E d \in Devices : ListDevice(c, d)
      PROVE  Orderly'
  BY <1>8, <1>10 DEF AddClient, DeleteClient, Listen, BeginList, EndList, ListDevice
<1>11. CASE UNCHANGED vars
  BY <1>8, <1>11 DEF vars
<1> QED
  BY <1>4, <1>5, <1>6, <1>7, <1>9, <1>10, <1>11, StepKinds

\* One phone for each serial and type is enough for OneEach.
OneObject ==
  \A d, e \in Devices : Serial[d] = Serial[e] /\ Conn[d] = Conn[e] => d = e

\* With the bounds of the run both hold without a premise: adds that run alone,
\* after which a device leaves by one call, keep the calls orderly (Muxer.cpp:120-190).
THEOREM BoundsSuffice ==
  OrderBounds /\ OneObject => (Spec => [](IdsSound /\ ViewExact))
<1> SUFFICES ASSUME OrderBounds, OneObject PROVE Spec => [](IdsSound /\ ViewExact)
  OBVIOUS
<1>1. Init => Orderly
  <2> SUFFICES ASSUME Init PROVE Orderly
    OBVIOUS
  <2>1. \A d \in Devices, op \in Calls : call[d][op] = "new"
    BY DEF Init
  <2> QED
    BY <2>1 DEF Orderly, InProgress, Calls
<1>2. Spec => []TypeInv
  BY InitTypes, TypeStep, PTL DEF Spec
<1>3. TypeInv /\ Orderly /\ [Next]_vars => Orderly'
  BY OrderlyStep
<1>4. Spec => []Orderly
  BY <1>1, <1>2, <1>3, PTL DEF Spec
<1>5. TypeInv => OneEach
  BY DEF TypeInv, TypeOK, OneEach, OneObject, Choosing
<1>6. Spec => []OneEach
  BY <1>2, <1>5, PTL
<1>7. Spec => []ViewsInv
  <2>1. Orderly /\ OneEach <=> Premise
    BY DEF Premise
  <2> QED
    BY <1>4, <1>6, <2>1, InitViews, ViewsStep, PTL DEF Spec
<1>8. ViewsInv /\ OneEach => IdsSound /\ ViewExact
  BY IdsGiveSound, ViewsGiveExact DEF ViewsInv
<1> QED
  BY <1>6, <1>7, <1>8, PTL
=============================================================================
