------------------------- MODULE RoomManagerProofs -------------------------
(***************************************************************************)
(* Proofs about the sync protocol of RoomManager.tla, for any number of    *)
(* clients, operations, connections and failures.                          *)
(***************************************************************************)
EXTENDS RoomManager, FiniteSetTheorems, TLAPS

-----------------------------------------------------------------------------
(* Types.  They are TypeOK with the operations produced so far in place of all
   operations: nothing else is ever stored, sent or shown, and there are
   finitely many of them, so that a room can count its batches. *)

BatchOf(P) == [seq : Nat, ops : SUBSET P]
StoreOf(P) == [latestSeq : Nat \cup {None}, snapshots : SUBSET BatchOf(P),
               rows : SUBSET [seq : Nat, op : P]]
RoomOf(P) == [ops : SUBSET P, seq : Nat, opsSinceSnapshot : Nat,
              opLog : SUBSET BatchOf(P), coverageFloor : Nat,
              sockets : [Clients -> Sockets \cup {None}]]
TaskOf(P) == [type : {"join", "op", "remote"}, proc : Procs,
              socket : Sockets \cup {None}, sinceSeq : Nat, ops : SUBSET P,
              pc : LoadPcs \cup OpPcs, room : Nat \cup {None}, seq : Nat,
              loaded : [latestSeq : Nat, snapshot : BatchOf(P)]]
MessageOf(P) == [type : {"join"}, sinceSeq : Nat] \cup
                [type : {"op"}, ops : SUBSET P]
ClientOf(P) == [view : SUBSET P, outbox : SUBSET P, lastAckedSeq : Nat,
                ws : Sockets \cup {None}]
SocketType == [proc : Procs \cup {None}, up : BOOLEAN, open : BOOLEAN,
               joined : BOOLEAN]

\* A task knows its socket and, once it is in a room, which one.
InItsRoom(t, D) ==
    /\ t.type # "remote" => t.socket \in Sockets
    /\ t.pc \in {"subscribe"} \cup OpPcs /\ t.type # "remote"
         => t.room \in D
    /\ t.type = "remote" => t.pc = "append"
    /\ t.pc \in OpPcs => t.type # "join"

TypedStore == store \in StoreOf(produced) /\ lastSeq \in Nat
TypedHeap == heap \in Seq(RoomOf(produced))
TypedRooms == rooms \in [Procs -> DOMAIN heap \cup {None}]
TypedBus == /\ handlers \in [Procs -> BOOLEAN]
            /\ inbox \in [Procs -> Seq(BatchOf(produced))]
TypedTasks == /\ tasks \subseteq TaskOf(produced)
              /\ \A t \in tasks : InItsRoom(t, DOMAIN heap)
TypedTick ==
    tick \in [Procs -> [pc : {"evict"}] \cup {None} \cup
                [pc : {"write"}, room : DOMAIN heap, atSeq : Nat,
                 state : SUBSET produced]]
TypedSockets == sockets \in [Sockets -> SocketType]
TypedWire ==
    /\ wire \in [Sockets -> Seq(MessageOf(produced))]
    /\ \A s \in Sockets : wire[s] # <<>> \/ sockets[s].open \/ sockets[s].up
                            => sockets[s].proc \in Procs
TypedClient == client \in [Clients -> ClientOf(produced)]
TypedHistory == /\ produced \subseteq Ops /\ IsFiniteSet(produced)
                /\ acked \subseteq produced
                /\ faults \in Nat /\ evictions \in Nat

Typed ==
    /\ TypedStore /\ TypedHeap /\ TypedRooms /\ TypedBus /\ TypedTasks
    /\ TypedTick /\ TypedSockets /\ TypedWire /\ TypedClient /\ TypedHistory

-----------------------------------------------------------------------------
(* What the operators of the components return *)

\* Finitely many operations can be counted, as opsSinceSnapshot does.
LEMMA FiniteBatches ==
    ASSUME NEW P, IsFiniteSet(P), NEW S \in SUBSET P
    PROVE  Cardinality(S) \in Nat
BY FS_Subset, FS_CardinalityType

\* The operations of batches are among those the batches are made of.
LEMMA OpsOfType ==
    ASSUME NEW P, NEW batches \in SUBSET BatchOf(P)
    PROVE  OpsOf(batches) \in SUBSET P
BY DEF OpsOf, BatchOf

\* hydrate makes a room, with the counted batches as its log.
LEMMA HydrateType ==
    ASSUME NEW P, IsFiniteSet(P), NEW snap \in BatchOf(P),
           NEW batches \in SUBSET BatchOf(P), NEW latest \in Nat
    PROVE  hydrate(snap, batches, latest) \in RoomOf(P)
<1>1. OpsOf(batches) \in SUBSET P
  BY OpsOfType
<1>2. Cardinality(OpsOf(batches)) \in Nat
  BY <1>1, FiniteBatches
<1>3. NoSockets \in [Clients -> Sockets \cup {None}]
  BY DEF NoSockets
<1> QED
  BY <1>1, <1>2, <1>3 DEF hydrate, RoomOf, BatchOf

\* getOpsSince answers with produced operations or with None.
LEMMA GetOpsSinceType ==
    ASSUME NEW P, NEW room \in RoomOf(P), NEW n \in Nat,
           getOpsSince(room, n) # None
    PROVE  getOpsSince(room, n) \in SUBSET P
<1>1. {b \in room.opLog : b.seq > n} \in SUBSET BatchOf(P)
  BY DEF RoomOf
<1>2. OpsOf({b \in room.opLog : b.seq > n}) \in SUBSET P
  BY <1>1, OpsOfType
<1> QED
  BY <1>2 DEF getOpsSince

\* The state that a snapshot takes is a part of the room's operations.
LEMMA SnapshotType ==
    ASSUME NEW P, NEW room \in RoomOf(P)
    PROVE  snapshot(room) \in SUBSET P
BY DEF snapshot, Integrated, RoomOf

\* applyOps leaves a room, whose count stays a number.
LEMMA ApplyOpsType ==
    ASSUME NEW P, IsFiniteSet(P), NEW room \in RoomOf(P), NEW ops \in SUBSET P,
           NEW seq \in Nat
    PROVE  /\ applyOps(room, ops, seq) \in RoomOf(P)
           /\ applyOps(room, ops, seq).ops = room.ops \cup ops
           /\ applyOps(room, ops, seq).seq = seq
           /\ applyOps(room, ops, seq).opLog
                = room.opLog \cup {[seq |-> seq, ops |-> ops]}
           /\ applyOps(room, ops, seq).coverageFloor = room.coverageFloor
           /\ applyOps(room, ops, seq).sockets = room.sockets
<1>1. Cardinality(ops) \in Nat
  BY FiniteBatches
<1>2. room.opLog \cup {[seq |-> seq, ops |-> ops]} \in SUBSET BatchOf(P)
  BY DEF BatchOf, RoomOf
<1>3. room.opsSinceSnapshot + Cardinality(ops) \in Nat
  BY <1>1 DEF RoomOf
<1>4. room.ops \cup ops \in SUBSET P
  BY DEF RoomOf
<1> DEFINE a == room.ops \cup ops
           n == room.opsSinceSnapshot + Cardinality(ops)
           log == room.opLog \cup {[seq |-> seq, ops |-> ops]}
<1>5. applyOps(room, ops, seq) = [room EXCEPT !.ops = a, !.seq = seq,
                                    !.opsSinceSnapshot = n, !.opLog = log]
  BY DEF applyOps
<1>6. a \in SUBSET P /\ n \in Nat /\ log \in SUBSET BatchOf(P)
  BY <1>2, <1>3, <1>4
<1> HIDE DEF a, n, log
<1>7. applyOps(room, ops, seq) \in RoomOf(P)
  BY <1>5, <1>6 DEF RoomOf
<1>8. /\ applyOps(room, ops, seq).ops = a
      /\ applyOps(room, ops, seq).seq = seq
      /\ applyOps(room, ops, seq).opLog = log
      /\ applyOps(room, ops, seq).coverageFloor = room.coverageFloor
      /\ applyOps(room, ops, seq).sockets = room.sockets
  BY <1>5 DEF RoomOf
<1> QED
  BY <1>7, <1>8 DEF a, log

\* What applyOps does to each field of a room.
LEMMA ApplyOpsFields ==
    ASSUME NEW P, NEW room \in RoomOf(P), NEW ops, NEW seq
    PROVE  /\ applyOps(room, ops, seq).ops = room.ops \cup ops
           /\ applyOps(room, ops, seq).seq = seq
           /\ applyOps(room, ops, seq).opLog
                = room.opLog \cup {[seq |-> seq, ops |-> ops]}
           /\ applyOps(room, ops, seq).coverageFloor = room.coverageFloor
           /\ applyOps(room, ops, seq).sockets = room.sockets
BY DEF applyOps, RoomOf

\* advanceCoverageFloor leaves a room.
LEMMA AdvanceType ==
    ASSUME NEW P, NEW room \in RoomOf(P), NEW n \in Nat
    PROVE  /\ advanceCoverageFloor(room, n) \in RoomOf(P)
           /\ advanceCoverageFloor(room, n).ops = room.ops
           /\ advanceCoverageFloor(room, n).seq = room.seq
           /\ advanceCoverageFloor(room, n).opLog = {b \in room.opLog : b.seq > n}
           /\ advanceCoverageFloor(room, n).coverageFloor = n
           /\ advanceCoverageFloor(room, n).sockets = room.sockets
BY DEF advanceCoverageFloor, RoomOf

\* Joining and leaving leave a room, with a socket or None per client.
LEMMA JoinLeaveType ==
    ASSUME NEW P, NEW room \in RoomOf(P), NEW c \in Clients, NEW s \in Sockets
    PROVE  /\ joinRoom(room, c, s) \in RoomOf(P)
           /\ joinRoom(room, c, s).ops = room.ops
           /\ joinRoom(room, c, s).seq = room.seq
           /\ joinRoom(room, c, s).opLog = room.opLog
           /\ joinRoom(room, c, s).coverageFloor = room.coverageFloor
           /\ joinRoom(room, c, s).sockets = [room.sockets EXCEPT ![c] = s]
           /\ leaveRoom(room, c, s) \in RoomOf(P)
           /\ leaveRoom(room, c, s).ops = room.ops
           /\ leaveRoom(room, c, s).seq = room.seq
           /\ leaveRoom(room, c, s).opLog = room.opLog
           /\ leaveRoom(room, c, s).coverageFloor = room.coverageFloor
           /\ leaveRoom(room, c, s).sockets = [room.sockets EXCEPT ![c] =
                                                 IF @ = s THEN None ELSE @]
BY DEF joinRoom, leaveRoom, RoomOf

\* The transactions and queries of the store keep to its tables' types.
LEMMA StoreOps ==
    ASSUME NEW P \in SUBSET Ops, NEW st \in StoreOf(P), NEW n \in Nat, NEW S \in SUBSET P
    PROVE  /\ appendOps(st, n, S) \in StoreOf(P)
           /\ writeSnapshot(st, n, S) \in StoreOf(P)
           /\ latestSnapshots(st) \in SUBSET BatchOf(P)
           /\ batchesAfter(st, n) \in SUBSET BatchOf(P)
<1>1. appendOps(st, n, S) \in StoreOf(P)
  <2> DEFINE taken == KeysOf({row.op : row \in st.rows})
             latest == IF st.latestSeq = None \/ st.latestSeq < n THEN n
                       ELSE st.latestSeq
             new == {[seq |-> n, op |-> op] :
                       op \in {o \in S : KeyOf[o] \notin taken}}
  <2>1. latest \in Nat \cup {None}
    BY DEF StoreOf
  <2>2. st.rows \cup new \in SUBSET [seq : Nat, op : P]
    <3>1. ASSUME NEW op \in S
          PROVE  [seq |-> n, op |-> op] \in [seq : Nat, op : P]
      OBVIOUS
    <3>2. new \in SUBSET [seq : Nat, op : P]
      BY <3>1
    <3> HIDE DEF new
    <3> QED
      BY <3>2 DEF StoreOf
  <2>3. appendOps(st, n, S) = [latestSeq |-> latest, snapshots |-> st.snapshots,
                               rows |-> st.rows \cup new]
    <3>1. appendOps(st, n, S)
            = [st EXCEPT !.latestSeq = latest, !.rows = st.rows \cup new]
      BY DEF appendOps
    <3> HIDE DEF latest, new
    <3> QED
      BY <3>1 DEF StoreOf
  <2>4. st.snapshots \in SUBSET BatchOf(P)
    BY DEF StoreOf
  <2> HIDE DEF latest, new
  <2> QED
    BY <2>1, <2>2, <2>3, <2>4 DEF StoreOf
<1>2. writeSnapshot(st, n, S) \in StoreOf(P)
  <2>1. [seq |-> n, ops |-> S] \in BatchOf(P)
    BY DEF BatchOf
  <2> QED
    BY <2>1 DEF writeSnapshot, StoreOf
<1>3. latestSnapshots(st) \in SUBSET BatchOf(P)
  BY DEF latestSnapshots, StoreOf, BatchOf
<1>4. batchesAfter(st, n) \in SUBSET BatchOf(P)
  BY DEF batchesAfter, StoreOf, BatchOf
<1> QED
  BY <1>1, <1>2, <1>3, <1>4

\* The handlers of the client keep its fields in their types.
LEMMA ClientOps ==
    ASSUME NEW P, NEW cl \in ClientOf(P), NEW n \in Nat, NEW S \in SUBSET P,
           NEW keys, NEW op \in P
    PROVE  /\ edited(cl, op) \in ClientOf(P)
           /\ onSync(cl, n, S) \in ClientOf(P)
           /\ onSnapshot(cl, n, S) \in ClientOf(P)
           /\ onBroadcast(cl, S) \in ClientOf(P)
           /\ onAck(cl, n, keys) \in ClientOf(P)
<1>1. edited(cl, op) \in ClientOf(P)
  BY DEF edited, ClientOf
<1>2. onSync(cl, n, S) \in ClientOf(P) /\ onBroadcast(cl, S) \in ClientOf(P)
  BY DEF onSync, onBroadcast, ClientOf
<1>3. onSnapshot(cl, n, S) \in ClientOf(P)
  BY DEF onSnapshot, ClientOf
<1>4. onAck(cl, n, keys) \in ClientOf(P)
  BY DEF onAck, ClientOf
<1> QED
  BY <1>1, <1>2, <1>3, <1>4

\* flushOutbox sends messages of operations of the outbox.
LEMMA FlushType ==
    ASSUME NEW P, NEW cl \in ClientOf(P)
    PROVE  flushOutbox(cl) \in Seq(MessageOf(P))
<1>1. [type |-> "op", ops |-> cl.outbox] \in MessageOf(P)
  BY DEF ClientOf, MessageOf
<1> QED
  BY <1>1 DEF flushOutbox

\* The heap is a sequence: a room that is replaced and one that is added.
LEMMA HeapUpdate ==
    ASSUME NEW T, NEW h \in Seq(T), NEW i \in DOMAIN h, NEW r \in T
    PROVE  /\ [h EXCEPT ![i] = r] \in Seq(T)
           /\ DOMAIN [h EXCEPT ![i] = r] = DOMAIN h
OBVIOUS

\* A heap that grows by a room keeps the rooms it has.
LEMMA HeapAppend ==
    ASSUME NEW T, NEW h \in Seq(T), NEW r \in T
    PROVE  /\ Append(h, r) \in Seq(T)
           /\ DOMAIN Append(h, r) = DOMAIN h \cup {Len(h) + 1}
           /\ Len(h) + 1 \in Nat /\ Len(h) + 1 \notin DOMAIN h
           /\ \A i \in DOMAIN h : Append(h, r)[i] = h[i]
           /\ Append(h, r)[Len(h) + 1] = r
OBVIOUS

\* An element of a sequence of type T is of type T.
LEMMA HeapElement ==
    ASSUME NEW T, NEW h \in Seq(T), NEW i \in DOMAIN h
    PROVE  h[i] \in T
OBVIOUS

\* The types grow with the set of operations.
LEMMA TypesGrow ==
    ASSUME NEW P, NEW Q, P \subseteq Q
    PROVE  /\ BatchOf(P) \subseteq BatchOf(Q)
           /\ StoreOf(P) \subseteq StoreOf(Q)
           /\ Seq(RoomOf(P)) \subseteq Seq(RoomOf(Q))
           /\ Seq(BatchOf(P)) \subseteq Seq(BatchOf(Q))
           /\ TaskOf(P) \subseteq TaskOf(Q)
           /\ Seq(MessageOf(P)) \subseteq Seq(MessageOf(Q))
           /\ ClientOf(P) \subseteq ClientOf(Q)
<1>1. BatchOf(P) \subseteq BatchOf(Q)
  BY DEF BatchOf
<1>2. StoreOf(P) \subseteq StoreOf(Q)
  BY <1>1 DEF StoreOf
<1>3. RoomOf(P) \subseteq RoomOf(Q)
  BY <1>1 DEF RoomOf
<1>4. MessageOf(P) \subseteq MessageOf(Q)
  BY DEF MessageOf
<1>5. TaskOf(P) \subseteq TaskOf(Q)
  BY <1>1 DEF TaskOf
<1>6. ClientOf(P) \subseteq ClientOf(Q)
  BY DEF ClientOf
<1>7. ASSUME NEW S, NEW T, S \subseteq T PROVE Seq(S) \subseteq Seq(T)
  BY <1>7
<1> QED
  BY <1>1, <1>2, <1>3, <1>4, <1>5, <1>6, <1>7

\* The number of a client's connections, by which the next one is numbered.
LEMMA ConnsOfType ==
    ASSUME NEW c \in Clients
    PROVE  /\ ConnsOf(c) \in Nat
           /\ IsFiniteSet({s \in Sockets : clientOf(s) = c
                                          /\ sockets[s].proc # None})
<1> DEFINE mine == {s \in Sockets : clientOf(s) = c /\ sockets[s].proc # None}
           all == {c} \X (1..MaxConns[c])
<1>1. IsFiniteSet(all)
  <2>1. IsFiniteSet(1..MaxConns[c])
    BY FS_Interval, RoomManagerAssumption
  <2>2. IsFiniteSet({c})
    BY FS_Singleton
  <2> QED
    BY <2>1, <2>2, FS_Product
<1>2. mine \subseteq all
  BY DEF Sockets, clientOf
<1> QED
  BY <1>1, <1>2, FS_Subset, FS_CardinalityType DEF ConnsOf

-----------------------------------------------------------------------------
(* Every step keeps the types *)

\* None, which stands for no socket and no room, is neither.
LEMMA NoneIsNone == None \notin Nat
BY OpSetsAssumption

\* The initial state is typed.
LEMMA TypedInit == Init => Typed
<1> SUFFICES ASSUME Init PROVE Typed
  OBVIOUS
<1> USE DEF Init
<1>1. TypedStore
  BY DEF TypedStore, EmptyStore, StoreOf
<1>2. TypedHeap /\ TypedRooms /\ TypedTick /\ TypedBus
  BY DEF TypedHeap, TypedRooms, TypedTick, TypedBus
<1>3. TypedTasks
  BY DEF TypedTasks
<1>4. TypedSockets /\ TypedWire
  BY DEF TypedSockets, TypedWire, SocketType, NoSocket
<1>5. TypedClient
  BY DEF TypedClient, ClientOf, NewClient
<1>6. TypedHistory
  BY FS_EmptySet DEF TypedHistory
<1> QED
  BY <1>1, <1>2, <1>3, <1>4, <1>5, <1>6 DEF Typed

\* Connect keeps the types: the client has a connection left to use.
LEMMA TypedConnect ==
    ASSUME Typed, NEW c \in Clients, NEW p \in Procs, Connect(c, p)
    PROVE  Typed'
<1> DEFINE s == <<c, ConnsOf(c) + 1>>
<1> USE DEF Typed
<1>1. s \in Sockets
  <2> DEFINE n == ConnsOf(c)
  <2>1. n \in Nat
    BY ConnsOfType
  <2>2. n < MaxConns[c] /\ MaxConns[c] \in Nat
    BY RoomManagerAssumption DEF Connect
  <2> HIDE DEF n
  <2>3. n + 1 \in 1..MaxConns[c]
    BY <2>1, <2>2
  <2>4. <<c, n + 1>> \in Sockets
    BY <2>3 DEF Sockets
  <2> QED
    BY <2>4 DEF n
<1>2. client[c].lastAckedSeq \in Nat
  BY DEF TypedClient, ClientOf
<1>3. <<[type |-> "join", sinceSeq |-> client[c].lastAckedSeq]>>
        \in Seq(MessageOf(produced))
  BY <1>2 DEF MessageOf
<1>4. TypedSockets' /\ TypedWire'
  BY <1>1, <1>3 DEF Connect, TypedSockets, SocketType, TypedWire
<1>5. TypedClient'
  BY <1>1 DEF Connect, TypedClient, ClientOf
<1>6. UNCHANGED <<store, lastSeq, serverVars, produced, acked, boundVars>>
  BY DEF Connect
<1>7. TypedStore' /\ TypedHeap' /\ TypedRooms' /\ TypedBus' /\ TypedTick'
      /\ TypedHistory'
  BY <1>6 DEF serverVars, boundVars, TypedStore, TypedHeap, TypedRooms, TypedBus,
              TypedTick, TypedHistory
<1>8. TypedTasks'
  BY <1>6 DEF serverVars, TypedTasks, InItsRoom
<1> QED
  BY <1>4, <1>5, <1>7, <1>8

\* The parts of the types that a step which changes none of their variables
\* keeps.
LEMMA FrameServer ==
    ASSUME Typed, UNCHANGED <<store, lastSeq, serverVars, produced>>
    PROVE  TypedStore' /\ TypedHeap' /\ TypedRooms' /\ TypedBus' /\ TypedTasks'
           /\ TypedTick'
BY DEF Typed, serverVars, TypedStore, TypedHeap, TypedRooms, TypedBus, TypedTick,
       TypedTasks, InItsRoom

\* A step that leaves the clients alone.
LEMMA FrameClients ==
    ASSUME Typed, UNCHANGED <<client, produced>>
    PROVE  TypedClient'
BY DEF Typed, TypedClient

\* A step that leaves the sockets and their wires alone.
LEMMA FrameNet ==
    ASSUME Typed, UNCHANGED <<sockets, wire, produced>>
    PROVE  TypedSockets' /\ TypedWire'
BY DEF Typed, TypedSockets, TypedWire

\* A step that produces and acks nothing, and may be a failure.
LEMMA FrameHistory ==
    ASSUME Typed, UNCHANGED <<produced, acked>>,
           Works \/ \E kind \in Faults : Fails(kind)
    PROVE  TypedHistory'
BY DEF Typed, TypedHistory, Works, Fails, boundVars

\* An edit adds one operation to what is produced: the types grow with it.
LEMMA TypedApplyLocalEdits ==
    ASSUME Typed, NEW c \in Clients, NEW op \in Ops, ApplyLocalEdits(c, op)
    PROVE  Typed'
<1> DEFINE s == client[c].ws
<1> USE DEF Typed
<1>1. produced' = produced \cup {op} /\ produced \subseteq produced'
      /\ op \in produced'
  BY DEF ApplyLocalEdits
<1>2. UNCHANGED <<store, lastSeq, serverVars, sockets, acked, boundVars>>
  BY DEF ApplyLocalEdits
<1>3. TypedStore' /\ TypedHeap' /\ TypedBus'
  BY <1>1, <1>2, TypesGrow DEF serverVars, TypedStore, TypedHeap, TypedBus
<1>4. TypedRooms' /\ TypedTick'
  BY <1>1, <1>2 DEF serverVars, TypedRooms, TypedTick
<1>5. TypedTasks'
  BY <1>1, <1>2, TypesGrow DEF serverVars, TypedTasks, InItsRoom
<1>6. TypedSockets'
  BY <1>2 DEF TypedSockets
<1>7. [type |-> "op", ops |-> {op}] \in MessageOf(produced')
  BY <1>1 DEF MessageOf
<1>8. TypedWire'
  <2>1. wire \in [Sockets -> Seq(MessageOf(produced'))]
    BY <1>1, TypesGrow DEF TypedWire
  <2>2. CASE Up(s)
    <3>1. s \in Sockets
      BY <2>2 DEF Up, TypedClient, ClientOf
    <3>2. wire' = [wire EXCEPT ![s] = Append(@, [type |-> "op", ops |-> {op}])]
      BY <2>2 DEF ApplyLocalEdits
    <3>3. wire' \in [Sockets -> Seq(MessageOf(produced'))]
      BY <1>7, <2>1, <3>1, <3>2
    <3>4. sockets[s].up
      BY <2>2 DEF Up
    <3> QED
      BY <1>2, <3>1, <3>2, <3>3, <3>4 DEF TypedWire
  <2>3. CASE ~Up(s)
    <3>1. wire' = wire
      BY <2>3 DEF ApplyLocalEdits
    <3> QED
      BY <1>2, <2>1, <3>1 DEF TypedWire
  <2> QED
    BY <2>2, <2>3
<1>9. TypedClient'
  <2>1. client \in [Clients -> ClientOf(produced')]
    BY <1>1, TypesGrow DEF TypedClient
  <2>2. edited(client[c], op) \in ClientOf(produced')
    BY <1>1, <2>1, ClientOps
  <2>3. client' = [client EXCEPT ![c] = edited(client[c], op)]
    BY DEF ApplyLocalEdits
  <2> QED
    BY <2>1, <2>2, <2>3 DEF TypedClient
<1>10. TypedHistory'
  <2>1. IsFiniteSet(produced')
    BY <1>1, FS_AddElement DEF TypedHistory
  <2> QED
    BY <1>1, <1>2, <2>1 DEF TypedHistory, boundVars
<1> QED
  BY <1>3, <1>4, <1>5, <1>6, <1>8, <1>9, <1>10

\* Break keeps the types.
LEMMA TypedBreak ==
    ASSUME Typed, NEW s \in Sockets, Break(s)
    PROVE  Typed'
<1> USE DEF Typed
<1>1. UNCHANGED <<store, lastSeq, serverVars, clientVars, wire>>
  BY DEF Break
<1>2. TypedSockets' /\ TypedWire'
  BY <1>1 DEF Break, clientVars, TypedSockets, TypedWire, SocketType
<1>3. TypedHistory'
  <2>1. Works \/ \E kind \in Faults : Fails(kind)
    BY DEF Break
  <2> QED
    BY <1>1, <2>1, FrameHistory DEF clientVars
<1> QED
  BY <1>1, <1>2, <1>3, FrameServer, FrameClients DEF clientVars

\* ClientClose keeps the types.
LEMMA TypedClientClose ==
    ASSUME Typed, NEW c \in Clients, ClientClose(c)
    PROVE  Typed'
<1> USE DEF Typed
<1>1. UNCHANGED <<store, lastSeq, serverVars, produced, acked, netVars,
                  boundVars>>
  BY DEF ClientClose
<1>2. TypedClient'
  BY <1>1 DEF ClientClose, TypedClient, ClientOf
<1> QED
  BY <1>1, <1>2, FrameServer, FrameNet, FrameHistory DEF netVars, Works

\* ServerClose keeps the types, with the leave it may end in.
LEMMA TypedServerClose ==
    ASSUME Typed, NEW s \in Sockets, ServerClose(s)
    PROVE  Typed'
<1> USE DEF Typed
<1>1. UNCHANGED <<store, lastSeq, rooms, handlers, inbox, tasks, tick,
                  clientVars, boundVars>>
  BY DEF ServerClose
<1>2. TypedSockets' /\ TypedWire'
  <2>1. /\ sockets' = [sockets EXCEPT ![s].open = FALSE]
        /\ wire' = [wire EXCEPT ![s] = <<>>]
    BY DEF ServerClose
  <2>2. TypedSockets'
    BY <2>1 DEF TypedSockets, SocketType
  <2>3. wire' \in [Sockets -> Seq(MessageOf(produced))]
    BY <2>1 DEF TypedWire
  <2>4. \A t \in Sockets : /\ sockets'[t].proc = sockets[t].proc
                           /\ sockets'[t].up => sockets[t].up
                           /\ sockets'[t].open => sockets[t].open
                           /\ wire'[t] # <<>> => wire[t] # <<>>
    BY <2>1 DEF TypedSockets, SocketType, TypedWire
  <2>5. produced' = produced
    BY <1>1 DEF clientVars
  <2>6. \A t \in Sockets : wire'[t] # <<>> \/ sockets'[t].open \/ sockets'[t].up
                            => sockets'[t].proc \in Procs
    BY <2>4 DEF TypedWire
  <2> QED
    BY <2>2, <2>3, <2>5, <2>6 DEF TypedWire
<1>3. TypedHeap' /\ DOMAIN heap' = DOMAIN heap
  <2>1. CASE heap' = heap
    BY <1>1, <2>1 DEF TypedHeap, clientVars
  <2>2. CASE sockets[s].joined /\ rooms[sockets[s].proc] # None
    <3> DEFINE i == rooms[sockets[s].proc]
    <3>1. i \in DOMAIN heap
      BY <2>2 DEF ServerClose, TypedWire, TypedRooms
    <3>2. heap[i] \in RoomOf(produced)
      BY <3>1, HeapElement DEF TypedHeap
    <3>3. clientOf(s) \in Clients
      BY DEF Sockets, clientOf
    <3>4. leaveRoom(heap[i], clientOf(s), s) \in RoomOf(produced)
      BY <3>2, <3>3, JoinLeaveType
    <3>5. heap' = [heap EXCEPT ![i] = leaveRoom(heap[i], clientOf(s), s)]
      BY <2>2 DEF ServerClose, leave
    <3> QED
      BY <1>1, <3>1, <3>4, <3>5, HeapUpdate DEF TypedHeap, clientVars
  <2> QED
    BY <2>1, <2>2 DEF ServerClose, leave
<1>4. TypedStore' /\ TypedRooms' /\ TypedBus' /\ TypedTick'
  BY <1>1, <1>3 DEF clientVars, TypedStore, TypedRooms, TypedBus, TypedTick
<1>5. TypedTasks'
  BY <1>1, <1>3 DEF clientVars, TypedTasks, InItsRoom
<1> QED
  BY <1>1, <1>2, <1>3, <1>4, <1>5, FrameClients, FrameHistory
  DEF clientVars, Works

\* A socket's client is a client.
LEMMA ClientOfType ==
    ASSUME NEW s \in Sockets PROVE clientOf(s) \in Clients
BY DEF Sockets, clientOf

\* The join of a socket, by either of its callers.
LEMMA TypedJoinRoom ==
    ASSUME Typed, NEW s \in Sockets, NEW i \in DOMAIN heap, NEW k \in Nat,
           NEW rest \in Seq(MessageOf(produced)),
           rest # <<>> => sockets[s].proc \in Procs,
           UNCHANGED produced,
           JoinRoom(s, i, k, rest)
    PROVE  /\ TypedHeap' /\ DOMAIN heap' = DOMAIN heap
           /\ TypedSockets' /\ TypedWire' /\ TypedClient'
<1> DEFINE c == clientOf(s)
           room == heap[i]
           missed == getOpsSince(room, k)
           caughtUp == IF missed # None
                       THEN onSync(client[c], room.seq, missed)
                       ELSE onSnapshot(client[c], room.seq, snapshot(room))
           previous == room.sockets[c]
<1> USE DEF Typed
<1>1. c \in Clients
  BY ClientOfType
<1>2. room \in RoomOf(produced) /\ room.seq \in Nat
  <2>1. room \in RoomOf(produced)
    BY HeapElement DEF TypedHeap
  <2> QED
    BY <2>1 DEF RoomOf
<1>3. client[c] \in ClientOf(produced)
  BY <1>1 DEF TypedClient
<1>4. caughtUp \in ClientOf(produced)
  <2>1. CASE missed # None
    BY <1>2, <1>3, <2>1, GetOpsSinceType DEF onSync, ClientOf
  <2>2. CASE missed = None
    BY <1>2, <1>3, <2>2, SnapshotType DEF onSnapshot, ClientOf
  <2> QED
    BY <2>1, <2>2
<1>5. TypedHeap' /\ DOMAIN heap' = DOMAIN heap
  <2>1. joinRoom(room, c, s) \in RoomOf(produced)
    BY <1>1, <1>2, JoinLeaveType
  <2>2. heap' = [heap EXCEPT ![i] = joinRoom(room, c, s)]
    BY DEF JoinRoom
  <2> QED
    BY <2>1, <2>2, HeapUpdate DEF TypedHeap
<1>6. /\ sockets' = [t \in Sockets |->
             CASE t = s -> [sockets[t] EXCEPT !.joined = TRUE]
               [] t = previous /\ t # s -> [sockets[t] EXCEPT !.up = FALSE]
               [] OTHER -> sockets[t]]
      /\ Up(s) => client' = [client EXCEPT ![c] = caughtUp]
                  /\ wire' = [wire EXCEPT ![s] = rest \o flushOutbox(caughtUp)]
      /\ ~Up(s) => client' = client /\ wire' = [wire EXCEPT ![s] = rest]
  BY DEF JoinRoom
<1>7. TypedSockets'
  BY <1>6 DEF TypedSockets, SocketType
<1>8. \A t \in Sockets : /\ sockets'[t].proc = sockets[t].proc
                         /\ sockets'[t].open = sockets[t].open
                         /\ sockets'[t].up => sockets[t].up
  BY <1>6 DEF TypedSockets, SocketType
<1>9. flushOutbox(caughtUp) \in Seq(MessageOf(produced))
  BY <1>4, FlushType
<1> HIDE DEF caughtUp, missed, room, previous
<1>10. TypedClient'
  BY <1>1, <1>4, <1>6 DEF TypedClient
<1>11. TypedWire'
  <2>1. \E m \in Seq(MessageOf(produced)) :
          /\ wire' = [wire EXCEPT ![s] = m]
          /\ m # <<>> => sockets[s].proc \in Procs
    <3>1. CASE Up(s)
      <4>1. sockets[s].proc \in Procs
        BY <3>1 DEF Up, TypedWire
      <4>2. rest \o flushOutbox(caughtUp) \in Seq(MessageOf(produced))
        BY <1>9
      <4> QED
        BY <1>6, <3>1, <4>1, <4>2
    <3>2. CASE ~Up(s)
      BY <1>6, <3>2
    <3> QED
      BY <3>1, <3>2
  <2> QED
    BY <1>8, <2>1 DEF TypedWire
<1> QED
  BY <1>5, <1>7, <1>10, <1>11

\* The tasks' part of the types, when one task is replaced or done.
LEMMA TypedTasksStep ==
    ASSUME TypedTasks, NEW u \in TaskOf(produced), UNCHANGED produced,
           DOMAIN heap \subseteq DOMAIN heap', InItsRoom(u, DOMAIN heap'),
           tasks' \subseteq tasks \cup {u}
    PROVE  TypedTasks'
<1>1. ASSUME NEW t \in tasks
      PROVE  t \in TaskOf(produced) /\ InItsRoom(t, DOMAIN heap')
  BY DEF TypedTasks, InItsRoom
<1> QED
  BY <1>1 DEF TypedTasks

\* A new task that has read nothing yet.
LEMMA NewTaskType ==
    ASSUME NEW P, NEW type \in {"join", "op"}, NEW p \in Procs,
           NEW s \in Sockets, NEW k \in Nat, NEW ops \in SUBSET P, NEW D
    PROVE  newTask(type, p, s, k, ops) \in TaskOf(P)
           /\ InItsRoom(newTask(type, p, s, k, ops), D)
<1>1. NothingLoaded \in [latestSeq : Nat, snapshot : BatchOf(P)]
  BY DEF NothingLoaded, BatchOf
<1>2. newTask(type, p, s, k, ops) \in TaskOf(P)
  BY <1>1 DEF newTask, TaskOf, LoadPcs
<1> QED
  BY <1>2 DEF newTask, InItsRoom, OpPcs

\* The first message of a socket and what is left of its wire.
LEMMA WireHead ==
    ASSUME Typed, NEW s \in Sockets, wire[s] # <<>>
    PROVE  /\ sockets[s].proc \in Procs
           /\ Head(wire[s]) \in MessageOf(produced)
           /\ Tail(wire[s]) \in Seq(MessageOf(produced))
           /\ Head(wire[s]).type = "join" => Head(wire[s]).sinceSeq \in Nat
           /\ Head(wire[s]).type = "op"
                => Head(wire[s]).ops \in SUBSET produced
<1>1. sockets[s].proc \in Procs /\ wire[s] \in Seq(MessageOf(produced))
  BY DEF Typed, TypedWire
<1>2. /\ Head(wire[s]) \in MessageOf(produced)
      /\ Tail(wire[s]) \in Seq(MessageOf(produced))
  BY <1>1
<1> QED
  BY <1>1, <1>2 DEF MessageOf

\* A message is taken off a wire.
LEMMA FrameTail ==
    ASSUME Typed, NEW s \in Sockets, wire[s] # <<>>,
           UNCHANGED <<sockets, produced>>,
           wire' = [wire EXCEPT ![s] = Tail(@)]
    PROVE  TypedSockets' /\ TypedWire'
BY WireHead DEF Typed, TypedSockets, TypedWire

\* DispatchJoin keeps the types, with a room and without one.
LEMMA TypedDispatchJoin ==
    ASSUME Typed, NEW s \in Sockets, DispatchJoin(s)
    PROVE  Typed'
<1> DEFINE p == sockets[s].proc
           k == Head(wire[s]).sinceSeq
<1> USE DEF Typed
<1>1. wire[s] # <<>> /\ Head(wire[s]).type = "join"
  BY DEF DispatchJoin
<1>2. p \in Procs /\ k \in Nat /\ Tail(wire[s]) \in Seq(MessageOf(produced))
  BY <1>1, WireHead
<1>3. UNCHANGED <<store, lastSeq, rooms, handlers, inbox, tick, produced, acked,
                  boundVars>>
  BY DEF DispatchJoin
<1>4. TypedHistory' /\ TypedStore' /\ TypedBus'
  BY <1>3, FrameHistory DEF Works, TypedStore, TypedBus
<1>5. CASE rooms[p] # None
  <2>1. rooms[p] \in DOMAIN heap
    BY <1>2, <1>5 DEF TypedRooms
  <2>2. JoinRoom(s, rooms[p], k, Tail(wire[s])) /\ tasks' = tasks
    BY <1>5 DEF DispatchJoin
  <2>3. /\ TypedHeap' /\ DOMAIN heap' = DOMAIN heap
        /\ TypedSockets' /\ TypedWire' /\ TypedClient'
    BY <1>2, <1>3, <2>1, <2>2, TypedJoinRoom
  <2>4. TypedRooms' /\ TypedTick' /\ TypedTasks'
    BY <1>3, <2>2, <2>3 DEF TypedRooms, TypedTick, TypedTasks, InItsRoom
  <2> QED
    BY <1>4, <2>3, <2>4
<1>6. CASE rooms[p] = None
  <2> DEFINE t == newTask("join", p, s, k, {})
  <2>1. /\ tasks' = tasks \cup {t} /\ wire' = [wire EXCEPT ![s] = Tail(@)]
        /\ UNCHANGED <<heap, sockets, client>>
    BY <1>6 DEF DispatchJoin
  <2>2. t \in TaskOf(produced) /\ InItsRoom(t, DOMAIN heap)
    BY <1>2, NewTaskType
  <2>3. TypedTasks'
    BY <1>3, <2>1, <2>2 DEF TypedTasks, InItsRoom
  <2>4. TypedHeap' /\ TypedRooms' /\ TypedTick' /\ TypedClient'
    BY <1>3, <2>1 DEF TypedHeap, TypedRooms, TypedTick, TypedClient
  <2>5. TypedSockets' /\ TypedWire'
    BY <1>1, <1>3, <2>1, FrameTail
  <2> QED
    BY <1>4, <2>3, <2>4, <2>5
<1> QED
  BY <1>5, <1>6

\* seqAllocator.next: the task goes on in its room with a seq, or is over.
LEMMA TypedAllocate ==
    ASSUME Typed, NEW t \in TaskOf(produced), t.type = "op",
           t.socket \in Sockets, NEW i \in DOMAIN heap, AllocateSeq(t, i),
           UNCHANGED <<heap, produced, acked, store>>
    PROVE  TypedTasks' /\ TypedStore' /\ TypedHistory'
<1> USE DEF Typed
<1>1. CASE Works /\ next
           /\ Becomes(t, [t EXCEPT !.pc = "apply", !.room = i,
                                   !.seq = lastSeq + 1,
                                   !.loaded = NothingLoaded])
  <2> DEFINE u == [t EXCEPT !.pc = "apply", !.room = i, !.seq = lastSeq + 1,
                            !.loaded = NothingLoaded]
  <2>1. lastSeq + 1 \in Nat /\ lastSeq' = lastSeq + 1
    BY <1>1 DEF TypedStore, next
  <2>2. NothingLoaded \in [latestSeq : Nat, snapshot : BatchOf(produced)]
    BY DEF NothingLoaded, BatchOf
  <2>3. i \in Nat
    BY DEF TypedHeap
  <2>4. u \in TaskOf(produced)
    BY <2>1, <2>2, <2>3 DEF TaskOf, OpPcs
  <2>5. InItsRoom(u, DOMAIN heap')
    BY DEF InItsRoom, TaskOf, OpPcs
  <2>6. TypedTasks'
    <3>1. tasks' \subseteq tasks \cup {u}
      BY <1>1 DEF Becomes
    <3> HIDE DEF u
    <3> QED
      BY <2>4, <2>5, <3>1, TypedTasksStep
  <2> QED
    BY <1>1, <2>1, <2>6, FrameHistory DEF TypedStore
<1>2. CASE Fails("seq") /\ Done(t) /\ UNCHANGED lastSeq
  <2>1. TypedTasks'
    BY <1>2 DEF TypedTasks, Done, InItsRoom
  <2> QED
    BY <1>2, <2>1, FrameHistory DEF TypedStore, Fails
<1> QED
  BY <1>1, <1>2 DEF AllocateSeq

\* DispatchOp keeps the types: its task carries produced operations.
LEMMA TypedDispatchOp ==
    ASSUME Typed, NEW s \in Sockets, DispatchOp(s)
    PROVE  Typed'
<1> DEFINE p == sockets[s].proc
           t == newTask("op", p, s, 0, Head(wire[s]).ops)
<1> USE DEF Typed
<1>1. wire[s] # <<>> /\ Head(wire[s]).type = "op"
  BY DEF DispatchOp
<1>2. p \in Procs
  BY <1>1, WireHead
<1>3. UNCHANGED <<store, heap, rooms, handlers, inbox, tick, clientVars, sockets>>
      /\ wire' = [wire EXCEPT ![s] = Tail(@)]
  BY DEF DispatchOp
<1>4. t \in TaskOf(produced) /\ InItsRoom(t, DOMAIN heap)
  BY <1>1, WireHead, NewTaskType
<1>5. TypedSockets' /\ TypedWire'
  BY <1>1, <1>3, FrameTail DEF clientVars
<1>6. TypedHeap' /\ TypedRooms' /\ TypedBus' /\ TypedTick' /\ TypedClient'
  BY <1>3 DEF clientVars, TypedHeap, TypedRooms, TypedBus, TypedTick, TypedClient
<1>7. TypedTasks' /\ TypedStore' /\ TypedHistory'
  <2>1. CASE rooms[p] # None
    <3>1. rooms[p] \in DOMAIN heap /\ AllocateSeq(t, rooms[p])
      BY <1>2, <2>1 DEF DispatchOp, TypedRooms
    <3>2. t.type = "op" /\ t.socket \in Sockets
      BY DEF newTask
    <3> HIDE DEF t
    <3> QED
      BY <1>3, <1>4, <3>1, <3>2, TypedAllocate DEF clientVars
  <2>2. CASE rooms[p] = None
    <3>1. tasks' = tasks \cup {t} /\ Works /\ UNCHANGED lastSeq
      BY <2>2 DEF DispatchOp
    <3>2. TypedTasks'
      BY <1>3, <1>4, <3>1 DEF TypedTasks, InItsRoom, clientVars
    <3> QED
      BY <1>3, <3>1, <3>2, FrameHistory DEF TypedStore, clientVars
  <2> QED
    BY <2>1, <2>2
<1> QED
  BY <1>5, <1>6, <1>7

\* DispatchTooEarly keeps the types.
LEMMA TypedDispatchTooEarly ==
    ASSUME Typed, NEW s \in Sockets, DispatchTooEarly(s)
    PROVE  Typed'
<1>1. /\ wire[s] # <<>> /\ wire' = [wire EXCEPT ![s] = Tail(@)]
      /\ UNCHANGED <<store, lastSeq, serverVars, clientVars, sockets, boundVars>>
  BY DEF DispatchTooEarly
<1> QED
  BY <1>1, FrameTail, FrameServer, FrameClients, FrameHistory
  DEF clientVars, Works, Typed

\* A step that touches neither the clients nor the network, nor the history
\* except by failing.
LEMMA FrameOutside ==
    ASSUME Typed, UNCHANGED <<clientVars, netVars>>,
           Works \/ \E kind \in Faults : Fails(kind)
    PROVE  TypedClient' /\ TypedSockets' /\ TypedWire' /\ TypedHistory'
BY FrameClients, FrameNet, FrameHistory DEF clientVars, netVars

\* A task that ends, and one that goes on with nothing changed but its pc.
LEMMA TypedDone ==
    ASSUME Typed, NEW t \in tasks, tasks' \subseteq tasks,
           UNCHANGED <<produced, heap>>
    PROVE  TypedTasks'
BY DEF Typed, TypedTasks, InItsRoom

\* A task of applyClientOp that goes to its next call keeps its room.
LEMMA TypedGoesOn ==
    ASSUME Typed, NEW t \in tasks, NEW pc \in OpPcs, t.pc \in OpPcs,
           t.type # "remote", Becomes(t, [t EXCEPT !.pc = pc]),
           UNCHANGED produced, DOMAIN heap' = DOMAIN heap
    PROVE  TypedTasks'
<1> DEFINE u == [t EXCEPT !.pc = pc]
<1>1. t \in TaskOf(produced) /\ InItsRoom(t, DOMAIN heap)
  BY DEF Typed, TypedTasks
<1>2. u \in TaskOf(produced) /\ InItsRoom(u, DOMAIN heap')
  BY <1>1 DEF TaskOf, InItsRoom, OpPcs
<1>3. tasks' \subseteq tasks \cup {u}
  BY DEF Becomes
<1> HIDE DEF u
<1> QED
  BY <1>2, <1>3, TypedTasksStep DEF Typed

\* The room that a load ends with.
LEMMA TypedCreateRoom ==
    ASSUME Typed, NEW t \in tasks, t.pc \in {"document", "operations"},
           NEW loaded \in [latestSeq : Nat, snapshot : BatchOf(produced)],
           NEW batches \in SUBSET BatchOf(produced),
           CreateRoom(t, loaded, batches),
           UNCHANGED <<produced, tick>>
    PROVE  TypedHeap' /\ TypedRooms' /\ TypedTasks' /\ TypedTick'
<1> DEFINE room == hydrate(loaded.snapshot, batches, loaded.latestSeq)
           n == Len(heap) + 1
           u == [t EXCEPT !.pc = "subscribe", !.room = n,
                          !.loaded = NothingLoaded]
<1> USE DEF Typed
<1>1. room \in RoomOf(produced)
  BY HydrateType DEF TypedHistory
<1>2. heap' = Append(heap, room) /\ rooms' = [rooms EXCEPT ![t.proc] = n]
      /\ tasks' \subseteq tasks \cup {u}
  BY DEF CreateRoom, Becomes
<1>3. t \in TaskOf(produced) /\ InItsRoom(t, DOMAIN heap)
  BY DEF TypedTasks
<1> HIDE DEF room
<1>4. /\ heap' \in Seq(RoomOf(produced))
      /\ DOMAIN heap' = DOMAIN heap \cup {n}
      /\ n \in Nat
  BY <1>1, <1>2, HeapAppend DEF TypedHeap
<1> HIDE DEF n
<1>5. TypedRooms'
  BY <1>2, <1>3, <1>4 DEF TypedRooms, TaskOf
<1>6. TypedTick'
  BY <1>4 DEF TypedTick
<1>7. u \in TaskOf(produced) /\ InItsRoom(u, DOMAIN heap')
  <2>1. NothingLoaded \in [latestSeq : Nat, snapshot : BatchOf(produced)]
    BY DEF NothingLoaded, BatchOf
  <2>2. u \in TaskOf(produced)
    BY <1>3, <1>4, <2>1 DEF TaskOf, LoadPcs
  <2>3. InItsRoom(u, DOMAIN heap')
    BY <1>3, <1>4 DEF InItsRoom, TaskOf, OpPcs
  <2> QED
    BY <2>2, <2>3
<1>8. TypedTasks'
  <2> HIDE DEF u
  <2> QED
    BY <1>2, <1>4, <1>7, TypedTasksStep
<1> QED
  BY <1>4, <1>5, <1>6, <1>8 DEF TypedHeap

\* LoadDocument keeps the types: a new room, or the first query's answer.
LEMMA TypedLoadDocument ==
    ASSUME Typed, NEW t \in tasks, LoadDocument(t)
    PROVE  Typed'
<1> USE DEF Typed
<1>1. t.pc = "document"
      /\ UNCHANGED <<store, lastSeq, handlers, inbox, tick, clientVars, netVars,
                     boundVars>>
  BY DEF LoadDocument
<1>2. TypedStore' /\ TypedBus'
  BY <1>1 DEF TypedStore, TypedBus, clientVars
<1>3. CASE store.latestSeq = None
  <2>1. CreateRoom(t, NothingLoaded, {})
    BY <1>3 DEF LoadDocument
  <2>2. NothingLoaded \in [latestSeq : Nat, snapshot : BatchOf(produced)]
    BY DEF NothingLoaded, BatchOf
  <2> QED
    BY <1>1, <1>2, <2>1, <2>2, TypedCreateRoom, FrameOutside
    DEF clientVars, Works
<1>4. CASE store.latestSeq # None
  <2> DEFINE u == [t EXCEPT !.pc = "snapshot",
                            !.loaded.latestSeq = store.latestSeq]
  <2>1. tasks' \subseteq tasks \cup {u} /\ UNCHANGED <<heap, rooms>>
    BY <1>4 DEF LoadDocument, Becomes
  <2>2. store.latestSeq \in Nat
    BY <1>4 DEF TypedStore, StoreOf
  <2>3. t \in TaskOf(produced) /\ InItsRoom(t, DOMAIN heap)
    BY DEF TypedTasks
  <2>4. u \in TaskOf(produced)
    BY <2>2, <2>3 DEF TaskOf, LoadPcs
  <2>5. InItsRoom(u, DOMAIN heap')
    BY <1>1, <2>1, <2>3 DEF InItsRoom, OpPcs, TaskOf
  <2>6. TypedTasks'
    <3> HIDE DEF u
    <3> QED
      BY <1>1, <2>1, <2>4, <2>5, TypedTasksStep DEF clientVars
  <2>7. TypedHeap' /\ TypedRooms' /\ TypedTick'
    BY <1>1, <2>1 DEF TypedHeap, TypedRooms, TypedTick, clientVars
  <2> QED
    BY <1>1, <1>2, <2>6, <2>7, FrameOutside DEF Works
<1> QED
  BY <1>3, <1>4

\* LoadSnapshot keeps the types: the snapshot found is one of the table.
LEMMA TypedLoadSnapshot ==
    ASSUME Typed, NEW t \in tasks, LoadSnapshot(t)
    PROVE  Typed'
<1> USE DEF Typed
<1>1. t.pc = "snapshot"
      /\ UNCHANGED <<store, lastSeq, heap, rooms, handlers, inbox, tick,
                     clientVars, netVars, boundVars>>
  BY DEF LoadSnapshot
<1>2. PICK found \in latestSnapshots(store) :
        Becomes(t, [t EXCEPT !.pc = "operations", !.loaded.snapshot = found])
  BY DEF LoadSnapshot
<1> DEFINE u == [t EXCEPT !.pc = "operations", !.loaded.snapshot = found]
<1>3. found \in BatchOf(produced)
  BY StoreOps DEF TypedStore, TypedHistory
<1>4. t \in TaskOf(produced) /\ InItsRoom(t, DOMAIN heap)
  BY DEF TypedTasks
<1>5. u \in TaskOf(produced)
  BY <1>3, <1>4 DEF TaskOf, LoadPcs
<1>6. InItsRoom(u, DOMAIN heap')
  BY <1>1, <1>4 DEF InItsRoom, OpPcs, TaskOf
<1>7. tasks' \subseteq tasks \cup {u}
  BY <1>2 DEF Becomes
<1> HIDE DEF u
<1>8. TypedTasks'
  BY <1>1, <1>5, <1>6, <1>7, TypedTasksStep DEF clientVars
<1>9. TypedStore' /\ TypedHeap' /\ TypedRooms' /\ TypedBus' /\ TypedTick'
  BY <1>1 DEF clientVars, TypedStore, TypedHeap, TypedRooms, TypedBus, TypedTick
<1> QED
  BY <1>1, <1>8, <1>9, FrameOutside DEF Works

\* LoadOperations keeps the types: the room is hydrated from the tables.
LEMMA TypedLoadOperations ==
    ASSUME Typed, NEW t \in tasks, LoadOperations(t)
    PROVE  Typed'
<1> DEFINE batches == batchesAfter(store, t.loaded.snapshot.seq)
<1> USE DEF Typed
<1>1. t.pc = "operations" /\ CreateRoom(t, t.loaded, batches)
      /\ UNCHANGED <<store, lastSeq, handlers, inbox, tick, clientVars, netVars,
                     boundVars>>
  BY DEF LoadOperations
<1>2. /\ t.loaded \in [latestSeq : Nat, snapshot : BatchOf(produced)]
      /\ t.loaded.snapshot.seq \in Nat
  BY DEF TypedTasks, TaskOf, BatchOf
<1>3. batches \in SUBSET BatchOf(produced)
  BY <1>2, StoreOps DEF TypedStore, TypedHistory
<1>4. TypedStore' /\ TypedBus'
  BY <1>1 DEF TypedStore, TypedBus, clientVars
<1> HIDE DEF batches
<1> QED
  BY <1>1, <1>2, <1>3, <1>4, TypedCreateRoom, FrameOutside
  DEF clientVars, Works

\* LoadFails keeps the types.
LEMMA TypedLoadFails ==
    ASSUME Typed, NEW t \in tasks, LoadFails(t) \/ PersistFails(t)
    PROVE  Typed'
<1>1. /\ UNCHANGED <<store, lastSeq, heap, rooms, handlers, inbox, tick,
                     clientVars, netVars>>
      /\ tasks' \subseteq tasks /\ \E kind \in Faults : Fails(kind)
  BY DEF LoadFails, PersistFails, Done, Fails
<1>2. TypedStore' /\ TypedHeap' /\ TypedRooms' /\ TypedBus' /\ TypedTick'
  BY <1>1 DEF Typed, clientVars, TypedStore, TypedHeap, TypedRooms, TypedBus,
              TypedTick
<1> QED
  BY <1>1, <1>2, TypedDone, FrameOutside DEF Typed, clientVars

\* What a task that waits in its room has.
LEMMA TaskInRoom ==
    ASSUME Typed, NEW t \in tasks, t.type # "remote",
           t.pc \in {"subscribe"} \cup OpPcs
    PROVE  /\ t \in TaskOf(produced) /\ t.room \in DOMAIN heap
           /\ heap[t.room] \in RoomOf(produced)
           /\ t.socket \in Sockets /\ clientOf(t.socket) \in Clients
           /\ t.proc \in Procs /\ t.sinceSeq \in Nat /\ t.seq \in Nat
           /\ t.ops \in SUBSET produced
<1>1. t \in TaskOf(produced) /\ InItsRoom(t, DOMAIN heap)
  BY DEF Typed, TypedTasks
<1>2. t.room \in DOMAIN heap /\ t.socket \in Sockets
  BY <1>1 DEF InItsRoom
<1>3. heap[t.room] \in RoomOf(produced)
  BY <1>2, HeapElement DEF Typed, TypedHeap
<1>4. /\ t.proc \in Procs /\ t.sinceSeq \in Nat /\ t.seq \in Nat
      /\ t.ops \in SUBSET produced
  BY <1>1 DEF TaskOf
<1> QED
  BY <1>1, <1>2, <1>3, <1>4, ClientOfType

\* Subscribe keeps the types: the task joins or allocates a seq.
LEMMA TypedSubscribe ==
    ASSUME Typed, NEW t \in tasks, Subscribe(t)
    PROVE  Typed'
<1> USE DEF Typed
<1>1. t.pc = "subscribe" /\ subscribe(t.proc) /\ t.type \in {"join", "op"}
      /\ UNCHANGED <<store, rooms, inbox, tick, produced, acked>>
  BY DEF Subscribe
<1>2. /\ t \in TaskOf(produced) /\ t.room \in DOMAIN heap
      /\ t.socket \in Sockets /\ t.proc \in Procs /\ t.sinceSeq \in Nat
  BY <1>1, TaskInRoom
<1>3. TypedBus'
  BY <1>1, <1>2 DEF TypedBus, subscribe
<1>4. CASE t.type = "join"
  <2>1. /\ JoinRoom(t.socket, t.room, t.sinceSeq, wire[t.socket])
        /\ Done(t) /\ Works /\ UNCHANGED lastSeq
    BY <1>4 DEF Subscribe
  <2>2. /\ wire[t.socket] \in Seq(MessageOf(produced))
        /\ wire[t.socket] # <<>> => sockets[t.socket].proc \in Procs
    BY <1>2 DEF TypedWire
  <2>3. /\ TypedHeap' /\ DOMAIN heap' = DOMAIN heap
        /\ TypedSockets' /\ TypedWire' /\ TypedClient'
    BY <1>1, <1>2, <2>1, <2>2, TypedJoinRoom
  <2>4. TypedRooms' /\ TypedTick' /\ TypedStore'
    BY <1>1, <2>1, <2>3 DEF TypedRooms, TypedTick, TypedStore
  <2>5. TypedTasks'
    BY <1>1, <2>1, <2>3 DEF TypedTasks, Done, InItsRoom
  <2> QED
    BY <1>1, <1>3, <2>1, <2>3, <2>4, <2>5, FrameHistory
<1>5. CASE t.type = "op"
  <2>1. AllocateSeq(t, t.room) /\ UNCHANGED <<heap, sockets, wire, client>>
    BY <1>5 DEF Subscribe
  <2>2. TypedTasks' /\ TypedStore' /\ TypedHistory'
    BY <1>1, <1>2, <1>5, <2>1, TypedAllocate
  <2>3. TypedHeap' /\ TypedRooms' /\ TypedTick' /\ TypedClient'
    BY <1>1, <2>1 DEF TypedHeap, TypedRooms, TypedTick, TypedClient
  <2> QED
    BY <1>1, <1>3, <2>1, <2>2, <2>3, FrameNet
<1> QED
  BY <1>1, <1>4, <1>5

\* SubscribeFails keeps the types.
LEMMA TypedSubscribeFails ==
    ASSUME Typed, NEW t \in tasks, SubscribeFails(t)
    PROVE  Typed'
<1> USE DEF Typed
<1>1. /\ Fails("subscribe") /\ Done(t)
      /\ rooms' = [rooms EXCEPT ![t.proc] = None]
      /\ UNCHANGED <<store, lastSeq, heap, handlers, inbox, tick, clientVars,
                     netVars>>
  BY DEF SubscribeFails
<1>2. TypedStore' /\ TypedHeap' /\ TypedBus' /\ TypedTick' /\ TypedRooms'
  BY <1>1 DEF clientVars, TypedStore, TypedHeap, TypedRooms, TypedBus, TypedTick
<1>3. TypedTasks'
  BY <1>1, TypedDone DEF Done, clientVars
<1>4. \E kind \in Faults : Fails(kind)
  BY <1>1 DEF Fails
<1> QED
  BY <1>1, <1>2, <1>3, <1>4, FrameOutside

\* broadcast changes the documents of clients only.
LEMMA TypedBroadcast ==
    ASSUME Typed, NEW room, NEW S \in SUBSET produced, NEW except,
           broadcast(room, S, except), UNCHANGED produced
    PROVE  TypedClient'
<1>1. ASSUME NEW c \in Clients
      PROVE  client[c] \in ClientOf(produced)
             /\ onBroadcast(client[c], S) \in ClientOf(produced)
  BY DEF Typed, TypedClient, onBroadcast, ClientOf
<1> QED
  BY <1>1 DEF broadcast, TypedClient

\* ApplyAndBroadcast keeps the types: the task has a room to apply to.
LEMMA TypedApplyAndBroadcast ==
    ASSUME Typed, NEW t \in tasks, ApplyAndBroadcast(t)
    PROVE  Typed'
<1> USE DEF Typed
<1>1. /\ t.pc = "apply"
      /\ heap' = [heap EXCEPT ![t.room] = applyOps(heap[t.room], t.ops, t.seq)]
      /\ broadcast(heap[t.room], t.ops, clientOf(t.socket))
      /\ Becomes(t, [t EXCEPT !.pc = "publish"])
      /\ UNCHANGED <<store, lastSeq, rooms, handlers, inbox, tick, produced,
                     acked, netVars, boundVars>>
  BY DEF ApplyAndBroadcast
<1>2. t.pc \in OpPcs /\ t.type # "remote"
  BY <1>1 DEF OpPcs, TypedTasks, InItsRoom
<1>3. /\ t \in TaskOf(produced) /\ t.room \in DOMAIN heap
      /\ heap[t.room] \in RoomOf(produced) /\ t.seq \in Nat
      /\ t.ops \in SUBSET produced
  BY <1>2, TaskInRoom
<1>4. applyOps(heap[t.room], t.ops, t.seq) \in RoomOf(produced)
  BY <1>3, ApplyOpsType DEF TypedHistory
<1>5. TypedHeap' /\ DOMAIN heap' = DOMAIN heap
  BY <1>1, <1>3, <1>4, HeapUpdate DEF TypedHeap
<1>6. TypedTasks'
  BY <1>1, <1>2, <1>5, TypedGoesOn DEF OpPcs
<1>7. TypedClient'
  BY <1>1, <1>3, TypedBroadcast
<1>8. TypedStore' /\ TypedRooms' /\ TypedBus' /\ TypedTick'
  BY <1>1, <1>5 DEF TypedStore, TypedRooms, TypedBus, TypedTick
<1> QED
  BY <1>1, <1>5, <1>6, <1>7, <1>8, FrameNet, FrameHistory DEF netVars, Works

\* Publish keeps the types of the inboxes.
LEMMA TypedPublish ==
    ASSUME Typed, NEW t \in tasks, Publish(t)
    PROVE  Typed'
<1> USE DEF Typed
<1>1. /\ t.pc = "publish" /\ Becomes(t, [t EXCEPT !.pc = "append"])
      /\ UNCHANGED <<store, lastSeq, heap, rooms, handlers, tick, clientVars,
                     netVars>>
  BY DEF Publish
<1>2. t.pc \in OpPcs /\ t.type # "remote"
  BY <1>1 DEF OpPcs, TypedTasks, InItsRoom
<1>3. [seq |-> t.seq, ops |-> t.ops] \in BatchOf(produced)
  BY <1>2, TaskInRoom DEF BatchOf
<1>4. TypedBus' /\ (Works \/ \E kind \in Faults : Fails(kind))
  <2>1. CASE Works /\ publish(t.proc, [seq |-> t.seq, ops |-> t.ops])
    <3> DEFINE b == [seq |-> t.seq, ops |-> t.ops]
    <3>1. inbox' = [p \in Procs |-> IF p # t.proc /\ handlers[p]
                                    THEN Append(inbox[p], b) ELSE inbox[p]]
      BY <2>1 DEF publish
    <3> HIDE DEF b
    <3>2. b \in BatchOf(produced)
      BY <1>3 DEF b
    <3>3. inbox' \in [Procs -> Seq(BatchOf(produced))]
      BY <3>1, <3>2 DEF TypedBus
    <3> QED
      BY <1>1, <2>1, <3>3 DEF TypedBus, clientVars
  <2>2. CASE Fails("publish") /\ UNCHANGED inbox
    BY <1>1, <2>2 DEF TypedBus, clientVars, Fails
  <2> QED
    BY <2>1, <2>2 DEF Publish
<1>5. TypedTasks'
  BY <1>1, <1>2, TypedGoesOn DEF OpPcs, clientVars
<1>6. TypedStore' /\ TypedHeap' /\ TypedRooms' /\ TypedTick'
  BY <1>1 DEF clientVars, TypedStore, TypedHeap, TypedRooms, TypedTick
<1> QED
  BY <1>1, <1>4, <1>5, <1>6, FrameOutside

\* Persist keeps the types of the tables.
LEMMA TypedPersist ==
    ASSUME Typed, NEW t \in tasks, Persist(t)
    PROVE  Typed'
<1> USE DEF Typed
<1>1. /\ t.pc = "append" /\ Works /\ store' = appendOps(store, t.seq, t.ops)
      /\ t.type = "op" => Becomes(t, [t EXCEPT !.pc = "ack"])
      /\ t.type # "op" => Done(t)
      /\ UNCHANGED <<lastSeq, heap, rooms, handlers, inbox, tick, clientVars,
                     netVars>>
  BY DEF Persist
<1>2. TypedStore'
  <2>1. t.seq \in Nat /\ t.ops \in SUBSET produced
    BY DEF TypedTasks, TaskOf
  <2> QED
    BY <1>1, <2>1, StoreOps DEF TypedStore, TypedHistory, clientVars
<1>3. TypedTasks'
  BY <1>1, TypedGoesOn, TypedDone DEF OpPcs, Done, clientVars
<1>4. TypedHeap' /\ TypedRooms' /\ TypedBus' /\ TypedTick'
  BY <1>1 DEF clientVars, TypedHeap, TypedRooms, TypedBus, TypedTick
<1> QED
  BY <1>1, <1>2, <1>3, <1>4, FrameOutside

\* Ack keeps the types: only produced operations are acked.
LEMMA TypedAck ==
    ASSUME Typed, NEW t \in tasks, Ack(t)
    PROVE  Typed'
<1> DEFINE c == clientOf(t.socket)
<1> USE DEF Typed
<1>1. /\ t.pc = "ack" /\ Done(t)
      /\ UNCHANGED <<store, lastSeq, heap, rooms, handlers, inbox, tick,
                     produced, netVars, boundVars>>
      /\ \/ /\ client' = [client EXCEPT ![c] =
                           onAck(client[c], t.seq, KeysOf(t.ops))]
            /\ acked' = acked \cup t.ops
         \/ UNCHANGED <<client, acked>>
  BY DEF Ack
<1>2. t.pc \in OpPcs /\ t.type # "remote"
  BY <1>1 DEF OpPcs, TypedTasks, InItsRoom
<1>3. c \in Clients /\ t.seq \in Nat /\ t.ops \in SUBSET produced
  BY <1>2, TaskInRoom
<1>4. onAck(client[c], t.seq, KeysOf(t.ops)) \in ClientOf(produced)
  BY <1>3 DEF TypedClient, onAck, ClientOf
<1>5. TypedClient'
  BY <1>1, <1>3, <1>4 DEF TypedClient
<1>6. TypedHistory'
  BY <1>1, <1>3 DEF TypedHistory, boundVars
<1>7. TypedTasks'
  BY <1>1, TypedDone DEF Done
<1>8. TypedStore' /\ TypedHeap' /\ TypedRooms' /\ TypedBus' /\ TypedTick'
  BY <1>1 DEF TypedStore, TypedHeap, TypedRooms, TypedBus, TypedTick
<1> QED
  BY <1>1, <1>5, <1>6, <1>7, <1>8, FrameNet DEF netVars

\* HandleRemoteOp keeps the types: its batch comes from an inbox.
LEMMA TypedHandleRemoteOp ==
    ASSUME Typed, NEW p \in Procs, HandleRemoteOp(p)
    PROVE  Typed'
<1> DEFINE batch == Head(inbox[p])
           i == rooms[p]
           t == [newTask("remote", p, None, 0, batch.ops) EXCEPT
                   !.pc = "append", !.seq = batch.seq]
<1> USE DEF Typed
<1>1. /\ inbox[p] # <<>> /\ inbox' = [inbox EXCEPT ![p] = Tail(@)]
      /\ UNCHANGED <<store, lastSeq, rooms, handlers, tick, produced, acked,
                     netVars, boundVars>>
  BY DEF HandleRemoteOp
<1>2. inbox[p] \in Seq(BatchOf(produced))
  BY DEF TypedBus
<1>3. batch \in BatchOf(produced) /\ Tail(inbox[p]) \in Seq(BatchOf(produced))
  BY <1>1, <1>2
<1>4. batch.seq \in Nat /\ batch.ops \in SUBSET produced
  BY <1>3 DEF BatchOf
<1>5. TypedBus'
  BY <1>1, <1>3 DEF TypedBus
<1>6. TypedHeap' /\ DOMAIN heap' = DOMAIN heap /\ TypedClient' /\ TypedTasks'
  <2>1. CASE handlers[p] /\ i # None
    <3>1. /\ heap' = [heap EXCEPT ![i] = applyOps(heap[i], batch.ops, batch.seq)]
          /\ broadcast(heap[i], batch.ops, None)
          /\ tasks' \subseteq tasks \cup {t}
      BY <2>1 DEF HandleRemoteOp
    <3>2. i \in DOMAIN heap
      BY <2>1 DEF TypedRooms
    <3>3. heap[i] \in RoomOf(produced)
      BY <3>2, HeapElement DEF TypedHeap
    <3>4. applyOps(heap[i], batch.ops, batch.seq) \in RoomOf(produced)
      BY <1>4, <3>3, ApplyOpsType DEF TypedHistory
    <3>5. TypedHeap' /\ DOMAIN heap' = DOMAIN heap
      BY <1>1, <3>1, <3>2, <3>4, HeapUpdate DEF TypedHeap
    <3>6. TypedClient'
      BY <1>1, <1>4, <3>1, TypedBroadcast
    <3>7. t \in TaskOf(produced)
      <4>1. NothingLoaded \in [latestSeq : Nat, snapshot : BatchOf(produced)]
        BY DEF NothingLoaded, BatchOf
      <4> QED
        BY <1>4, <4>1 DEF newTask, TaskOf, OpPcs
    <3>8. InItsRoom(t, DOMAIN heap')
      BY DEF newTask, InItsRoom
    <3> HIDE DEF t
    <3> QED
      BY <1>1, <3>1, <3>5, <3>6, <3>7, <3>8, TypedTasksStep
  <2>2. CASE ~(handlers[p] /\ i # None)
    <3>1. UNCHANGED <<heap, client, tasks>>
      BY <2>2 DEF HandleRemoteOp
    <3> QED
      BY <1>1, <3>1 DEF TypedHeap, TypedClient, TypedTasks, InItsRoom
  <2> QED
    BY <2>1, <2>2
<1>7. TypedStore' /\ TypedRooms' /\ TypedTick'
  BY <1>1, <1>6 DEF TypedStore, TypedRooms, TypedTick
<1> QED
  BY <1>1, <1>5, <1>6, <1>7, FrameNet, FrameHistory DEF netVars, Works

\* TickSnapshot keeps the types: the state taken is of produced operations.
LEMMA TypedTickSnapshot ==
    ASSUME Typed, NEW p \in Procs, TickSnapshot(p)
    PROVE  Typed'
<1> DEFINE room == heap[rooms[p]]
           w == [pc |-> "write", room |-> rooms[p], atSeq |-> room.seq,
                 state |-> snapshot(room)]
<1> USE DEF Typed
<1>1. /\ rooms[p] # None /\ tick' = [tick EXCEPT ![p] = w]
      /\ UNCHANGED <<store, lastSeq, heap, rooms, handlers, inbox, tasks,
                     clientVars, netVars, boundVars>>
  BY DEF TickSnapshot, SnapshotDue
<1>2. rooms[p] \in DOMAIN heap
  BY <1>1 DEF TypedRooms
<1>3. room \in RoomOf(produced)
  BY <1>2, HeapElement DEF TypedHeap
<1>4. room.seq \in Nat /\ snapshot(room) \in SUBSET produced
  BY <1>3, SnapshotType DEF RoomOf
<1>5. w \in [pc : {"write"}, room : DOMAIN heap, atSeq : Nat,
             state : SUBSET produced]
  BY <1>2, <1>4
<1> HIDE DEF w
<1>6. TypedTick'
  BY <1>1, <1>5 DEF TypedTick, clientVars
<1>7. TypedStore' /\ TypedHeap' /\ TypedRooms' /\ TypedBus'
  BY <1>1 DEF TypedStore, TypedHeap, TypedRooms, TypedBus, clientVars
<1>8. TypedTasks'
  BY <1>1 DEF TypedTasks, InItsRoom, clientVars
<1> QED
  BY <1>1, <1>6, <1>7, <1>8, FrameOutside DEF Works

\* TickWrite keeps the types: the room it advances is in the heap.
LEMMA TypedTickWrite ==
    ASSUME Typed, NEW p \in Procs, TickWrite(p)
    PROVE  Typed'
<1> DEFINE w == tick[p]
<1> USE DEF Typed
<1>1. /\ w # None /\ w.pc = "write" /\ tick' = [tick EXCEPT ![p] = None]
      /\ UNCHANGED <<lastSeq, rooms, handlers, inbox, tasks, clientVars, netVars>>
  BY DEF TickWrite
<1>2. w \in [pc : {"write"}, room : DOMAIN heap, atSeq : Nat,
             state : SUBSET produced]
  BY <1>1 DEF TypedTick
<1>3. /\ TypedStore' /\ TypedHeap' /\ DOMAIN heap' = DOMAIN heap
      /\ (Works \/ \E kind \in Faults : Fails(kind))
  <2>1. CASE /\ Works /\ store' = writeSnapshot(store, w.atSeq, w.state)
             /\ heap' = [heap EXCEPT ![w.room] =
                           advanceCoverageFloor(heap[w.room], w.atSeq)]
    <3>1. heap[w.room] \in RoomOf(produced)
      BY <1>2, HeapElement DEF TypedHeap
    <3>2. advanceCoverageFloor(heap[w.room], w.atSeq) \in RoomOf(produced)
      BY <1>2, <3>1, AdvanceType
    <3>3. TypedHeap' /\ DOMAIN heap' = DOMAIN heap
      BY <1>1, <1>2, <2>1, <3>2, HeapUpdate DEF TypedHeap, clientVars
    <3>4. TypedStore'
      BY <1>1, <1>2, <2>1, StoreOps DEF TypedStore, TypedHistory, clientVars
    <3> QED
      BY <2>1, <3>3, <3>4
  <2>2. CASE Fails("snapshot") /\ UNCHANGED <<store, heap>>
    BY <1>1, <2>2 DEF TypedStore, TypedHeap, clientVars, Fails
  <2> QED
    BY <2>1, <2>2 DEF TickWrite
<1>4. TypedRooms' /\ TypedBus' /\ TypedTick'
  BY <1>1, <1>3 DEF TypedRooms, TypedBus, TypedTick, clientVars
<1>5. TypedTasks'
  BY <1>1, <1>3 DEF TypedTasks, InItsRoom, clientVars
<1> QED
  BY <1>1, <1>3, <1>4, <1>5, FrameOutside

\* TickIdle keeps the types.
LEMMA TypedTickIdle ==
    ASSUME Typed, NEW p \in Procs, TickIdle(p)
    PROVE  Typed'
<1> USE DEF Typed
<1>1. /\ unsubscribe(p)
      /\ UNCHANGED <<store, lastSeq, heap, rooms, inbox, tasks, clientVars,
                     netVars>>
      /\ tick' = [tick EXCEPT ![p] = [pc |-> "evict"]] \/ tick' = tick
  BY DEF TickIdle
<1>2. TypedStore' /\ TypedHeap' /\ TypedRooms' /\ TypedBus' /\ TypedTick'
  BY <1>1 DEF TypedStore, TypedHeap, TypedRooms, TypedBus, TypedTick,
              unsubscribe, clientVars
<1>3. TypedTasks'
  BY <1>1 DEF TypedTasks, InItsRoom, clientVars
<1>4. TypedHistory'
  BY <1>1 DEF TypedHistory, TickIdle, Fails, clientVars
<1> QED
  BY <1>1, <1>2, <1>3, <1>4, FrameClients, FrameNet DEF clientVars, netVars

\* TickEvict keeps the types.
LEMMA TypedTickEvict ==
    ASSUME Typed, NEW p \in Procs, TickEvict(p)
    PROVE  Typed'
<1> USE DEF Typed
<1>1. /\ rooms' = [rooms EXCEPT ![p] = None]
      /\ tick' = [tick EXCEPT ![p] = None]
      /\ UNCHANGED <<store, lastSeq, heap, handlers, inbox, tasks, clientVars,
                     netVars, boundVars>>
  BY DEF TickEvict
<1>2. TypedStore' /\ TypedHeap' /\ TypedRooms' /\ TypedBus' /\ TypedTick'
  BY <1>1 DEF TypedStore, TypedHeap, TypedRooms, TypedBus, TypedTick, clientVars
<1>3. TypedTasks'
  BY <1>1 DEF TypedTasks, InItsRoom, clientVars
<1> QED
  BY <1>1, <1>2, <1>3, FrameOutside DEF Works

\* Crash keeps the types.
LEMMA TypedCrash ==
    ASSUME Typed, NEW p \in Procs, Crash(p)
    PROVE  Typed'
<1> USE DEF Typed
<1>1. /\ Fails("crash") /\ rooms' = [rooms EXCEPT ![p] = None]
      /\ handlers' = [handlers EXCEPT ![p] = FALSE]
      /\ inbox' = [inbox EXCEPT ![p] = <<>>]
      /\ tick' = [tick EXCEPT ![p] = None]
      /\ tasks' = {t \in tasks : t.proc # p}
      /\ UNCHANGED <<store, lastSeq, heap, clientVars>>
  BY DEF Crash
<1>2. TypedStore' /\ TypedHeap' /\ TypedRooms' /\ TypedBus' /\ TypedTick'
  BY <1>1 DEF TypedStore, TypedHeap, TypedRooms, TypedBus, TypedTick, clientVars
<1>3. TypedTasks'
  BY <1>1 DEF TypedTasks, InItsRoom, clientVars
<1>4. TypedSockets'
  BY DEF Crash, TypedSockets, SocketType
<1>5. TypedWire'
  <2>1. wire' \in [Sockets -> Seq(MessageOf(produced))]
    <3>1. wire' = [s \in Sockets |->
                     IF sockets[s].proc = p THEN <<>> ELSE wire[s]]
      BY DEF Crash
    <3> QED
      BY <3>1 DEF TypedWire
  <2>2. ASSUME NEW s \in Sockets
        PROVE  /\ sockets'[s].proc = sockets[s].proc
               /\ sockets'[s].open => sockets[s].open
               /\ sockets'[s].up => sockets[s].up
               /\ wire'[s] # <<>> => wire[s] # <<>>
    BY DEF Crash, TypedSockets, SocketType
  <2> QED
    BY <1>1, <2>1, <2>2 DEF TypedWire, clientVars
<1>6. \E kind \in Faults : Fails(kind)
  BY <1>1 DEF Fails
<1> QED
  BY <1>1, <1>2, <1>3, <1>4, <1>5, <1>6, FrameClients, FrameHistory
  DEF clientVars

\* Every step keeps the types.
LEMMA TypedNext == Typed /\ [Next]_vars => Typed'
<1> SUFFICES ASSUME Typed, [Next]_vars PROVE Typed'
  OBVIOUS
<1>1. ASSUME NEW c \in Clients, ClientStep(c) PROVE Typed'
  BY <1>1, TypedConnect, TypedApplyLocalEdits, TypedClientClose DEF ClientStep
<1>2. ASSUME NEW s \in Sockets, Break(s) \/ ServerClose(s) \/ DispatchMessage(s)
      PROVE  Typed'
  BY <1>2, TypedBreak, TypedServerClose, TypedDispatchJoin, TypedDispatchOp,
     TypedDispatchTooEarly DEF DispatchMessage
<1>3. ASSUME NEW t \in tasks, TaskStep(t) PROVE Typed'
  BY <1>3, TypedLoadDocument, TypedLoadSnapshot, TypedLoadOperations,
     TypedLoadFails, TypedSubscribe, TypedSubscribeFails,
     TypedApplyAndBroadcast, TypedPublish, TypedPersist, TypedAck DEF TaskStep
<1>4. ASSUME NEW p \in Procs, HandleRemoteOp(p) \/ Tick(p) \/ Crash(p)
      PROVE  Typed'
  BY <1>4, TypedHandleRemoteOp, TypedTickSnapshot, TypedTickWrite,
     TypedTickIdle, TypedTickEvict, TypedCrash DEF Tick
<1>5. CASE UNCHANGED vars
  BY <1>5, FrameServer, FrameClients, FrameNet, FrameHistory
  DEF vars, clientVars, netVars, Works, Typed
<1> QED
  BY <1>1, <1>2, <1>3, <1>4, <1>5 DEF Next

\* The types of the produced operations are those of all operations.
LEMMA TypedIsTypeOK == Typed => TypeOK
<1> SUFFICES ASSUME Typed PROVE TypeOK
  OBVIOUS
<1> USE DEF Typed
<1>1. produced \subseteq Ops /\ acked \subseteq Ops
  BY DEF TypedHistory
<1>2. /\ BatchOf(Ops) = Batch(Nat) /\ StoreOf(Ops) = StoreType(Nat)
      /\ RoomOf(Ops) = RoomType /\ TaskOf(Ops) = Task
  BY DEF BatchOf, Batch, StoreOf, StoreType, Row, RoomOf, RoomType, TaskOf, Task
<1>3. store \in StoreType(Nat) /\ lastSeq \in Nat
  BY <1>1, <1>2, TypesGrow DEF TypedStore
<1>4. heap \in Seq(RoomType)
  BY <1>1, <1>2, TypesGrow DEF TypedHeap
<1>5. inbox \in [Procs -> Seq(Batch(Nat))] /\ handlers \in [Procs -> BOOLEAN]
  BY <1>1, <1>2, TypesGrow DEF TypedBus
<1>6. tasks \subseteq Task
  BY <1>1, <1>2, TypesGrow DEF TypedTasks
<1>7. tick \in [Procs -> [pc : {"evict"}] \cup {None} \cup
                  [pc : {"write"}, room : DOMAIN heap, atSeq : Nat,
                   state : SUBSET Ops]]
  BY <1>1 DEF TypedTick
<1>8. wire \in [Sockets -> Seq([type : {"join"}, sinceSeq : Nat] \cup
                                [type : {"op"}, ops : SUBSET Ops])]
  <2>1. wire \in [Sockets -> Seq(MessageOf(Ops))]
    BY <1>1, TypesGrow DEF TypedWire
  <2> QED
    BY <2>1 DEF MessageOf
<1>9. client \in [Clients -> [view : SUBSET Ops, outbox : SUBSET Ops,
                              lastAckedSeq : Nat, ws : Sockets \cup {None}]]
  <2>1. client \in [Clients -> ClientOf(Ops)]
    BY <1>1, TypesGrow DEF TypedClient
  <2> QED
    BY <2>1 DEF ClientOf
<1>10. faults \in Nat /\ evictions \in Nat
       /\ rooms \in [Procs -> DOMAIN heap \cup {None}]
  BY DEF TypedHistory, TypedRooms
<1>11. sockets \in [Sockets -> [proc : Procs \cup {None}, up : BOOLEAN,
                                open : BOOLEAN, joined : BOOLEAN]]
  BY DEF TypedSockets, SocketType
<1> QED
  BY <1>1, <1>3, <1>4, <1>5, <1>6, <1>7, <1>8, <1>9, <1>10, <1>11 DEF TypeOK

\* Every behaviour of the protocol has the types of TypeOK, for any processes,
\* clients, operations, failures and bounds: rooms[p] is a room of the heap,
\* and no message, task or table holds an operation that nobody produced.
THEOREM RoomManagerTypeCorrect == Spec => []TypeOK
<1>1. Typed /\ [Next]_vars => Typed'
  BY TypedNext
<1> QED
  BY <1>1, TypedInit, TypedIsTypeOK, PTL DEF Spec

-----------------------------------------------------------------------------
(* The outbox *)

\* What the handlers of the client do to its fields.
LEMMA EditedFields ==
    ASSUME NEW P, NEW cl \in ClientOf(P), NEW op
    PROVE  /\ edited(cl, op).view = cl.view \cup {op}
           /\ edited(cl, op).outbox
                = {o \in cl.outbox : KeyOf[o] # KeyOf[op]} \cup {op}
           /\ edited(cl, op).lastAckedSeq = cl.lastAckedSeq
           /\ edited(cl, op).ws = cl.ws
BY DEF ClientOf, edited

\* What a sync and a snapshot do to each field of a client.
LEMMA SyncFields ==
    ASSUME NEW P, NEW cl \in ClientOf(P), NEW n, NEW S
    PROVE  /\ onSync(cl, n, S).view = cl.view \cup S
           /\ onSync(cl, n, S).outbox = cl.outbox
           /\ onSync(cl, n, S).lastAckedSeq = n
           /\ onSync(cl, n, S).ws = cl.ws
           /\ onSnapshot(cl, n, S).view = S \cup cl.outbox
           /\ onSnapshot(cl, n, S).outbox = cl.outbox
           /\ onSnapshot(cl, n, S).lastAckedSeq = n
           /\ onSnapshot(cl, n, S).ws = cl.ws
BY DEF ClientOf, onSync, onSnapshot

\* What a broadcast does to each field of a client.
LEMMA BroadcastFields ==
    ASSUME NEW P, NEW cl \in ClientOf(P), NEW S
    PROVE  /\ onBroadcast(cl, S).view = cl.view \cup S
           /\ onBroadcast(cl, S).outbox = cl.outbox
           /\ onBroadcast(cl, S).lastAckedSeq = cl.lastAckedSeq
           /\ onBroadcast(cl, S).ws = cl.ws
BY DEF ClientOf, onBroadcast

\* What an ack does to each field of a client.
LEMMA AckFields ==
    ASSUME NEW P, NEW cl \in ClientOf(P), NEW n, NEW keys
    PROVE  /\ onAck(cl, n, keys).view = cl.view
           /\ onAck(cl, n, keys).outbox
                = {o \in cl.outbox : KeyOf[o] \notin keys}
           /\ onAck(cl, n, keys).lastAckedSeq = n
           /\ onAck(cl, n, keys).ws = cl.ws
BY DEF ClientOf, onAck

\* A broadcast reaches the documents of the clients whose registered link is up
\* and nothing else of any client.
LEMMA BroadcastEffect ==
    ASSUME Typed, NEW room, NEW S, NEW except, broadcast(room, S, except),
           NEW c \in Clients
    PROVE  /\ client'[c].view =
                IF c # except /\ Up(room.sockets[c]) THEN client[c].view \cup S
                ELSE client[c].view
           /\ client'[c].outbox = client[c].outbox
           /\ client'[c].lastAckedSeq = client[c].lastAckedSeq
           /\ client'[c].ws = client[c].ws
<1>1. client[c] \in ClientOf(produced)
  BY DEF Typed, TypedClient
<1>2. client'[c] = IF c # except /\ Up(room.sockets[c])
                   THEN onBroadcast(client[c], S) ELSE client[c]
  BY DEF broadcast
<1> QED
  <2>1. CASE c # except /\ Up(room.sockets[c])
    <3>1. client'[c] = onBroadcast(client[c], S)
      BY <1>2, <2>1
    <3> QED
      BY <1>1, <2>1, <3>1, BroadcastFields
  <2>2. CASE ~(c # except /\ Up(room.sockets[c]))
    BY <1>2, <2>2
  <2> QED
    BY <2>1, <2>2

\* A join changes the client of its socket only: its document and its cursor.
LEMMA JoinEffect ==
    ASSUME Typed, NEW s \in Sockets, NEW i, NEW k, NEW rest,
           JoinRoom(s, i, k, rest), NEW c \in Clients
    PROVE  /\ client'[c].outbox = client[c].outbox
           /\ client'[c].ws = client[c].ws
           /\ c # clientOf(s) \/ ~Up(s) => client'[c] = client[c]
           /\ c = clientOf(s) /\ Up(s) =>
                /\ client'[c].lastAckedSeq = heap[i].seq
                /\ client'[c].view =
                     IF getOpsSince(heap[i], k) # None
                     THEN client[c].view \cup getOpsSince(heap[i], k)
                     ELSE snapshot(heap[i]) \cup client[c].outbox
<1>1. client[c] \in ClientOf(produced)
  BY DEF Typed, TypedClient
<1>2. CASE c = clientOf(s) /\ Up(s)
  <2>1. client'[c] = IF getOpsSince(heap[i], k) # None
                     THEN onSync(client[c], heap[i].seq, getOpsSince(heap[i], k))
                     ELSE onSnapshot(client[c], heap[i].seq, snapshot(heap[i]))
    BY <1>2 DEF JoinRoom, Typed, TypedClient
  <2> QED
    <3> DEFINE missed == getOpsSince(heap[i], k)
    <3>1. CASE missed # None
      <4>1. client'[c] = onSync(client[c], heap[i].seq, missed)
        BY <2>1, <3>1
      <4> HIDE DEF missed
      <4>2. /\ client'[c].view = client[c].view \cup missed
            /\ client'[c].outbox = client[c].outbox
            /\ client'[c].lastAckedSeq = heap[i].seq
            /\ client'[c].ws = client[c].ws
        BY <1>1, <4>1, SyncFields
      <4> QED
        BY <1>2, <3>1, <4>2 DEF missed
    <3>2. CASE missed = None
      <4>1. client'[c] = onSnapshot(client[c], heap[i].seq, snapshot(heap[i]))
        BY <2>1, <3>2
      <4>2. /\ client'[c].view = snapshot(heap[i]) \cup client[c].outbox
            /\ client'[c].outbox = client[c].outbox
            /\ client'[c].lastAckedSeq = heap[i].seq
            /\ client'[c].ws = client[c].ws
        BY <1>1, <4>1, SyncFields
      <4> QED
        BY <1>2, <3>2, <4>2
    <3> QED
      BY <3>1, <3>2
<1>3. CASE c # clientOf(s) \/ ~Up(s)
  BY <1>3 DEF JoinRoom, Typed, TypedClient
<1> QED
  BY <1>2, <1>3

\* Every operation has a key of its own: inserts and formats, no deletes.
DistinctKeys == \A a, b \in Ops : KeyOf[a] = KeyOf[b] => a = b

\* A step that neither produces nor acks anything leaves every outbox as it is.
LEMMA OutboxFrame ==
    ASSUME Typed, [Next]_vars,
           ~\E c \in Clients, op \in Ops : ApplyLocalEdits(c, op),
           ~\E t \in tasks : Ack(t)
    PROVE  /\ UNCHANGED <<produced, acked>>
           /\ \A c \in Clients : client'[c].outbox = client[c].outbox
<1>1. ASSUME NEW c \in Clients, ClientStep(c)
      PROVE  /\ UNCHANGED <<produced, acked>>
             /\ \A d \in Clients : client'[d].outbox = client[d].outbox
  <2>1. UNCHANGED <<produced, acked>>
        /\ \E s : client' = [client EXCEPT ![c].ws = s]
    BY <1>1 DEF ClientStep, Connect, ClientClose
  <2> QED
    BY <2>1 DEF Typed, TypedClient, ClientOf
<1>2. ASSUME NEW s \in Sockets, Break(s) \/ ServerClose(s) \/ DispatchMessage(s)
      PROVE  /\ UNCHANGED <<produced, acked>>
             /\ \A d \in Clients : client'[d].outbox = client[d].outbox
  <2>1. CASE DispatchJoin(s)
    BY <2>1, JoinEffect DEF DispatchJoin
  <2> QED
    BY <1>2, <2>1 DEF Break, ServerClose, DispatchMessage, DispatchOp,
                      DispatchTooEarly, clientVars
<1>3. ASSUME NEW t \in tasks, TaskStep(t)
      PROVE  /\ UNCHANGED <<produced, acked>>
             /\ \A d \in Clients : client'[d].outbox = client[d].outbox
  <2>1. CASE Subscribe(t)
    <3>1. t.pc = "subscribe" /\ t.type \in {"join", "op"}
      BY <2>1 DEF Subscribe
    <3>2. t.socket \in Sockets
      BY <3>1, TaskInRoom
    <3> QED
      BY <2>1, <3>2, JoinEffect DEF Subscribe
  <2>2. CASE ApplyAndBroadcast(t)
    BY <2>2, BroadcastEffect DEF ApplyAndBroadcast
  <2> QED
    BY <1>3, <2>1, <2>2 DEF TaskStep, LoadDocument, LoadSnapshot, LoadOperations,
       LoadFails, SubscribeFails, Publish, Persist, PersistFails, clientVars
<1>4. ASSUME NEW p \in Procs, HandleRemoteOp(p) \/ Tick(p) \/ Crash(p)
      PROVE  /\ UNCHANGED <<produced, acked>>
             /\ \A d \in Clients : client'[d].outbox = client[d].outbox
  <2>1. CASE HandleRemoteOp(p)
    BY <2>1, BroadcastEffect DEF HandleRemoteOp
  <2> QED
    BY <1>4, <2>1 DEF Tick, TickSnapshot, TickWrite, TickIdle, TickEvict, Crash,
                      clientVars
<1>5. CASE UNCHANGED vars
  BY <1>5 DEF vars, clientVars
<1> QED
  BY <1>1, <1>2, <1>3, <1>4, <1>5 DEF Next

\* Ack takes out of the outbox what it adds to acked, and nothing else.
LEMMA AckEffect ==
    ASSUME DistinctKeys, Typed, NEW t \in tasks, Ack(t), NEW c \in Clients
    PROVE  /\ client[c].outbox \subseteq client'[c].outbox \cup acked'
           /\ client'[c].outbox \subseteq client[c].outbox
           /\ acked \subseteq acked' /\ acked' \subseteq acked \cup t.ops
           /\ client'[c].view = client[c].view /\ client'[c].ws = client[c].ws
<1> DEFINE d == clientOf(t.socket)
<1>1. CASE UNCHANGED <<client, acked>>
  BY <1>1
<1>2. CASE /\ client' = [client EXCEPT ![d] =
                           onAck(client[d], t.seq, KeysOf(t.ops))]
           /\ acked' = acked \cup t.ops
  <2>1. /\ client[c] \in ClientOf(produced) /\ t.ops \subseteq Ops
        /\ client[c].outbox \subseteq Ops /\ client \in [Clients -> ClientOf(produced)]
    BY DEF Typed, TypedClient, TypedTasks, TypedHistory, TaskOf, ClientOf
  <2>2. \A o \in Ops : KeyOf[o] \in KeysOf(t.ops) => o \in t.ops
    BY <2>1 DEF DistinctKeys, KeysOf
  <2>3. CASE c = d
    <3>1. client'[c] = onAck(client[c], t.seq, KeysOf(t.ops))
      BY <1>2, <2>1, <2>3
    <3>2. client'[c].outbox = {o \in client[c].outbox : KeyOf[o] \notin KeysOf(t.ops)}
          /\ client'[c].view = client[c].view /\ client'[c].ws = client[c].ws
      BY <2>1, <3>1, AckFields
    <3> QED
      BY <1>2, <2>1, <2>2, <3>2
  <2>4. CASE c # d
    BY <1>2, <2>1, <2>4
  <2> QED
    BY <2>3, <2>4
<1> QED
  BY <1>1, <1>2 DEF Ack

\* An edit adds its operation to the outbox of its author, which keeps the rest.
LEMMA EditEffect ==
    ASSUME DistinctKeys, Typed, NEW d \in Clients, NEW op \in Ops,
           ApplyLocalEdits(d, op), NEW c \in Clients
    PROVE  /\ client'[c].outbox
                = client[c].outbox \cup (IF c = d THEN {op} ELSE {})
           /\ client'[c].view
                = client[c].view \cup (IF c = d THEN {op} ELSE {})
           /\ client'[c].lastAckedSeq = client[c].lastAckedSeq
           /\ client'[c].ws = client[c].ws
<1>1. /\ client \in [Clients -> ClientOf(produced)] /\ op \notin produced
      /\ client' = [client EXCEPT ![d] = edited(client[d], op)]
      /\ client[c] \in ClientOf(produced) /\ produced \subseteq Ops
  BY DEF Typed, TypedClient, TypedHistory, ApplyLocalEdits
<1>2. CASE c = d
  <2>1. client'[c] = edited(client[c], op)
    BY <1>1, <1>2
  <2>2. {o \in client[c].outbox : KeyOf[o] # KeyOf[op]} = client[c].outbox
    <3>1. client[c].outbox \subseteq produced
      BY <1>1 DEF ClientOf
    <3> QED
      BY <1>1, <3>1 DEF DistinctKeys
  <2> QED
    BY <1>1, <1>2, <2>1, <2>2, EditedFields
<1>3. CASE c # d
  BY <1>1, <1>3
<1> QED
  BY <1>2, <1>3

\* Every step keeps what is produced in sight: in an outbox or acked.
LEMMA OutboxNext ==
    ASSUME DistinctKeys, Typed, [Next]_vars, OutboxKeepsUnacked
    PROVE  OutboxKeepsUnacked'
<1> SUFFICES ASSUME NEW op \in produced'
             PROVE  op \in acked' \/ op \in client'[AuthorOf[op]].outbox
  BY DEF OutboxKeepsUnacked
<1>1. op \in produced => op \in acked \/ op \in client[AuthorOf[op]].outbox
  BY DEF OutboxKeepsUnacked
<1>2. ASSUME NEW o \in Ops PROVE AuthorOf[o] \in Clients
  BY RoomManagerAssumption
<1>3. produced \subseteq Ops
  BY DEF Typed, TypedHistory
<1>4. ASSUME NEW t \in tasks, Ack(t)
      PROVE  op \in acked' \/ op \in client'[AuthorOf[op]].outbox
  <2>1. op \in produced
    BY <1>4 DEF Ack
  <2> QED
    BY <1>1, <1>2, <1>3, <1>4, <2>1, AckEffect
<1>5. ASSUME NEW c \in Clients, NEW o \in Ops, ApplyLocalEdits(c, o)
      PROVE  op \in acked' \/ op \in client'[AuthorOf[op]].outbox
  <2>1. acked' = acked /\ produced' = produced \cup {o} /\ AuthorOf[o] = c
    BY <1>5 DEF ApplyLocalEdits
  <2> QED
    BY <1>1, <1>2, <1>3, <1>5, <2>1, EditEffect
<1>6. CASE /\ ~\E c \in Clients, o \in Ops : ApplyLocalEdits(c, o)
           /\ ~\E t \in tasks : Ack(t)
  BY <1>1, <1>2, <1>3, <1>6, OutboxFrame
<1> QED
  BY <1>4, <1>5, <1>6

\* Whatever processes, rooms and links do, an operation that is produced is in
\* its author's outbox until its author holds the ack: flushOutbox resends it
\* after every join.  Two operations with one key would share an entry.
THEOREM OutboxSafe ==
    ASSUME DistinctKeys PROVE Spec => []OutboxKeepsUnacked
<1>1. Init => OutboxKeepsUnacked
  BY DEF Init, OutboxKeepsUnacked
<1>2. Typed /\ OutboxKeepsUnacked /\ [Next]_vars => OutboxKeepsUnacked'
  BY OutboxNext
<1> QED
  BY <1>1, <1>2, TypedInit, TypedNext, PTL DEF Spec

-----------------------------------------------------------------------------
(* The tables before the first snapshot.  What is proved here holds with any
   number of processes, overlapping loads and evictions. *)

\* Seqs count from 1: a load without a snapshot reads the rows above 0.
Numbered ==
    /\ \A t \in tasks : t.pc \in OpPcs => t.seq > 0
    /\ \A p \in Procs : \A i \in 1..Len(inbox[p]) : inbox[p][i].seq > 0
    /\ \A row \in store.rows : row.seq > 0

\* appendOps writes the Document row with the first row of its operations.
RowsHaveDocument == store.rows # {} => store.latestSeq # None

InRows(op) == \E row \in store.rows : row.op = op

\* An operation whose ack is sent or about to be sent has a row, until a
\* snapshot takes the rows away.
AckedHaveRows ==
    store.snapshots = {} =>
        /\ \A op \in acked : InRows(op)
        /\ \A t \in tasks : t.pc = "ack" => \A op \in t.ops : InRows(op)

\* A task of the step is an old one, or one that is not yet at its ack.
NoNewAcks ==
    \A u \in tasks' : \/ u \in tasks
                      \/ u.pc \notin OpPcs
                      \/ u.pc # "ack" /\ u.seq > 0

\* A step that leaves the tables and the channel alone.
LEMMA RowsFrame ==
    ASSUME Numbered, AckedHaveRows, NoNewAcks, UNCHANGED <<store, inbox, acked>>
    PROVE  Numbered' /\ AckedHaveRows'
<1>1. Numbered'
  BY DEF Numbered, NoNewAcks
<1>2. AckedHaveRows'
  BY DEF AckedHaveRows, NoNewAcks, InRows, OpPcs
<1> QED
  BY <1>1, <1>2

\* A task that goes on, with any of its fields changed, is still typed.
LEMMA TaskFields ==
    ASSUME Typed, NEW t \in tasks
    PROVE  /\ t \in TaskOf(produced) /\ t.seq \in Nat /\ t.ops \subseteq produced
           /\ t.pc \in LoadPcs \cup OpPcs /\ t.proc \in Procs
BY DEF Typed, TypedTasks, TaskOf

\* The counter gives a task a positive seq, or ends it.
LEMMA AllocateNumbers ==
    ASSUME Typed, NEW t \in TaskOf(produced), NEW i, AllocateSeq(t, i)
    PROVE  NoNewAcks
<1>1. CASE Done(t)
  BY <1>1 DEF Done, NoNewAcks
<1>2. CASE Becomes(t, [t EXCEPT !.pc = "apply", !.room = i, !.seq = lastSeq + 1,
                                !.loaded = NothingLoaded])
  <2> DEFINE u == [t EXCEPT !.pc = "apply", !.room = i, !.seq = lastSeq + 1,
                            !.loaded = NothingLoaded]
  <2>1. u.pc = "apply" /\ u.seq = lastSeq + 1
    BY DEF TaskOf
  <2>2. lastSeq \in Nat
    BY DEF Typed, TypedStore
  <2>3. tasks' = (tasks \ {t}) \cup {u}
    BY <1>2 DEF Becomes
  <2> HIDE DEF u
  <2> QED
    BY <2>1, <2>2, <2>3 DEF NoNewAcks
<1> QED
  BY <1>1, <1>2 DEF AllocateSeq

\* A message gets a task that has everything before it.
LEMMA DispatchNumbers ==
    ASSUME Typed, NEW s \in Sockets, DispatchMessage(s)
    PROVE  NoNewAcks /\ UNCHANGED <<store, inbox, acked>>
<1>1. CASE DispatchJoin(s)
  <2>1. \A u \in tasks' : u \in tasks \/ u.pc = "document"
    BY <1>1 DEF DispatchJoin, newTask
  <2> QED
    BY <1>1, <2>1 DEF NoNewAcks, OpPcs, DispatchJoin
<1>2. CASE DispatchOp(s)
  <2> DEFINE p == sockets[s].proc
             t == newTask("op", p, s, 0, Head(wire[s]).ops)
  <2>1. UNCHANGED <<store, inbox, acked>>
    BY <1>2 DEF DispatchOp, clientVars
  <2>2. CASE AllocateSeq(t, rooms[p])
    <3>1. wire[s] # <<>> /\ Head(wire[s]).type = "op"
      BY <1>2 DEF DispatchOp
    <3>2. p \in Procs /\ Head(wire[s]).ops \in SUBSET produced
      BY <3>1, WireHead
    <3>3. t \in TaskOf(produced)
      BY <3>2, NewTaskType
    <3> QED
      BY <2>1, <2>2, <3>3, AllocateNumbers
  <2>3. CASE tasks' = tasks \cup {t}
    <3>1. t.pc = "document"
      BY DEF newTask
    <3> QED
      BY <2>1, <2>3, <3>1 DEF NoNewAcks, OpPcs
  <2> QED
    BY <1>2, <2>2, <2>3 DEF DispatchOp
<1>3. CASE DispatchTooEarly(s)
  BY <1>3 DEF DispatchTooEarly, NoNewAcks, serverVars, clientVars
<1> QED
  BY <1>1, <1>2, <1>3 DEF DispatchMessage


\* A room is loaded, joined, given an operation: nothing is saved yet.
LEMMA TaskNumbers ==
    ASSUME Typed, Numbered, NEW t \in tasks,
           \/ LoadDocument(t) \/ LoadSnapshot(t) \/ LoadOperations(t)
           \/ LoadFails(t) \/ Subscribe(t) \/ SubscribeFails(t)
           \/ ApplyAndBroadcast(t) \/ PersistFails(t)
    PROVE  NoNewAcks /\ UNCHANGED <<store, inbox, acked>>
<1>1. /\ t \in TaskOf(produced) /\ t.seq \in Nat
      /\ t.pc \in OpPcs => t.seq > 0
  BY TaskFields DEF Numbered
<1>2. ASSUME NEW u, u.pc \notin OpPcs, Becomes(t, u) PROVE NoNewAcks
  BY <1>2 DEF Becomes, NoNewAcks
<1>3. ASSUME Done(t) PROVE NoNewAcks
  BY <1>3 DEF Done, NoNewAcks
<1>4. ASSUME NEW loaded, NEW batches, CreateRoom(t, loaded, batches)
      PROVE  NoNewAcks
  <2> DEFINE u == [t EXCEPT !.pc = "subscribe", !.room = Len(heap) + 1,
                            !.loaded = NothingLoaded]
  <2>1. u.pc = "subscribe"
    BY <1>1 DEF TaskOf
  <2>2. Becomes(t, u)
    BY <1>4 DEF CreateRoom
  <2> HIDE DEF u
  <2>3. u.pc \notin OpPcs
    BY <2>1 DEF OpPcs
  <2> QED
    BY <1>2, <2>2, <2>3
<1>5. CASE LoadDocument(t)
  <2> DEFINE u == [t EXCEPT !.pc = "snapshot", !.loaded.latestSeq = store.latestSeq]
  <2>1. u.pc = "snapshot"
    BY <1>1 DEF TaskOf
  <2>2. CreateRoom(t, NothingLoaded, {}) \/ Becomes(t, u)
    BY <1>5 DEF LoadDocument
  <2>3. UNCHANGED <<store, inbox, acked>>
    BY <1>5 DEF LoadDocument, clientVars
  <2> HIDE DEF u
  <2>4. u.pc \notin OpPcs
    BY <2>1 DEF OpPcs
  <2> QED
    BY <1>2, <1>4, <2>2, <2>3, <2>4
<1>6. CASE LoadSnapshot(t)
  <2>1. PICK found : Becomes(t, [t EXCEPT !.pc = "operations",
                                          !.loaded.snapshot = found])
    BY <1>6 DEF LoadSnapshot
  <2> DEFINE u == [t EXCEPT !.pc = "operations", !.loaded.snapshot = found]
  <2>2. u.pc = "operations"
    BY <1>1 DEF TaskOf
  <2>3. UNCHANGED <<store, inbox, acked>>
    BY <1>6 DEF LoadSnapshot, clientVars
  <2> HIDE DEF u
  <2>4. Becomes(t, u)
    BY <2>1 DEF u
  <2>5. u.pc \notin OpPcs
    BY <2>2 DEF OpPcs
  <2> QED
    BY <1>2, <2>3, <2>4, <2>5
<1>7. CASE LoadOperations(t)
  BY <1>4, <1>7 DEF LoadOperations, clientVars
<1>8. CASE LoadFails(t) \/ SubscribeFails(t) \/ PersistFails(t)
  BY <1>3, <1>8 DEF LoadFails, SubscribeFails, PersistFails, clientVars
<1>9. CASE Subscribe(t)
  BY <1>1, <1>3, <1>9, AllocateNumbers DEF Subscribe
<1>10. CASE ApplyAndBroadcast(t)
  <2> DEFINE u == [t EXCEPT !.pc = "publish"]
  <2>1. u.pc = "publish" /\ u.seq = t.seq
    BY <1>1 DEF TaskOf
  <2>2. Becomes(t, u) /\ t.pc = "apply" /\ UNCHANGED <<store, inbox, acked>>
    BY <1>10 DEF ApplyAndBroadcast
  <2> HIDE DEF u
  <2> QED
    BY <1>1, <2>1, <2>2 DEF OpPcs, Becomes, NoNewAcks
<1> QED
  BY <1>5, <1>6, <1>7, <1>8, <1>9, <1>10

\* The batch that goes to the other processes carries the seq of its task.
LEMMA PublishRows ==
    ASSUME Typed, Numbered, AckedHaveRows, NEW t \in tasks, Publish(t)
    PROVE  Numbered' /\ AckedHaveRows'
<1> DEFINE u == [t EXCEPT !.pc = "append"]
           batch == [seq |-> t.seq, ops |-> t.ops]
<1>1. u.pc = "append" /\ u.seq = t.seq /\ batch.seq = t.seq
  BY TaskFields DEF TaskOf
<1>2. t.seq > 0
  BY DEF Publish, Numbered, OpPcs
<1>3. /\ tasks' = (tasks \ {t}) \cup {u} /\ UNCHANGED <<store, acked>>
      /\ UNCHANGED inbox \/ publish(t.proc, batch)
  BY DEF Publish, Becomes, clientVars
<1> HIDE DEF u, batch
<1>4. ASSUME NEW p \in Procs, NEW i \in 1..Len(inbox'[p])
      PROVE  inbox'[p][i].seq > 0
  <2>1. inbox[p] \in Seq(BatchOf(produced))
    BY DEF Typed, TypedBus
  <2>2. CASE inbox'[p] = inbox[p]
    BY <2>2 DEF Numbered
  <2>3. CASE inbox'[p] = Append(inbox[p], batch)
    <3>1. CASE i = Len(inbox[p]) + 1
      BY <1>1, <1>2, <2>1, <2>3, <3>1
    <3>2. CASE i \in 1..Len(inbox[p])
      BY <2>1, <2>3, <3>2 DEF Numbered
    <3> QED
      BY <2>1, <2>3, <3>1, <3>2
  <2> QED
    BY <1>3, <2>2, <2>3 DEF publish
<1>5. Numbered'
  <2>1. \A v \in tasks' : v.pc \in OpPcs => v.seq > 0
    BY <1>1, <1>2, <1>3 DEF Numbered
  <2>2. \A row \in store'.rows : row.seq > 0
    BY <1>3 DEF Numbered
  <2> QED
    BY <1>4, <2>1, <2>2 DEF Numbered
<1>6. AckedHaveRows'
  BY <1>1, <1>3 DEF AckedHaveRows, InRows
<1> QED
  BY <1>5, <1>6

\* appendOps gives every operation of the batch a row, unless it has one.
LEMMA AppendedRows ==
    ASSUME DistinctKeys, Typed, NEW ops \in SUBSET Ops, NEW n \in Nat, n > 0,
           store' = appendOps(store, n, ops)
    PROVE  /\ \A op : InRows(op) => InRows(op)'
           /\ \A op \in ops : InRows(op)'
           /\ Numbered => \A row \in store'.rows : row.seq > 0
           /\ store'.snapshots = store.snapshots
<1> DEFINE taken == KeysOf({row.op : row \in store.rows})
           new == {[seq |-> n, op |-> op] : op \in {o \in ops : KeyOf[o] \notin taken}}
<1>1. store'.rows = store.rows \cup new /\ store'.snapshots = store.snapshots
  BY DEF appendOps, Typed, TypedStore, StoreOf
<1>2. ASSUME NEW op \in ops PROVE InRows(op)'
  <2>1. CASE KeyOf[op] \in taken
    <3>1. PICK row \in store.rows : KeyOf[row.op] = KeyOf[op]
      BY <2>1 DEF KeysOf
    <3>2. row.op \in Ops
      BY DEF Typed, TypedStore, TypedHistory, StoreOf
    <3>3. row.op = op
      BY <3>1, <3>2 DEF DistinctKeys
    <3> QED
      BY <1>1, <3>3 DEF InRows
  <2>2. CASE KeyOf[op] \notin taken
    <3>1. [seq |-> n, op |-> op] \in store'.rows
      BY <1>1, <2>2
    <3> QED
      BY <3>1 DEF InRows
  <2> QED
    BY <2>1, <2>2
<1>3. ASSUME Numbered, NEW row \in store'.rows PROVE row.seq > 0
  <2>1. CASE row \in store.rows
    BY <1>3, <2>1 DEF Numbered
  <2>2. CASE row \in new
    <3>1. PICK op \in ops : row = [seq |-> n, op |-> op]
      BY <2>2
    <3> QED
      BY <3>1
  <2> QED
    BY <1>1, <1>3, <2>1, <2>2
<1>4. \A op : InRows(op) => InRows(op)'
  BY <1>1 DEF InRows
<1> QED
  BY <1>1, <1>2, <1>3, <1>4

\* The ack comes after the commit.
LEMMA PersistRows ==
    ASSUME DistinctKeys, Typed, Numbered, AckedHaveRows, NEW t \in tasks, Persist(t)
    PROVE  Numbered' /\ AckedHaveRows'
<1> DEFINE u == [t EXCEPT !.pc = "ack"]
<1>1. /\ u.pc = "ack" /\ u.seq = t.seq /\ u.ops = t.ops
      /\ t.seq \in Nat /\ t.ops \in SUBSET Ops
  BY TaskFields DEF TaskOf, Typed, TypedHistory
<1>2. t.seq > 0
  BY DEF Persist, Numbered, OpPcs
<1>3. /\ store' = appendOps(store, t.seq, t.ops) /\ UNCHANGED <<inbox, acked>>
      /\ tasks' = (tasks \ {t}) \cup {u} \/ tasks' = tasks \ {t}
  BY DEF Persist, Becomes, Done, clientVars
<1> HIDE DEF u
<1>4. /\ \A op : InRows(op) => InRows(op)'
      /\ \A op \in t.ops : InRows(op)'
      /\ \A row \in store'.rows : row.seq > 0
      /\ store'.snapshots = store.snapshots
  BY <1>1, <1>2, <1>3, AppendedRows
<1>5. Numbered'
  BY <1>1, <1>2, <1>3, <1>4 DEF Numbered
<1>6. AckedHaveRows'
  BY <1>1, <1>3, <1>4 DEF AckedHaveRows
<1> QED
  BY <1>5, <1>6


\* An ack is sent for what its task has saved.
LEMMA AckRows ==
    ASSUME Typed, Numbered, AckedHaveRows, NEW t \in tasks, Ack(t)
    PROVE  Numbered' /\ AckedHaveRows'
<1>1. /\ t.pc = "ack" /\ tasks' = tasks \ {t} /\ UNCHANGED <<store, inbox>>
      /\ acked' \subseteq acked \cup t.ops
  BY DEF Ack, Done
<1>2. Numbered'
  BY <1>1 DEF Numbered
<1>3. AckedHaveRows'
  BY <1>1 DEF AckedHaveRows, InRows
<1> QED
  BY <1>2, <1>3

\* The batch of another process is saved once more, under its seq.
LEMMA RemoteRows ==
    ASSUME Typed, Numbered, AckedHaveRows, NEW p \in Procs, HandleRemoteOp(p)
    PROVE  Numbered' /\ AckedHaveRows'
<1> DEFINE batch == Head(inbox[p])
           t == [newTask("remote", p, None, 0, batch.ops) EXCEPT
                   !.pc = "append", !.seq = batch.seq]
<1>1. t.pc = "append" /\ t.seq = batch.seq
  BY DEF newTask
<1>2. /\ inbox[p] # <<>> /\ inbox' = [inbox EXCEPT ![p] = Tail(@)]
      /\ tasks' = tasks \cup {t} \/ tasks' = tasks
      /\ UNCHANGED <<store, acked>>
  BY DEF HandleRemoteOp
<1>3. inbox \in [Procs -> Seq(BatchOf(produced))]
  BY DEF Typed, TypedBus
<1>4. batch.seq > 0
  <2>1. 1 \in 1..Len(inbox[p]) /\ batch = inbox[p][1]
    BY <1>2, <1>3
  <2> QED
    BY <2>1 DEF Numbered
<1> HIDE DEF t, batch
<1>5. ASSUME NEW q \in Procs, NEW i \in 1..Len(inbox'[q])
      PROVE  inbox'[q][i].seq > 0
  <2>1. CASE q = p
    <3>1. inbox'[q] = Tail(inbox[p])
      BY <1>2, <1>3, <2>1
    <3>2. i + 1 \in 1..Len(inbox[p]) /\ inbox'[q][i] = inbox[p][i + 1]
      BY <1>2, <1>3, <3>1
    <3> QED
      BY <3>2 DEF Numbered
  <2>2. CASE q # p
    BY <1>2, <1>3, <2>2 DEF Numbered
  <2> QED
    BY <2>1, <2>2
<1>6. Numbered'
  <2>1. \A u \in tasks' : u.pc \in OpPcs => u.seq > 0
    BY <1>1, <1>2, <1>4 DEF Numbered
  <2>2. \A row \in store'.rows : row.seq > 0
    BY <1>2 DEF Numbered
  <2> QED
    BY <1>5, <2>1, <2>2 DEF Numbered
<1>7. AckedHaveRows'
  BY <1>1, <1>2 DEF AckedHaveRows, InRows
<1> QED
  BY <1>6, <1>7

\* A snapshot takes rows away: from then on nothing is said of them.
LEMMA WriteRows ==
    ASSUME Typed, Numbered, AckedHaveRows, NEW p \in Procs, TickWrite(p)
    PROVE  Numbered' /\ AckedHaveRows'
<1> DEFINE w == tick[p]
<1>1. UNCHANGED <<tasks, inbox, acked>>
  BY DEF TickWrite, clientVars
<1>2. CASE UNCHANGED store
  BY <1>1, <1>2, RowsFrame DEF NoNewAcks
<1>3. CASE store' = writeSnapshot(store, w.atSeq, w.state)
  <2>1. /\ store'.rows \subseteq store.rows
        /\ [seq |-> w.atSeq, ops |-> w.state] \in store'.snapshots
    BY <1>3 DEF writeSnapshot, Typed, TypedStore, StoreOf
  <2> QED
    BY <1>1, <2>1 DEF Numbered, AckedHaveRows
<1> QED
  BY <1>2, <1>3 DEF TickWrite

\* A process that dies takes its tasks and its inbox with it.
LEMMA CrashRows ==
    ASSUME Typed, Numbered, AckedHaveRows, NEW p \in Procs, Crash(p)
    PROVE  Numbered' /\ AckedHaveRows'
<1>1. /\ tasks' \subseteq tasks /\ UNCHANGED <<store, acked>>
      /\ inbox' = [inbox EXCEPT ![p] = <<>>]
  BY DEF Crash, clientVars
<1>2. ASSUME NEW q \in Procs, NEW i \in 1..Len(inbox'[q])
      PROVE  inbox'[q][i].seq > 0
  <2>1. inbox'[q] = IF q = p THEN <<>> ELSE inbox[q]
    BY <1>1 DEF Typed, TypedBus
  <2>2. q # p
    BY <1>2, <2>1
  <2> QED
    BY <1>2, <2>1, <2>2 DEF Numbered
<1>3. Numbered'
  <2>1. /\ \A u \in tasks' : u.pc \in OpPcs => u.seq > 0
        /\ \A row \in store'.rows : row.seq > 0
    BY <1>1 DEF Numbered
  <2> QED
    BY <1>2, <2>1 DEF Numbered
<1>4. AckedHaveRows'
  BY <1>1 DEF AckedHaveRows, InRows
<1> QED
  BY <1>3, <1>4

\* Every step keeps the rows of what is acked.
LEMMA RowsNext ==
    ASSUME DistinctKeys, Typed, Numbered, AckedHaveRows, [Next]_vars
    PROVE  Numbered' /\ AckedHaveRows'
<1>1. ASSUME UNCHANGED <<tasks, store, inbox, acked>>
      PROVE  Numbered' /\ AckedHaveRows'
  BY <1>1, RowsFrame DEF NoNewAcks
<1>2. ASSUME NEW c \in Clients, ClientStep(c) PROVE Numbered' /\ AckedHaveRows'
  BY <1>1, <1>2 DEF ClientStep, Connect, ApplyLocalEdits, ClientClose, serverVars
<1>3. ASSUME NEW s \in Sockets, Break(s) \/ ServerClose(s) \/ DispatchMessage(s)
      PROVE  Numbered' /\ AckedHaveRows'
  <2>1. CASE Break(s) \/ ServerClose(s)
    BY <1>1, <2>1 DEF Break, ServerClose, serverVars, clientVars
  <2>2. CASE DispatchMessage(s)
    BY <2>2, DispatchNumbers, RowsFrame
  <2> QED
    BY <1>3, <2>1, <2>2
<1>4. ASSUME NEW t \in tasks, TaskStep(t) PROVE Numbered' /\ AckedHaveRows'
  <2>1. CASE Publish(t)
    BY <2>1, PublishRows
  <2>2. CASE Persist(t)
    BY <2>2, PersistRows
  <2>3. CASE Ack(t)
    BY <2>3, AckRows
  <2>4. CASE \/ LoadDocument(t) \/ LoadSnapshot(t) \/ LoadOperations(t)
             \/ LoadFails(t) \/ Subscribe(t) \/ SubscribeFails(t)
             \/ ApplyAndBroadcast(t) \/ PersistFails(t)
    BY <2>4, TaskNumbers, RowsFrame
  <2> QED
    BY <1>4, <2>1, <2>2, <2>3, <2>4 DEF TaskStep
<1>5. ASSUME NEW p \in Procs, HandleRemoteOp(p) \/ Tick(p) \/ Crash(p)
      PROVE  Numbered' /\ AckedHaveRows'
  <2>1. CASE HandleRemoteOp(p)
    BY <2>1, RemoteRows
  <2>2. CASE TickWrite(p)
    BY <2>2, WriteRows
  <2>3. CASE Crash(p)
    BY <2>3, CrashRows
  <2>4. CASE TickSnapshot(p) \/ TickIdle(p) \/ TickEvict(p)
    BY <1>1, <2>4 DEF TickSnapshot, TickIdle, TickEvict, clientVars
  <2> QED
    BY <1>5, <2>1, <2>2, <2>3, <2>4 DEF Tick
<1>6. CASE UNCHANGED vars
  BY <1>1, <1>6 DEF vars, serverVars, clientVars
<1> QED
  BY <1>2, <1>3, <1>4, <1>5, <1>6 DEF Next

\* A row above 0 is found by a load that has no snapshot to start from.
LEMMA RowsAreDurable ==
    ASSUME Typed, Numbered, AckedHaveRows, store.snapshots = {}, RowsHaveDocument
    PROVE  AckedDurable
<1> SUFFICES ASSUME NEW op \in acked PROVE op \in DurableOps(store)
  BY DEF AckedDurable
<1>1. PICK row \in store.rows : row.op = op
  BY DEF AckedHaveRows, InRows
<1>2. op \in Ops /\ row.seq \in Nat /\ row.seq > 0 /\ store.latestSeq # None
  BY DEF Typed, TypedHistory, TypedStore, StoreOf, Numbered, RowsHaveDocument
<1> DEFINE after == {r \in store.rows : r.seq > 0}
           b == [seq |-> row.seq,
                 ops |-> {r.op : r \in {w \in after : w.seq = row.seq}}]
<1>3. b \in batchesAfter(store, 0) /\ op \in b.ops
  BY <1>1, <1>2 DEF batchesAfter
<1>4. op \in OpsOf(batchesAfter(store, 0))
  BY <1>3 DEF OpsOf
<1> QED
  BY <1>2, <1>4 DEF DurableOps, latestSnapshots


\* No step leaves rows without their Document row.
LEMMA DocumentNext ==
    ASSUME Typed, RowsHaveDocument, [Next]_vars
    PROVE  RowsHaveDocument'
<1>1. ASSUME UNCHANGED store PROVE RowsHaveDocument'
  BY <1>1 DEF RowsHaveDocument
<1>2. ASSUME NEW t \in tasks, Persist(t) PROVE RowsHaveDocument'
  <2>1. t.seq \in Nat /\ store' = appendOps(store, t.seq, t.ops)
    BY <1>2, TaskFields DEF Persist
  <2>2. store'.latestSeq = IF store.latestSeq = None \/ store.latestSeq < t.seq
                           THEN t.seq ELSE store.latestSeq
    BY <2>1 DEF appendOps, Typed, TypedStore, StoreOf
  <2> QED
    BY <2>1, <2>2, NoneIsNone DEF RowsHaveDocument
<1>3. ASSUME NEW p \in Procs, TickWrite(p) PROVE RowsHaveDocument'
  <2>1. CASE store' = writeSnapshot(store, tick[p].atSeq, tick[p].state)
    <3>1. store'.rows \subseteq store.rows /\ store'.latestSeq = store.latestSeq
      BY <2>1 DEF writeSnapshot, Typed, TypedStore, StoreOf
    <3> QED
      BY <3>1 DEF RowsHaveDocument
  <2> QED
    BY <1>1, <1>3, <2>1 DEF TickWrite
<1>4. ASSUME NEW c \in Clients, ClientStep(c) PROVE RowsHaveDocument'
  BY <1>1, <1>4 DEF ClientStep, Connect, ApplyLocalEdits, ClientClose
<1>5. ASSUME NEW s \in Sockets, Break(s) \/ ServerClose(s) \/ DispatchMessage(s)
      PROVE  RowsHaveDocument'
  BY <1>1, <1>5 DEF Break, ServerClose, DispatchMessage, DispatchJoin, DispatchOp,
                    DispatchTooEarly
<1>6. ASSUME NEW t \in tasks, TaskStep(t) PROVE RowsHaveDocument'
  BY <1>1, <1>2, <1>6 DEF TaskStep, LoadDocument, LoadSnapshot, LoadOperations,
     LoadFails, Subscribe, SubscribeFails, ApplyAndBroadcast, Publish,
     PersistFails, Ack
<1>7. ASSUME NEW p \in Procs, HandleRemoteOp(p) \/ Tick(p) \/ Crash(p)
      PROVE  RowsHaveDocument'
  BY <1>1, <1>3, <1>7 DEF HandleRemoteOp, Tick, TickSnapshot, TickIdle, TickEvict,
                          Crash
<1>8. CASE UNCHANGED vars
  BY <1>1, <1>8 DEF vars
<1> QED
  BY <1>4, <1>5, <1>6, <1>7, <1>8 DEF Next

\* Until the first snapshot is written, an operation whose author holds the ack
\* is in Postgres, with any number of processes that load, evict, fail and crash
\* as they may: the ack of applyClientOp follows the commit of appendOps, and
\* nothing but writeSnapshot deletes rows.
THEOREM AckedDurableBeforeSnapshots ==
    ASSUME DistinctKeys
    PROVE  Spec => [](store.snapshots = {} => AckedDurable)
<1> DEFINE IInv == Typed /\ Numbered /\ AckedHaveRows /\ RowsHaveDocument
<1>1. Init => IInv
  BY TypedInit DEF Init, EmptyStore, Numbered, AckedHaveRows, RowsHaveDocument
<1>2. IInv /\ [Next]_vars => IInv'
  BY TypedNext, RowsNext, DocumentNext
<1>3. IInv => (store.snapshots = {} => AckedDurable)
  BY RowsAreDurable
<1> QED
  BY <1>1, <1>2, <1>3, PTL DEF Spec

=============================================================================
