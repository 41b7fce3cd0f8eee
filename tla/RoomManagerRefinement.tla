----------------------- MODULE RoomManagerRefinement -----------------------
(***************************************************************************)
(* What the steps of the sync protocol do to the rooms, the tables and the *)
(* clients: the seq of a room never falls, and the protocol implements the *)
(* service of SyncService.tla.                                             *)
(***************************************************************************)
EXTENDS RoomManagerSafety

-----------------------------------------------------------------------------
(* The seq of a room *)

\* A room keeps its seq in every step but the one that applies a batch.
LEMMA SeqKept ==
    ASSUME Undisturbed, NothingBuffered, Inv, [Next]_vars,
           ~\E t \in tasks : ApplyAndBroadcast(t)
    PROVE  \A i \in DOMAIN heap : heap'[i].seq = heap[i].seq
<1>1. ASSUME SameRooms PROVE \A i \in DOMAIN heap : heap'[i].seq = heap[i].seq
  BY <1>1 DEF SameRooms
<1>2. ASSUME NEW c \in Clients, ClientStep(c)
      PROVE  \A i \in DOMAIN heap : heap'[i].seq = heap[i].seq
  BY <1>2 DEF ClientStep, Connect, ApplyLocalEdits, ClientClose, serverVars
<1>3. ASSUME NEW s \in Sockets, Break(s) \/ ServerClose(s) \/ DispatchMessage(s)
      PROVE  \A i \in DOMAIN heap : heap'[i].seq = heap[i].seq
  <2>1. CASE ServerClose(s)
    BY <1>1, <2>1, LeaveEffect
  <2>2. CASE DispatchJoin(s)
    <3> DEFINE p == sockets[s].proc
    <3>1. CASE rooms[p] # None
      <4>1. p \in Procs
        BY <2>2, FirstMessage DEF DispatchJoin
      <4>2. rooms[p] \in DOMAIN heap
        BY <3>1, <4>1, NetTypes DEF Inv
      <4>3. JoinRoom(s, rooms[p], Head(wire[s]).sinceSeq, Tail(wire[s]))
        BY <2>2, <3>1 DEF DispatchJoin
      <4> QED
        BY <1>1, <4>2, <4>3, JoinRoomEffect
    <3>2. CASE rooms[p] = None
      BY <2>2, <3>2 DEF DispatchJoin
    <3> QED
      BY <3>1, <3>2
  <2> QED
    BY <1>3, <2>1, <2>2
    DEF Break, DispatchMessage, DispatchOp, DispatchTooEarly, serverVars
<1>4. ASSUME NEW t \in tasks, TaskStep(t)
      PROVE  \A i \in DOMAIN heap : heap'[i].seq = heap[i].seq
  <2>1. CASE LoadDocument(t) \/ LoadOperations(t)
    <3>1. UNCHANGED heap \/ \E loaded, batches : CreateRoom(t, loaded, batches)
      BY <2>1 DEF LoadDocument, LoadOperations
    <3>2. UNCHANGED heap \/ \E r : heap' = Append(heap, r)
      BY <3>1 DEF CreateRoom
    <3>3. \A r : \A i \in DOMAIN heap : Append(heap, r)[i] = heap[i]
      BY DEF Inv, Typed, TypedHeap
    <3> QED
      BY <3>2, <3>3
  <2>2. CASE Subscribe(t)
    <3>1. t.pc = "subscribe" /\ t.room \in DOMAIN heap /\ t.socket \in Sockets
      BY <2>2, SeqTypes DEF Subscribe, Inv
    <3> QED
      BY <1>1, <2>2, <3>1, JoinRoomEffect DEF Subscribe
  <2> QED
    BY <1>4, <2>1, <2>2 DEF TaskStep, LoadSnapshot, LoadFails, SubscribeFails,
                            Publish, Persist, PersistFails, Ack
<1>5. ASSUME NEW p \in Procs, HandleRemoteOp(p) \/ Tick(p) \/ Crash(p)
      PROVE  \A i \in DOMAIN heap : heap'[i].seq = heap[i].seq
  <2>1. CASE TickWrite(p)
    <3>1. /\ tick[p].room \in DOMAIN heap /\ tick[p].atSeq \in Nat
          /\ heap[tick[p].room] \in RoomOf(produced)
      BY <2>1, SeqTypes DEF TickWrite, Inv, Serving
    <3>2. advanceCoverageFloor(heap[tick[p].room], tick[p].atSeq).seq
            = heap[tick[p].room].seq
      BY <3>1, AdvanceType
    <3> QED
      BY <2>1, <3>1, <3>2 DEF TickWrite
  <2> QED
    BY <1>5, <2>1, Disabled DEF Tick, TickSnapshot, Crash
<1>6. CASE UNCHANGED vars
  BY <1>6 DEF vars, serverVars
<1> QED
  BY <1>2, <1>3, <1>4, <1>5, <1>6 DEF Next

\* And a batch that is applied has a greater seq.
LEMMA SeqGrows ==
    ASSUME Undisturbed, NothingBuffered, Inv, [Next]_vars
    PROVE  \A i \in DOMAIN heap : heap'[i].seq >= heap[i].seq
<1>1. \A i \in DOMAIN heap : heap[i].seq \in Nat
  <2>1. \A i \in DOMAIN heap : heap[i] \in RoomOf(produced)
    BY HeapElement DEF Inv, Typed, TypedHeap
  <2> QED
    BY <2>1 DEF RoomOf
<1>2. ASSUME NEW t \in tasks, ApplyAndBroadcast(t)
      PROVE  \A i \in DOMAIN heap : heap'[i].seq >= heap[i].seq
  <2>1. /\ t.pc = "apply"
        /\ heap' = [heap EXCEPT ![t.room] = applyOps(@, t.ops, t.seq)]
    BY <1>2 DEF ApplyAndBroadcast
  <2>2. t.pc \in OpPcs
    BY <2>1 DEF OpPcs
  <2>3. /\ t.room \in DOMAIN heap /\ t.seq \in Nat
        /\ heap[t.room] \in RoomOf(produced)
    BY <2>2, SeqTypes DEF Inv, Serving
  <2>4. heap[t.room].seq < t.seq
    BY <2>1 DEF Inv, Core, InOrder
  <2>5. applyOps(heap[t.room], t.ops, t.seq).seq = t.seq
    BY <2>3, ApplyOpsFields
  <2> QED
    BY <1>1, <2>1, <2>3, <2>4, <2>5
<1> QED
  BY <1>1, <1>2, SeqKept

\* The seq of a room, which a join makes the cursor of a client, never falls:
\* the tasks resume in the order in which their seqs were allocated.
THEOREM RoomSeqsGrow ==
    ASSUME Undisturbed PROVE Spec /\ []NothingBuffered => RoomSeqGrows
<1>1. NothingBuffered /\ Inv /\ [Next]_vars =>
        [\A i \in DOMAIN heap : heap'[i].seq >= heap[i].seq]_vars
  BY SeqGrows
<1> QED
  BY <1>1, InvHolds, PTL DEF Spec, RoomSeqGrows

-----------------------------------------------------------------------------
(* The service *)

\* Every client shows what it showed before.
SameViews == \A c \in Clients : client'[c].view = client[c].view

\* A step that is neither an edit nor an ack leaves what is shown, or leaves the
\* tables and every acked operation in sight.
LEMMA ViewsKept ==
    ASSUME Undisturbed, NothingBuffered, Inv, [Next]_vars,
           ~\E c \in Clients, op \in Ops : ApplyLocalEdits(c, op),
           ~\E t \in tasks : Ack(t)
    PROVE  \/ SameViews
           \/ /\ UNCHANGED store
              /\ \A c \in Clients, op \in acked :
                   op \in client[c].view => op \in client'[c].view
<1> DEFINE Goal == \/ SameViews
                   \/ /\ UNCHANGED store
                      /\ \A c \in Clients, op \in acked :
                           op \in client[c].view => op \in client'[c].view
<1>1. ASSUME UNCHANGED client PROVE Goal
  BY <1>1 DEF SameViews
<1>2. ASSUME NEW s \in Sockets, NEW p \in Procs, rooms[p] # None, NEW k, NEW rest,
             Up(s) => k = client[clientOf(s)].lastAckedSeq,
             JoinRoom(s, rooms[p], k, rest), UNCHANGED store
      PROVE  Goal
  <2>1. /\ \A c \in Clients : c # clientOf(s) \/ ~Up(s) => client'[c] = client[c]
        /\ Up(s) => \A op \in Ops : Live(op) => op \in client'[clientOf(s)].view
    BY <1>2, JoinedClient
  <2>2. \A op \in acked : op \in Ops /\ Live(op)
    BY DEF Live, Inv, Typed, TypedHistory
  <2> QED
    BY <1>2, <2>1, <2>2
<1>3. ASSUME NEW c \in Clients, ClientStep(c) PROVE Goal
  <2>1. \E s : client' = [client EXCEPT ![c].ws = s]
    BY <1>3 DEF ClientStep, Connect, ClientClose
  <2>2. SameViews
    BY <2>1 DEF SameViews, Inv, Typed, TypedClient, ClientOf
  <2> QED
    BY <2>2
<1>4. ASSUME NEW s \in Sockets, Break(s) \/ ServerClose(s) \/ DispatchMessage(s)
      PROVE  Goal
  <2>1. CASE DispatchJoin(s) /\ rooms[sockets[s].proc] # None
    <3>1. /\ wire[s] # <<>> /\ Head(wire[s]).type = "join" /\ UNCHANGED store
          /\ JoinRoom(s, rooms[sockets[s].proc], Head(wire[s]).sinceSeq,
                      Tail(wire[s]))
      BY <2>1 DEF DispatchJoin
    <3>2. /\ sockets[s].proc \in Procs
          /\ Up(s) => Head(wire[s]).sinceSeq = client[clientOf(s)].lastAckedSeq
      BY <3>1, FirstMessage
    <3> QED
      BY <1>2, <2>1, <3>1, <3>2
  <2>2. CASE ~(DispatchJoin(s) /\ rooms[sockets[s].proc] # None)
    <3>1. UNCHANGED client
      BY <1>4, <2>2 DEF Break, ServerClose, DispatchMessage, DispatchJoin,
                        DispatchOp, DispatchTooEarly, clientVars
    <3> QED
      BY <1>1, <3>1
  <2> QED
    BY <2>1, <2>2
<1>5. ASSUME NEW t \in tasks, TaskStep(t) PROVE Goal
  <2>1. CASE Subscribe(t) /\ t.type = "join"
    <3>1. /\ t.pc = "subscribe" /\ UNCHANGED store
          /\ JoinRoom(t.socket, t.room, t.sinceSeq, wire[t.socket])
      BY <2>1 DEF Subscribe
    <3>2. /\ t.room = rooms[t.proc] /\ rooms[t.proc] # None /\ t.proc \in Procs
          /\ t.socket \in Sockets
          /\ Up(t.socket) => t.sinceSeq = client[clientOf(t.socket)].lastAckedSeq
      BY <2>1, <3>1, SeqTypes DEF Inv, Serving, Net, Joining, Up
    <3> QED
      BY <1>2, <3>1, <3>2
  <2>2. CASE ApplyAndBroadcast(t)
    <3>1. /\ UNCHANGED store
          /\ broadcast(heap[t.room], t.ops, clientOf(t.socket))
      BY <2>2 DEF ApplyAndBroadcast
    <3>2. ASSUME NEW c \in Clients PROVE client[c].view \subseteq client'[c].view
      <4> DEFINE author == clientOf(t.socket)
                 room == heap[t.room]
      <4>1. Typed /\ broadcast(room, t.ops, author)
        BY <3>1 DEF Inv
      <4> HIDE DEF author, room
      <4>2. client'[c].view =
              IF c # author /\ Up(room.sockets[c]) THEN client[c].view \cup t.ops
              ELSE client[c].view
        BY <4>1, BroadcastEffect
      <4> QED
        BY <4>2
    <3> QED
      BY <3>1, <3>2
  <2>3. CASE ~(Subscribe(t) /\ t.type = "join") /\ ~ApplyAndBroadcast(t)
    <3>1. UNCHANGED client
      BY <1>5, <2>3 DEF TaskStep, LoadDocument, LoadSnapshot, LoadOperations,
         LoadFails, Subscribe, SubscribeFails, Publish, Persist, PersistFails,
         clientVars
    <3> QED
      BY <1>1, <3>1
  <2> QED
    BY <2>1, <2>2, <2>3
<1>6. ASSUME NEW p \in Procs, HandleRemoteOp(p) \/ Tick(p) \/ Crash(p) PROVE Goal
  <2>1. UNCHANGED client
    BY <1>6, Disabled DEF Tick, TickSnapshot, TickWrite, Crash, clientVars
  <2> QED
    BY <1>1, <2>1
<1>7. ASSUME UNCHANGED vars PROVE Goal
  BY <1>1, <1>7 DEF vars, clientVars
<1> QED
  BY <1>3, <1>4, <1>5, <1>6, <1>7 DEF Next

\* Nothing is in the tables that nobody produced.
DurableIsProduced == DurableOps(store) \subseteq produced

\* The invariant says so.
LEMMA DurableProduced == ASSUME Inv PROVE DurableIsProduced
<1> SUFFICES ASSUME NEW op \in DurableOps(store) PROVE op \in produced
  BY DEF DurableIsProduced
<1>1. PICK s \in latestSnapshots(store) : TRUE
  BY DEF Inv, Core, Durable
<1>2. op \in s.ops \cup OpsOf(batchesAfter(store, s.seq))
  <2>1. store.latestSeq # None
    BY DEF DurableOps
  <2> QED
    BY <1>1, <2>1 DEF DurableOps
<1>3. produced \in SUBSET Ops /\ store \in StoreOf(produced)
  BY DEF Inv, Typed, TypedHistory, TypedStore
<1>4. s \in BatchOf(produced)
  BY <1>3, StoreOps
<1>5. s.seq \in Nat /\ s.ops \subseteq produced
  BY <1>4 DEF BatchOf
<1>6. batchesAfter(store, s.seq) \in SUBSET BatchOf(produced)
  BY <1>3, <1>5, StoreOps
<1> QED
  BY <1>2, <1>5, <1>6, OpsOfType

\* The start of the protocol is the start of the service.
LEMMA ServiceInit == Init => Service!Init
<1> SUFFICES ASSUME Init PROVE Service!Init
  OBVIOUS
<1>1. DurableOps(store) = {}
  BY DEF Init, EmptyStore, DurableOps
<1>2. [c \in Clients |-> client[c].view] = [c \in Clients |-> {}]
  BY DEF Init, NewClient
<1> QED
  BY <1>1, <1>2 DEF Init, Service!Init

\* Every step of the protocol is one of the service, or changes nothing there.
LEMMA ServiceNext ==
    ASSUME Undisturbed, NothingBuffered, Inv, Inv', [Next]_vars,
           AckedDurable, AckedDurable', DurableIsProduced'
    PROVE  [Service!Next]_(Service!vars)
<1> DEFINE shown == [c \in Clients |-> client[c].view]
           durable == DurableOps(store)
<1>1. /\ acked \subseteq durable /\ acked' \subseteq durable'
      /\ durable' \subseteq produced'
  BY DEF AckedDurable, DurableIsProduced
<1>2. CASE \E c \in Clients, op \in Ops : ApplyLocalEdits(c, op)
  <2>1. PICK c \in Clients, op \in Ops : ApplyLocalEdits(c, op)
    BY <1>2
  <2>2. /\ op \notin produced /\ produced' = produced \cup {op}
        /\ UNCHANGED <<store, acked>> /\ AuthorOf[op] = c
    BY <2>1 DEF ApplyLocalEdits
  <2>3. \A d \in Clients : client'[d].view
          = client[d].view \cup (IF d = c THEN {op} ELSE {})
    BY <2>1, EditEffect DEF Undisturbed, Inv
  <2>4. shown' = [shown EXCEPT ![AuthorOf[op]] = @ \cup {op}]
    <3> DEFINE after == [shown EXCEPT ![AuthorOf[op]] = @ \cup {op}]
    <3>1. ASSUME NEW d \in Clients PROVE after[d] = client'[d].view
      BY <2>2, <2>3
    <3>2. after = [d \in Clients |-> after[d]]
      OBVIOUS
    <3> HIDE DEF after
    <3>3. after = [d \in Clients |-> client'[d].view]
      BY <3>1, <3>2
    <3> QED
      BY <3>3 DEF after
  <2>5. UNCHANGED <<durable, acked>>
    BY <2>2
  <2>6. Service!Produce(op)
    BY <2>2, <2>4, <2>5 DEF Service!Produce
  <2> QED
    BY <2>6 DEF Service!Next
<1>3. CASE \E t \in tasks : Ack(t)
  <2>1. PICK t \in tasks : Ack(t)
    BY <1>3
  <2>2. UNCHANGED <<produced, store>>
    BY <2>1 DEF Ack
  <2>3. \A c \in Clients : /\ client'[c].view = client[c].view
                           /\ acked \subseteq acked'
    BY <2>1, AckEffect DEF Undisturbed, Inv
  <2>4. UNCHANGED shown /\ UNCHANGED durable
    BY <2>2, <2>3
  <2>5. acked \subseteq acked'
    BY <2>1 DEF Ack
  <2>6. Service!Acknowledge
    BY <1>1, <2>2, <2>4, <2>5 DEF Service!Acknowledge
  <2> QED
    BY <2>6 DEF Service!Next
<1>4. CASE /\ ~\E c \in Clients, op \in Ops : ApplyLocalEdits(c, op)
           /\ ~\E t \in tasks : Ack(t)
  <2>1. UNCHANGED <<produced, acked>>
    BY <1>4, OutboxFrame DEF Inv
  <2>2. CASE SameViews
    <3>1. UNCHANGED shown
      BY <2>2 DEF SameViews
    <3>2. Service!Save
      BY <1>1, <2>1, <3>1 DEF Service!Save
    <3> QED
      BY <3>2 DEF Service!Next
  <2>3. CASE /\ UNCHANGED store
             /\ \A c \in Clients, op \in acked :
                  op \in client[c].view => op \in client'[c].view
    <3>1. shown' \in [Clients -> SUBSET produced]
      <4>1. \A c \in Clients : client'[c].view \subseteq produced'
        BY DEF Inv, Typed, TypedClient, ClientOf
      <4> QED
        BY <2>1, <4>1
    <3>2. \A c \in Clients : shown[c] \cap acked \subseteq shown'[c]
      BY <2>3
    <3>3. UNCHANGED durable
      BY <2>3
    <3>4. Service!Show
      BY <2>1, <3>1, <3>2, <3>3 DEF Service!Show
    <3> QED
      BY <3>4 DEF Service!Next
  <2> QED
    BY <1>4, <2>2, <2>3, ViewsKept
<1> QED
  BY <1>2, <1>3, <1>4

\* The protocol is the service of SyncService: seqs, rooms, tables, snapshots,
\* links and crashes are what it is made of, and none of them shows.
THEOREM ProtocolIsService ==
    ASSUME Undisturbed PROVE Spec /\ []NothingBuffered => ImplementsService
<1>1. Init => Service!Init
  BY ServiceInit
<1>2. Inv => AckedDurable /\ DurableIsProduced
  BY InvDurable, DurableProduced
<1>3. /\ NothingBuffered /\ Inv /\ Inv' /\ [Next]_vars
      /\ AckedDurable /\ AckedDurable' /\ DurableIsProduced'
      => [Service!Next]_(Service!vars)
  BY ServiceNext
<1> QED
  BY <1>1, <1>2, <1>3, InvHolds, PTL DEF Spec, ImplementsService, Service!Spec


-----------------------------------------------------------------------------
(* Operations that refer to no other *)

\* Characters typed at the start of the document, for one.
Independent == \A op \in Ops : DependsOn[op] = None

\* Nothing waits in pending for an operation it does not refer to.
LEMMA NothingWaits == ASSUME Independent, Typed PROVE NothingBuffered
<1> SUFFICES ASSUME NEW i \in DOMAIN heap PROVE snapshot(heap[i]) = heap[i].ops
  BY DEF NothingBuffered
<1> DEFINE S == heap[i].ops
<1>1. S \subseteq Ops
  <2>1. heap \in Seq(RoomOf(produced)) /\ produced \subseteq Ops
    BY DEF Typed, TypedHeap, TypedHistory
  <2>2. heap[i] \in RoomOf(produced)
    BY <2>1, HeapElement
  <2> QED
    BY <2>1, <2>2 DEF RoomOf
<1> HIDE DEF S
<1>2. S \in {T \in SUBSET S : \A op \in T : DependsOn[op] \in T \cup {None}}
  BY <1>1 DEF Independent
<1>3. Integrated(S) = S
  BY <1>2 DEF Integrated
<1> QED
  BY <1>3 DEF snapshot, S

\* With such operations one process keeps every promise of the service by
\* itself, through reconnects, crashes, snapshots and failed calls: what is
\* acked is durable, a join completes what a client missed, and nobody who has
\* joined is left out.
THEOREM IndependentOpsAreServed ==
    ASSUME Undisturbed, Independent
    PROVE  Spec => /\ [](AckedDurable /\ NoOrphans)
                   /\ [](NothingMissed /\ CatchUpCompletes)
                   /\ ImplementsService
<1>1. Typed => NothingBuffered
  BY NothingWaits
<1>2. Spec => []NothingBuffered
  BY <1>1, TypedInit, TypedNext, PTL DEF Spec
<1> QED
  BY <1>2, AckedStaysDurable, NobodyOrphaned, NothingIsMissed, CatchUpIsComplete,
     ProtocolIsService, PTL

=============================================================================
