------------------------- MODULE RoomManagerSafety -------------------------
(***************************************************************************)
(* The safety of the sync protocol when one process serves the document    *)
(* and nothing makes it build a second room beside the one in use: for any *)
(* number of clients, operations, reconnects, crashes and failed calls.    *)
(***************************************************************************)
EXTENDS RoomManagerProofs

\* What the theorems are about: one process whose loads do not overlap, that
\* evicts no room and whose subscription to the channel succeeds.
Undisturbed ==
    /\ \A p, q \in Procs : p = q
    /\ SerialLoads = TRUE
    /\ MaxEvictions = 0
    /\ "subscribe" \notin Faults
    /\ DistinctKeys

\* No room has an operation in pending, waiting for the one it refers to.
NothingBuffered == \A i \in DOMAIN heap : snapshot(heap[i]) = heap[i].ops

-----------------------------------------------------------------------------
(* The inductive invariant *)

Querying == {"document", "snapshot", "operations"}
Past == {"publish", "append", "ack"}

\* One room, one load at a time, and every task and tick in that room.
Serving ==
    /\ \A p \in Procs : inbox[p] = <<>>
    /\ \A p \in Procs : tick[p] # None =>
         tick[p].pc = "write" /\ tick[p].room = rooms[p]
    /\ \A t \in tasks : t.type # "remote"
    /\ \A t \in tasks : t.pc \in {"subscribe"} \cup OpPcs
                          => t.room = rooms[t.proc]
    /\ \A t, u \in tasks : t.pc \in LoadPcs /\ u.pc \in LoadPcs => t = u
    /\ \A t \in tasks : t.pc \in Querying => rooms[t.proc] = None

\* What a load has read so far is what it would read now.
Loading ==
    /\ \A t \in tasks : t.pc \in {"snapshot", "operations"} =>
         t.loaded.latestSeq = store.latestSeq
    /\ \A t \in tasks : t.pc = "operations" =>
         t.loaded.snapshot \in latestSnapshots(store)

\* No seq is in use that was not allocated.
Allocated ==
    /\ \A r \in store.rows : store.latestSeq # None /\ r.seq <= store.latestSeq
    /\ store.latestSeq # None => store.latestSeq <= lastSeq
    /\ \A s \in store.snapshots : s.seq <= lastSeq
    /\ \A c \in Clients : client[c].lastAckedSeq <= lastSeq
    /\ \A t \in tasks : t.pc \in OpPcs => t.seq <= lastSeq
    /\ \A p \in Procs : rooms[p] # None =>
         /\ heap[rooms[p]].seq <= lastSeq
         /\ heap[rooms[p]].coverageFloor <= lastSeq

\* Seqs enter the room in order.
InOrder ==
    /\ \A t \in tasks : t.pc = "apply" =>
         /\ heap[t.room].seq < t.seq
         /\ heap[t.room].coverageFloor < t.seq
         /\ \A c \in Clients : client[c].lastAckedSeq < t.seq
    /\ \A t, u \in tasks : t.pc = "apply" /\ u.pc = "apply" /\ t.seq = u.seq
                             => t = u
    /\ \A t \in tasks : t.pc \in Past => t.seq <= heap[t.room].seq
    /\ \A p \in Procs :
         rooms[p] # None /\ heap[rooms[p]].opsSinceSnapshot > 0
           => heap[rooms[p]].coverageFloor <= heap[rooms[p]].seq
    /\ \A p \in Procs : tick[p] # None =>
         /\ tick[p].atSeq <= heap[rooms[p]].seq
         /\ heap[rooms[p]].coverageFloor <= tick[p].atSeq

\* Acked, or about to be.
Saved(op) == op \in acked \/ \E t \in tasks : t.pc = "ack" /\ op \in t.ops

\* Acked, in a row, or applied by a task that is not done.
Live(op) ==
    \/ op \in acked
    \/ \E r \in store.rows : r.op = op
    \/ \E t \in tasks : t.pc \in Past /\ op \in t.ops

RowAfter(op, n) == \E r \in store.rows : r.op = op /\ r.seq > n

\* The snapshots a load may start from, and the one that is being written.
Cuts ==
    latestSnapshots(store) \cup
    {[seq |-> tick[p].atSeq, ops |-> tick[p].state] :
       p \in {q \in Procs : tick[q] # None}}

\* The rows up to the snapshot s can be dropped: what is acked or will be is in
\* s or in a row after it, and a client that lacks it has a cursor before s.
Covers(s) ==
    /\ \A op \in Ops : Saved(op) => op \in s.ops \/ RowAfter(op, s.seq)
    /\ \A r \in store.rows : r.seq <= s.seq => r.op \in s.ops
    /\ \A t \in tasks : t.pc \in Past /\ t.seq <= s.seq => t.ops \subseteq s.ops
    /\ \A t \in tasks : t.pc = "apply" => s.seq < t.seq
    /\ \A c \in Clients, op \in Ops :
         Saved(op) /\ op \notin client[c].view /\ ~RowAfter(op, s.seq)
           => client[c].lastAckedSeq < s.seq

Durable ==
    /\ latestSnapshots(store) # {}
    /\ \A s \in Cuts : Covers(s)
    /\ \A op \in Ops : Saved(op) => store.latestSeq # None

\* The room has everything that is live.
RoomHasAll ==
    \A p \in Procs, op \in Ops :
        rooms[p] # None /\ Live(op) => op \in heap[rooms[p]].ops

\* The cursor of a client: what it lacks came after it, in the rows, in the
\* tasks and in the Document row.
Cursor ==
    /\ \A c \in Clients, r \in store.rows :
         r.op \notin client[c].view => client[c].lastAckedSeq < r.seq
    /\ \A c \in Clients, t \in tasks : t.pc \in Past =>
         t.ops \subseteq client[c].view \/ client[c].lastAckedSeq < t.seq
    /\ \A c \in Clients, op \in Ops :
         Saved(op) /\ op \notin client[c].view
           => client[c].lastAckedSeq < store.latestSeq

\* A client with cursor k gets op when it joins the room.
Delivers(room, k, op) ==
    /\ k < room.seq
    /\ k < room.coverageFloor \/ \E b \in room.opLog : op \in b.ops /\ k < b.seq

LogReaches ==
    \A c \in Clients, p \in Procs, op \in Ops :
        rooms[p] # None /\ Live(op) /\ op \notin client[c].view
          => Delivers(heap[rooms[p]], client[c].lastAckedSeq, op)

\* Connections: those of a client are numbered in order; tasks, rooms and
\* clients refer to their own.
Registered ==
    /\ \A s \in Sockets :
         sockets[s].proc # None <=> s[2] <= ConnsOf(clientOf(s))
    /\ \A s \in Sockets : sockets[s].joined => sockets[s].proc # None
    /\ \A t \in tasks : sockets[t.socket].proc = t.proc
    /\ \A c \in Clients : client[c].ws # None => clientOf(client[c].ws) = c
    /\ \A i \in DOMAIN heap, c \in Clients : heap[i].sockets[c] # None =>
         /\ clientOf(heap[i].sockets[c]) = c
         /\ sockets[heap[i].sockets[c]].joined

\* A client that the room reaches has everything that is live.
Reached ==
    \A p \in Procs, c \in Clients, op \in Ops :
        rooms[p] # None /\ Up(heap[rooms[p]].sockets[c]) /\ Live(op)
          => op \in client[c].view

\* What is on its way from a client is in its outbox or acked.
Outboxes ==
    /\ \A c \in Clients : client[c].outbox \subseteq client[c].view
    /\ \A t \in tasks :
         t.ops \subseteq client[clientOf(t.socket)].outbox \cup acked
    /\ \A s \in Sockets : \A i \in 1..Len(wire[s]) : wire[s][i].type = "op" =>
         wire[s][i].ops \subseteq client[clientOf(s)].outbox \cup acked

\* A socket has one join to come, the first message on its wire or a task, and it
\* tells the cursor of its client; only the client's own socket is up.
Joining ==
    /\ \A s \in Sockets : sockets[s].up => client[clientOf(s)].ws = s
    /\ \A s \in Sockets : \A i \in 1..Len(wire[s]) : wire[s][i].type = "join" =>
         /\ i = 1 /\ ~sockets[s].joined
         /\ \A t \in tasks : t.type = "join" => t.socket # s
         /\ sockets[s].up =>
              wire[s][i].sinceSeq = client[clientOf(s)].lastAckedSeq
    /\ \A t \in tasks : t.type = "join" =>
         /\ ~sockets[t.socket].joined
         /\ sockets[t.socket].up =>
              t.sinceSeq = client[clientOf(t.socket)].lastAckedSeq

Core == Allocated /\ InOrder /\ Durable /\ RoomHasAll /\ Cursor /\ LogReaches
Net == Registered /\ NoOrphans /\ Reached /\ Outboxes /\ Joining

Inv == Typed /\ Serving /\ Loading /\ Core /\ Net

-----------------------------------------------------------------------------
(* What the store and the room hold *)

\* The batches of the rows after n hold just the operations of those rows.
LEMMA RowsFound ==
    ASSUME NEW P, NEW st \in StoreOf(P), NEW n \in Nat
    PROVE  /\ \A op : op \in OpsOf(batchesAfter(st, n))
                        <=> \E r \in st.rows : r.op = op /\ r.seq > n
           /\ \A r \in st.rows : r.seq > n =>
                \E b \in batchesAfter(st, n) : r.op \in b.ops /\ b.seq = r.seq
           /\ \A b \in batchesAfter(st, n) :
                \E r \in st.rows : b.seq = r.seq /\ r.seq > n
<1> DEFINE after == {row \in st.rows : row.seq > n}
           ops(m) == {row.op : row \in {w \in after : w.seq = m}}
           batches == {[seq |-> m, ops |-> ops(m)] :
                         m \in {row.seq : row \in after}}
<1>1. batchesAfter(st, n) = batches
  BY DEF batchesAfter
<1>2. ASSUME NEW r \in st.rows, r.seq > n
      PROVE  \E b \in batches : r.op \in b.ops /\ b.seq = r.seq
  <2>1. r \in after /\ r.op \in ops(r.seq)
    BY <1>2
  <2> HIDE DEF ops
  <2>2. [seq |-> r.seq, ops |-> ops(r.seq)] \in batches
    BY <2>1
  <2> QED
    BY <2>1, <2>2
<1>3. ASSUME NEW b \in batches
      PROVE  \E r \in after : b.seq = r.seq /\ b.ops = ops(r.seq)
  OBVIOUS
<1>4. ASSUME NEW b \in batches, NEW op \in b.ops
      PROVE  \E r \in st.rows : r.op = op /\ r.seq > n
  BY <1>3, <1>4
<1> HIDE DEF batches, ops
<1> QED
  BY <1>1, <1>2, <1>3, <1>4 DEF OpsOf

\* DurableOps in terms of rows.
LEMMA DurableMeans ==
    ASSUME Typed, store.latestSeq # None, NEW op \in Ops,
           \A s \in latestSnapshots(store) : op \in s.ops \/ RowAfter(op, s.seq)
    PROVE  op \in DurableOps(store)
<1>1. \A s \in latestSnapshots(store) : s.seq \in Nat
  BY StoreOps DEF Typed, TypedStore, TypedHistory, BatchOf
<1>2. ASSUME NEW s \in latestSnapshots(store)
      PROVE  op \in s.ops \cup OpsOf(batchesAfter(store, s.seq))
  BY <1>1, RowsFound DEF Typed, TypedStore, RowAfter
<1> QED
  BY <1>2 DEF DurableOps

\* The types of the parts that the invariant compares.
LEMMA SeqTypes ==
    ASSUME Typed, Serving
    PROVE  /\ \A p \in Procs : rooms[p] # None =>
                /\ rooms[p] \in DOMAIN heap
                /\ heap[rooms[p]] \in RoomOf(produced)
                /\ heap[rooms[p]].seq \in Nat
                /\ heap[rooms[p]].coverageFloor \in Nat
                /\ heap[rooms[p]].opsSinceSnapshot \in Nat
           /\ \A t \in tasks : /\ t.seq \in Nat /\ t.ops \subseteq produced
                               /\ t.proc \in Procs /\ t.socket \in Sockets
                               /\ t.type \in {"join", "op"}
           /\ \A t \in tasks : t.pc \in {"subscribe"} \cup OpPcs =>
                t.room \in DOMAIN heap /\ rooms[t.proc] # None
           /\ \A c \in Clients : client[c].lastAckedSeq \in Nat
           /\ \A r \in store.rows : r.seq \in Nat /\ r.op \in produced
           /\ \A s \in store.snapshots : s.seq \in Nat
           /\ \A s \in Cuts : s \in BatchOf(produced) /\ s.seq \in Nat
           /\ \A p \in Procs : tick[p] # None =>
                /\ tick[p].atSeq \in Nat /\ tick[p].state \subseteq produced
                /\ rooms[p] # None
           /\ store.latestSeq \in Nat \cup {None}
<1> USE DEF Typed
<1>1. \A p \in Procs : rooms[p] # None => rooms[p] \in DOMAIN heap
  BY DEF TypedRooms
<1>2. \A p \in Procs : rooms[p] # None => heap[rooms[p]] \in RoomOf(produced)
  BY <1>1, HeapElement DEF TypedHeap
<1>3. \A p \in Procs : rooms[p] # None => /\ heap[rooms[p]].seq \in Nat
                /\ heap[rooms[p]].coverageFloor \in Nat
                /\ heap[rooms[p]].opsSinceSnapshot \in Nat
  BY <1>2 DEF RoomOf
<1>4. \A t \in tasks : /\ t.seq \in Nat /\ t.ops \subseteq produced
                       /\ t.proc \in Procs /\ t.socket \in Sockets
                       /\ t.type \in {"join", "op"}
  BY DEF TypedTasks, TaskOf, InItsRoom, Serving
<1>5. \A t \in tasks : t.pc \in {"subscribe"} \cup OpPcs =>
        t.room \in DOMAIN heap /\ rooms[t.proc] # None
  <2>1. \A t \in tasks : t.pc \in {"subscribe"} \cup OpPcs => t.room \in DOMAIN heap
    BY DEF TypedTasks, InItsRoom, Serving
  <2>2. None \notin DOMAIN heap
    BY NoneIsNone DEF TypedHeap
  <2> QED
    BY <2>1, <2>2 DEF Serving
<1>6. \A c \in Clients : client[c].lastAckedSeq \in Nat
  BY DEF TypedClient, ClientOf
<1>7. \A r \in store.rows : r.seq \in Nat /\ r.op \in produced
  BY DEF TypedStore, StoreOf
<1>8. \A p \in Procs : tick[p] # None =>
        /\ tick[p].atSeq \in Nat /\ tick[p].state \subseteq produced
        /\ rooms[p] # None
  <2>1. ASSUME NEW p \in Procs, tick[p] # None
        PROVE  tick[p] \in [pc : {"write"}, room : DOMAIN heap, atSeq : Nat,
                            state : SUBSET produced]
    BY <2>1 DEF TypedTick, Serving
  <2>2. None \notin DOMAIN heap
    BY NoneIsNone DEF TypedHeap
  <2> QED
    BY <2>1, <2>2 DEF Serving
<1>9. \A s \in Cuts : s \in BatchOf(produced) /\ s.seq \in Nat
  <2>1. \A s \in latestSnapshots(store) : s \in BatchOf(produced)
    BY StoreOps DEF TypedStore, TypedHistory
  <2>2. ASSUME NEW p \in Procs, tick[p] # None
        PROVE  [seq |-> tick[p].atSeq, ops |-> tick[p].state] \in BatchOf(produced)
    BY <1>8, <2>2 DEF BatchOf
  <2>3. \A s \in Cuts : s \in BatchOf(produced)
    BY <2>1, <2>2 DEF Cuts
  <2> QED
    BY <2>3 DEF BatchOf
<1>10. /\ store.latestSeq \in Nat \cup {None}
       /\ \A s \in store.snapshots : s.seq \in Nat
  BY DEF TypedStore, StoreOf, BatchOf
<1> QED
  BY <1>1, <1>2, <1>3, <1>4, <1>5, <1>6, <1>7, <1>8, <1>9, <1>10

-----------------------------------------------------------------------------
(* Steps that change nothing that the core of the invariant is about: no seq is
   allocated, no room is created or applied to, and nothing is saved or acked *)

SameRooms ==
    /\ DOMAIN heap' = DOMAIN heap
    /\ \A i \in DOMAIN heap :
         /\ heap'[i].ops = heap[i].ops
         /\ heap'[i].seq = heap[i].seq
         /\ heap'[i].opsSinceSnapshot = heap[i].opsSinceSnapshot
         /\ heap'[i].opLog = heap[i].opLog
         /\ heap'[i].coverageFloor = heap[i].coverageFloor

Continues(t, u) ==
    /\ t.ops = u.ops /\ t.seq = u.seq /\ t.room = u.room
    /\ u.pc = "apply" => u = t
    /\ u.pc \in Past => t.pc \in Past
    /\ u.pc = "ack" => t.pc = "ack"

NoNewWork ==
    \A u \in tasks' : u.pc \in OpPcs =>
        \E t \in tasks : t.pc \in OpPcs /\ Continues(t, u)

\* A client keeps its cursor and what it shows, or catches up with the room.
ClientsKeep ==
    \A c \in Clients :
        \/ /\ client'[c].lastAckedSeq = client[c].lastAckedSeq
           /\ client[c].view \subseteq client'[c].view
        \/ /\ \E p \in Procs : /\ rooms[p] # None
                               /\ client'[c].lastAckedSeq <= heap[rooms[p]].seq
           /\ \A op \in Ops : Live(op) => op \in client'[c].view

\* The entry of the map and the tick go on, or end.
RoomsKeep ==
    \A p \in Procs :
        \/ rooms'[p] = rooms[p] /\ tick'[p] \in {tick[p], None}
        \/ rooms'[p] = None /\ tick'[p] = None

Calm ==
    /\ UNCHANGED <<store, lastSeq>>
    /\ \A op \in acked' : Saved(op)
    /\ RoomsKeep /\ SameRooms /\ NoNewWork /\ ClientsKeep

\* Such a step keeps what is saved and what is live.
LEMMA CalmLive ==
    ASSUME Calm
    PROVE  /\ \A op : Saved(op)' => Saved(op)
           /\ \A op : Live(op)' => Live(op)
           /\ \A op, n : RowAfter(op, n)' <=> RowAfter(op, n)
<1>1. \A u \in tasks' : u.pc \in Past =>
        \E t \in tasks : /\ t.pc \in Past /\ t.ops = u.ops /\ t.seq = u.seq
                         /\ u.pc = "ack" => t.pc = "ack"
  BY DEF Calm, NoNewWork, Continues, Past, OpPcs
<1>2. \A op : Saved(op)' => Saved(op)
  BY <1>1 DEF Calm, Saved, Past
<1>3. \A op : Live(op)' => Live(op)
  BY <1>1 DEF Calm, Live, Saved, Past
<1> QED
  BY <1>2, <1>3 DEF Calm, RowAfter

\* A calm step keeps every seq allocated and the tasks in their order.
LEMMA CalmSeqs ==
    ASSUME Undisturbed, Typed, Serving, Serving', Typed', Core, Calm
    PROVE  Allocated' /\ InOrder'
<1> USE SeqTypes
<1>1. \A u \in tasks' : u.pc \in OpPcs =>
        \E t \in tasks : t.pc \in OpPcs /\ Continues(t, u)
  BY DEF Calm, NoNewWork
<1>2. ASSUME NEW c \in Clients
      PROVE  client'[c].lastAckedSeq <= lastSeq
  <2>1. client'[c].lastAckedSeq \in Nat /\ lastSeq \in Nat
    BY DEF Typed, TypedClient, ClientOf, TypedStore
  <2> QED
    BY <2>1 DEF Core, Allocated, Calm, ClientsKeep
<1>3. Allocated'
  BY <1>1, <1>2 DEF Core, Allocated, Calm, SameRooms, RoomsKeep, Continues
<1>4. ASSUME NEW u \in tasks', u.pc = "apply"
      PROVE  /\ heap'[u.room].seq < u.seq
             /\ heap'[u.room].coverageFloor < u.seq
             /\ \A c \in Clients : client'[c].lastAckedSeq < u.seq
  <2>1. u \in tasks
    BY <1>1, <1>4 DEF Continues, OpPcs
  <2>2. heap[u.room].seq < u.seq /\ heap[u.room].coverageFloor < u.seq
        /\ \A c \in Clients : client[c].lastAckedSeq < u.seq
    BY <1>4, <2>1 DEF Core, InOrder
  <2>3. u.room \in DOMAIN heap /\ u.room = rooms[u.proc] /\ u.proc \in Procs
    BY <1>4, <2>1 DEF Serving, OpPcs
  <2>4. ASSUME NEW c \in Clients PROVE client'[c].lastAckedSeq < u.seq
    <3>1. client'[c].lastAckedSeq \in Nat
      BY DEF Typed, TypedClient, ClientOf
    <3> QED
      BY <2>1, <2>2, <2>3, <3>1 DEF Calm, ClientsKeep, Undisturbed
  <2> QED
    BY <2>2, <2>3, <2>4 DEF Calm, SameRooms
<1>5. \A t, u \in tasks' : t.pc = "apply" /\ u.pc = "apply" /\ t.seq = u.seq
                             => t = u
  BY <1>1 DEF Continues, OpPcs, Core, InOrder
<1>6. \A u \in tasks' : u.pc \in Past => u.seq <= heap'[u.room].seq
  <2>1. \A u \in tasks' : u.pc \in Past =>
          \E t \in tasks : t.pc \in Past /\ t.seq = u.seq /\ t.room = u.room
    BY <1>1 DEF Continues, Past, OpPcs
  <2>2. \A t \in tasks : t.pc \in Past => t.seq <= heap[t.room].seq
                                          /\ t.room \in DOMAIN heap
    BY DEF Core, InOrder, Past, OpPcs
  <2> QED
    BY <2>1, <2>2 DEF Calm, SameRooms
<1>7. \A p \in Procs :
        rooms'[p] # None /\ heap'[rooms'[p]].opsSinceSnapshot > 0
          => heap'[rooms'[p]].coverageFloor <= heap'[rooms'[p]].seq
  BY DEF Calm, SameRooms, RoomsKeep, Core, InOrder
<1>8. \A p \in Procs : tick'[p] # None =>
        /\ tick'[p].atSeq <= heap'[rooms'[p]].seq
        /\ heap'[rooms'[p]].coverageFloor <= tick'[p].atSeq
  BY DEF Calm, SameRooms, RoomsKeep, Core, InOrder
<1> QED
  BY <1>3, <1>4, <1>5, <1>6, <1>7, <1>8 DEF InOrder

\* A step after which a snapshot still covers: for a client that caught up,
\* nothing live is missing.
LEMMA CalmCovers ==
    ASSUME Typed, Serving, Core, Calm, NEW s \in Cuts
    PROVE  Covers(s)'
<1>1. Covers(s)
  BY DEF Core, Durable
<1>2. \A u \in tasks' : u.pc \in OpPcs =>
        \E t \in tasks : t.pc \in OpPcs /\ Continues(t, u)
  BY DEF Calm, NoNewWork
<1>3. \A op \in Ops : Saved(op)' => op \in s.ops \/ RowAfter(op, s.seq)'
  BY <1>1, CalmLive DEF Covers
<1>4. \A r \in store'.rows : r.seq <= s.seq => r.op \in s.ops
  BY <1>1 DEF Covers, Calm
<1>5. \A u \in tasks' : u.pc \in Past /\ u.seq <= s.seq => u.ops \subseteq s.ops
  <2>1. \A u \in tasks' : u.pc \in Past =>
          \E t \in tasks : t.pc \in Past /\ t.seq = u.seq /\ t.ops = u.ops
    BY <1>2 DEF Continues, Past, OpPcs
  <2> QED
    BY <1>1, <2>1 DEF Covers
<1>6. \A u \in tasks' : u.pc = "apply" => s.seq < u.seq
  BY <1>1, <1>2 DEF Covers, Continues, OpPcs
<1>7. ASSUME NEW c \in Clients, NEW op \in Ops, Saved(op)',
             op \notin client'[c].view, ~RowAfter(op, s.seq)'
      PROVE  client'[c].lastAckedSeq < s.seq
  <2>1. Saved(op) /\ ~RowAfter(op, s.seq) /\ Live(op)
    BY <1>7, CalmLive DEF Saved, Live, Past
  <2>2. /\ client'[c].lastAckedSeq = client[c].lastAckedSeq
        /\ op \notin client[c].view
    BY <1>7, <2>1 DEF Calm, ClientsKeep
  <2> QED
    BY <1>1, <2>1, <2>2 DEF Covers
<1> QED
  BY <1>3, <1>4, <1>5, <1>6, <1>7 DEF Covers

\* A calm step keeps what the invariant says of the tables and the room.
LEMMA CalmCore ==
    ASSUME Undisturbed, Typed, Typed', Serving, Serving', Core, Calm
    PROVE  Core'
<1>1. Allocated' /\ InOrder'
  BY CalmSeqs
<1>2. Durable'
  <2>1. Cuts' \subseteq Cuts
        /\ latestSnapshots(store)' = latestSnapshots(store)
    BY DEF Cuts, Calm, RoomsKeep
  <2>2. \A s \in Cuts' : Covers(s)'
    BY <2>1, CalmCovers
  <2> QED
    BY <2>1, <2>2, CalmLive DEF Core, Durable, Calm
<1>3. RoomHasAll'
  <2>1. \A p \in Procs : rooms[p] # None => rooms[p] \in DOMAIN heap
    BY SeqTypes
  <2> QED
    BY <2>1, CalmLive DEF Core, RoomHasAll, Calm, SameRooms, RoomsKeep
<1>4. ASSUME NEW c \in Clients, NEW op \in Ops, Live(op), op \notin client'[c].view
      PROVE  /\ client'[c].lastAckedSeq = client[c].lastAckedSeq
             /\ op \notin client[c].view
  BY <1>4 DEF Calm, ClientsKeep
<1>5. Cursor'
  <2>1. ASSUME NEW c \in Clients, NEW r \in store'.rows,
               r.op \notin client'[c].view
        PROVE  client'[c].lastAckedSeq < r.seq
    <3>1. r \in store.rows /\ r.op \in Ops /\ Live(r.op)
      BY SeqTypes DEF Calm, Live, Typed, TypedHistory
    <3> QED
      BY <1>4, <2>1, <3>1 DEF Core, Cursor
  <2>2. ASSUME NEW c \in Clients, NEW u \in tasks', u.pc \in Past
        PROVE  u.ops \subseteq client'[c].view
               \/ client'[c].lastAckedSeq < u.seq
    <3>1. PICK t \in tasks : t.pc \in Past /\ t.seq = u.seq /\ t.ops = u.ops
      BY <2>2 DEF Calm, NoNewWork, Continues, Past, OpPcs
    <3>2. t.ops \subseteq Ops /\ \A op \in t.ops : Live(op)
      BY <3>1, SeqTypes DEF Live, Typed, TypedHistory
    <3> QED
      BY <1>4, <3>1, <3>2 DEF Core, Cursor
  <2>3. ASSUME NEW c \in Clients, NEW op \in Ops, Saved(op)',
               op \notin client'[c].view
        PROVE  client'[c].lastAckedSeq < store'.latestSeq
    <3>1. Saved(op) /\ Live(op)
      BY <2>3, CalmLive DEF Saved, Live, Past
    <3> QED
      BY <1>4, <2>3, <3>1 DEF Core, Cursor, Calm
  <2> QED
    BY <2>1, <2>2, <2>3 DEF Cursor
<1>6. LogReaches'
  <2>1. ASSUME NEW c \in Clients, NEW p \in Procs, NEW op \in Ops,
               rooms'[p] # None, Live(op)', op \notin client'[c].view
        PROVE  Delivers(heap'[rooms'[p]], client'[c].lastAckedSeq, op)
    <3>1. Live(op)
      BY <2>1, CalmLive
    <3>2. rooms'[p] = rooms[p]
      BY <2>1 DEF Calm, RoomsKeep
    <3>3. rooms[p] \in DOMAIN heap
      BY <2>1, <3>2, SeqTypes
    <3>4. Delivers(heap[rooms[p]], client[c].lastAckedSeq, op)
      BY <1>4, <2>1, <3>1, <3>2 DEF Core, LogReaches
    <3> QED
      BY <1>4, <2>1, <3>1, <3>2, <3>3, <3>4 DEF Delivers, Calm, SameRooms
  <2> QED
    BY <2>1 DEF LogReaches
<1> QED
  BY <1>1, <1>2, <1>3, <1>5, <1>6 DEF Core

-----------------------------------------------------------------------------
(* The steps that change the core *)

\* AllocateSeq: the new seq is above everything.
LEMMA AllocateCore ==
    ASSUME Undisturbed, Typed, Serving, Core, NEW u,
           u.pc = "apply", u.seq = lastSeq + 1, u.proc \in Procs,
           u.room = rooms[u.proc], rooms[u.proc] # None,
           tasks' \subseteq tasks \cup {u}, lastSeq' = lastSeq + 1,
           UNCHANGED <<store, rooms, tick, heap, client, acked>>
    PROVE  Core'
<1> USE SeqTypes
<1>1. lastSeq \in Nat
  BY DEF Typed, TypedStore
<1>2. /\ \A op : Saved(op)' => Saved(op)
      /\ \A op : Live(op)' => Live(op)
      /\ \A op, n : RowAfter(op, n)' <=> RowAfter(op, n)
  BY DEF Saved, Live, RowAfter, Past
<1>3. Allocated'
  BY <1>1 DEF Core, Allocated
<1>4. InOrder'
  <2>1. \A t \in tasks : t.pc = "apply" => t.seq # u.seq
    BY <1>1 DEF Core, Allocated, OpPcs
  <2>2. \A t \in tasks' : t.pc = "apply" =>
          /\ heap[t.room].seq < t.seq
          /\ heap[t.room].coverageFloor < t.seq
          /\ \A c \in Clients : client[c].lastAckedSeq < t.seq
    BY <1>1 DEF Core, Allocated, InOrder
  <2>3. \A t, v \in tasks' : t.pc = "apply" /\ v.pc = "apply" /\ t.seq = v.seq
                               => t = v
    BY <2>1 DEF Core, InOrder
  <2> QED
    BY <2>2, <2>3 DEF Core, InOrder, Past
<1>5. ASSUME NEW s \in Cuts PROVE Covers(s)'
  <2>1. s.seq <= lastSeq
    BY <1>1 DEF Cuts, latestSnapshots, Core, Allocated, InOrder
  <2>2. Covers(s)
    BY DEF Core, Durable
  <2>3. \A t \in tasks' : t.pc = "apply" => s.seq < t.seq
    BY <1>1, <2>1, <2>2 DEF Covers
  <2> QED
    BY <1>2, <2>2, <2>3 DEF Covers, Past
<1>6. Durable'
  BY <1>2, <1>5 DEF Core, Durable, Cuts
<1>7. RoomHasAll' /\ LogReaches'
  BY <1>2 DEF Core, RoomHasAll, LogReaches
<1>8. Cursor'
  BY <1>2 DEF Core, Cursor, Past
<1> QED
  BY <1>3, <1>4, <1>6, <1>7, <1>8 DEF Core

\* applyOps and broadcast: the next seq enters the room, and its log.
LEMMA ApplyCore ==
    ASSUME Undisturbed, Typed, Serving, Core, NEW t \in tasks,
           ApplyAndBroadcast(t)
    PROVE  Core'
<1> DEFINE u == [t EXCEPT !.pc = "publish"]
           p == t.proc
           room == heap[t.room]
           new == applyOps(room, t.ops, t.seq)
<1> USE SeqTypes
<1>1. /\ t.pc = "apply" /\ InTurn(t) /\ t.pc \in OpPcs
      /\ heap' = [heap EXCEPT ![t.room] = new]
      /\ tasks' = (tasks \ {t}) \cup {u}
      /\ broadcast(room, t.ops, clientOf(t.socket))
      /\ UNCHANGED <<store, lastSeq, rooms, tick, acked>>
  BY DEF ApplyAndBroadcast, Becomes, OpPcs
<1>2. /\ t.room \in DOMAIN heap /\ t.room = rooms[p] /\ p \in Procs
      /\ \A q \in Procs : q = p
      /\ room \in RoomOf(produced) /\ t.ops \in SUBSET produced /\ t.seq \in Nat
      /\ rooms[p] # None /\ IsFiniteSet(produced)
  <2>1. t.room \in DOMAIN heap /\ t.room = rooms[p] /\ p \in Procs
        /\ rooms[p] # None
    BY <1>1 DEF Serving, OpPcs
  <2> QED
    BY <2>1 DEF Undisturbed, Typed, TypedHistory
<1>3. u.pc = "publish" /\ u.seq = t.seq /\ u.ops = t.ops /\ u.room = t.room
  BY DEF Typed, TypedTasks, TaskOf
<1>4. /\ new.ops = room.ops \cup t.ops /\ new.seq = t.seq
      /\ new.opLog = room.opLog \cup {[seq |-> t.seq, ops |-> t.ops]}
      /\ new.coverageFloor = room.coverageFloor
  <2> HIDE DEF room
  <2> QED
    BY <1>2, ApplyOpsFields
<1>5. heap'[t.room] = new /\ rooms'[p] = t.room
  BY <1>1, <1>2 DEF Typed, TypedHeap
<1>6. ASSUME NEW c \in Clients
      PROVE  /\ client'[c].lastAckedSeq = client[c].lastAckedSeq
             /\ client[c].view \subseteq client'[c].view
  <2> DEFINE author == clientOf(t.socket)
  <2>1. broadcast(room, t.ops, author)
    BY <1>1
  <2> HIDE DEF room, author
  <2> QED
    BY <2>1, BroadcastEffect
<1> HIDE DEF u, new, room, p
<1>7. /\ \A op : Saved(op)' => Saved(op)
      /\ \A op : Live(op)' => Live(op) \/ op \in t.ops
      /\ \A op, n : RowAfter(op, n)' <=> RowAfter(op, n)
  BY <1>1, <1>3 DEF Saved, Live, RowAfter, Past
<1>8. /\ room.seq < t.seq /\ room.coverageFloor < t.seq
      /\ \A c \in Clients : client[c].lastAckedSeq < t.seq
      /\ \A v \in tasks \ {t} : v.pc = "apply" => t.seq < v.seq
      /\ \A v \in tasks : v.pc \in OpPcs => v.room = t.room
      /\ room.seq \in Nat /\ room.coverageFloor \in Nat
  <2>1. room.seq < t.seq /\ room.coverageFloor < t.seq
        /\ \A c \in Clients : client[c].lastAckedSeq < t.seq
    BY <1>1 DEF Core, InOrder, room
  <2>2. \A v \in tasks \ {t} : v.pc = "apply" => t.seq < v.seq
    BY <1>1, <1>2 DEF InTurn, Core, InOrder
  <2>3. \A v \in tasks : v.pc \in OpPcs => v.room = t.room
    BY <1>1, <1>2 DEF Serving
  <2> QED
    BY <1>2, <2>1, <2>2, <2>3 DEF RoomOf
<1>9. t.seq <= lastSeq
  BY <1>1 DEF Core, Allocated
<1>10. Allocated'
  BY <1>1, <1>2, <1>3, <1>4, <1>5, <1>6, <1>9 DEF Core, Allocated, room, OpPcs
<1>11. InOrder'
  <2>1. \A v \in tasks' : v.pc = "apply" =>
          /\ heap'[v.room].seq < v.seq
          /\ heap'[v.room].coverageFloor < v.seq
          /\ \A c \in Clients : client'[c].lastAckedSeq < v.seq
    BY <1>1, <1>3, <1>4, <1>5, <1>6, <1>8 DEF Core, InOrder, OpPcs, room
  <2>2. \A v, w \in tasks' : v.pc = "apply" /\ w.pc = "apply" /\ v.seq = w.seq
                               => v = w
    BY <1>1, <1>3 DEF Core, InOrder
  <2>3. \A v \in tasks' : v.pc \in Past => v.seq <= heap'[v.room].seq
    <3>1. \A v \in tasks : v.pc \in Past => v.seq <= t.seq
      BY <1>8, <1>2 DEF Core, InOrder, room, OpPcs, Past
    <3>2. \A v \in tasks : v.pc \in Past => v.room = t.room
      BY <1>8 DEF OpPcs, Past
    <3> QED
      BY <1>1, <1>2, <1>3, <1>4, <1>5, <3>1, <3>2
  <2>4. \A q \in Procs :
          rooms'[q] # None /\ heap'[rooms'[q]].opsSinceSnapshot > 0
            => heap'[rooms'[q]].coverageFloor <= heap'[rooms'[q]].seq
    BY <1>2, <1>4, <1>5, <1>8
  <2>5. \A q \in Procs : tick'[q] # None =>
          /\ tick'[q].atSeq <= heap'[rooms'[q]].seq
          /\ heap'[rooms'[q]].coverageFloor <= tick'[q].atSeq
    BY <1>1, <1>2, <1>4, <1>5, <1>8 DEF Core, InOrder, room
  <2> QED
    BY <2>1, <2>2, <2>3, <2>4, <2>5 DEF InOrder
<1>12. ASSUME NEW s \in Cuts PROVE Covers(s)'
  <2>1. Covers(s) /\ s.seq < t.seq /\ s.seq \in Nat
    BY <1>1 DEF Core, Durable, Covers
  <2>2. \A v \in tasks' : v.pc \in Past /\ v.seq <= s.seq => v.ops \subseteq s.ops
    BY <1>1, <1>2, <1>3, <2>1 DEF Covers
  <2>3. \A v \in tasks' : v.pc = "apply" => s.seq < v.seq
    BY <1>1, <1>3, <2>1 DEF Covers
  <2>4. \A r \in store'.rows : r.seq <= s.seq => r.op \in s.ops
    BY <1>1, <2>1 DEF Covers
  <2> QED
    BY <1>6, <1>7, <2>1, <2>2, <2>3, <2>4 DEF Covers
<1>13. Durable'
  BY <1>1, <1>7, <1>12 DEF Core, Durable, Cuts
<1>14. RoomHasAll'
  BY <1>1, <1>2, <1>4, <1>5, <1>7 DEF Core, RoomHasAll, room
<1>15. Cursor'
  <2>1. \A c \in Clients, v \in tasks' : v.pc \in Past =>
          v.ops \subseteq client'[c].view \/ client'[c].lastAckedSeq < v.seq
    BY <1>1, <1>3, <1>6, <1>8 DEF Core, Cursor
  <2> QED
    BY <1>1, <1>6, <1>7, <2>1 DEF Core, Cursor
<1>16. LogReaches'
  <2>1. ASSUME NEW c \in Clients, NEW op \in Ops, Live(op)',
               op \notin client'[c].view
        PROVE  Delivers(new, client[c].lastAckedSeq, op)
    <3>1. CASE Live(op)
      <4>1. Delivers(room, client[c].lastAckedSeq, op)
        BY <1>2, <1>6, <2>1, <3>1 DEF Core, LogReaches, room
      <4> QED
        BY <1>4, <1>8, <4>1 DEF Delivers
    <3>2. CASE op \in t.ops
      <4> DEFINE b == [seq |-> t.seq, ops |-> t.ops]
      <4>1. b \in new.opLog /\ b.seq = t.seq /\ b.ops = t.ops
        BY <1>4
      <4> QED
        BY <1>4, <1>8, <3>2, <4>1 DEF Delivers
    <3> QED
      BY <1>7, <2>1, <3>1, <3>2
  <2> QED
    BY <1>2, <1>5, <1>6, <2>1 DEF LogReaches
<1> QED
  BY <1>10, <1>11, <1>13, <1>14, <1>15, <1>16 DEF Core

\* appendOps: every operation of the batch has a row afterwards, its own or an
\* earlier one; nothing else is in the new rows.
LEMMA AppendEffect ==
    ASSUME DistinctKeys, NEW P \in SUBSET Ops, NEW st \in StoreOf(P),
           NEW n \in Nat, NEW S \in SUBSET P
    PROVE  LET new == appendOps(st, n, S) IN
           /\ new.snapshots = st.snapshots
           /\ latestSnapshots(new) = latestSnapshots(st)
           /\ new.latestSeq \in Nat /\ n <= new.latestSeq
           /\ st.latestSeq # None => st.latestSeq <= new.latestSeq
           /\ new.latestSeq \in {n, st.latestSeq}
           /\ st.rows \subseteq new.rows
           /\ \A r \in new.rows : r \in st.rows \/ (r.seq = n /\ r.op \in S)
           /\ \A op \in S : \E r \in new.rows :
                r.op = op /\ (r \in st.rows \/ r.seq = n)
<1> DEFINE taken == KeysOf({row.op : row \in st.rows})
           fresh == {[seq |-> n, op |-> op] :
                       op \in {o \in S : KeyOf[o] \notin taken}}
           latest == IF st.latestSeq = None \/ st.latestSeq < n THEN n
                     ELSE st.latestSeq
           new == appendOps(st, n, S)
<1>1. new = [st EXCEPT !.latestSeq = latest, !.rows = st.rows \cup fresh]
  BY DEF appendOps
<1>2. \A op \in S : \E r \in st.rows \cup fresh :
        r.op = op /\ (r \in st.rows \/ r.seq = n)
  <2> SUFFICES ASSUME NEW op \in S
               PROVE  \E r \in st.rows \cup fresh :
                        r.op = op /\ (r \in st.rows \/ r.seq = n)
    OBVIOUS
  <2>1. CASE KeyOf[op] \notin taken
    <3> DEFINE r == [seq |-> n, op |-> op]
    <3>1. r \in fresh
      BY <2>1
    <3>2. r.op = op /\ r.seq = n
      OBVIOUS
    <3> HIDE DEF r, fresh
    <3> QED
      BY <3>1, <3>2
  <2>2. CASE KeyOf[op] \in taken
    <3>1. \A r \in st.rows : r.op \in Ops
      BY DEF StoreOf
    <3>2. PICK r \in st.rows : KeyOf[r.op] = KeyOf[op]
      BY <2>2 DEF KeysOf
    <3> QED
      BY <3>1, <3>2 DEF DistinctKeys
  <2> QED
    BY <2>1, <2>2
<1>3. ASSUME NEW r \in fresh PROVE r.seq = n /\ r.op \in S
  <2>1. PICK op \in S : r = [seq |-> n, op |-> op]
    OBVIOUS
  <2> QED
    BY <2>1
<1>4. /\ latest \in Nat /\ n <= latest /\ latest \in {n, st.latestSeq}
      /\ st.latestSeq # None => st.latestSeq <= latest
  BY DEF StoreOf
<1> HIDE DEF fresh, latest, new
<1>5. new.snapshots = st.snapshots /\ new.latestSeq = latest
      /\ new.rows = st.rows \cup fresh
  BY <1>1 DEF StoreOf
<1>6. latestSnapshots(new) = latestSnapshots(st)
  BY <1>5 DEF latestSnapshots
<1> QED
  BY <1>2, <1>3, <1>4, <1>5, <1>6 DEF new

\* Persist: the rows of the batch are added, and its ack is due.
LEMMA PersistCore ==
    ASSUME Undisturbed, Typed, Serving, Core, NEW t \in tasks, Persist(t)
    PROVE  Core'
<1> DEFINE u == [t EXCEPT !.pc = "ack"]
<1>1. /\ t.pc = "append" /\ store' = appendOps(store, t.seq, t.ops)
      /\ UNCHANGED <<lastSeq, heap, rooms, tick, client, acked>>
  BY DEF Persist, clientVars
<1>2. u.pc = "ack" /\ u.seq = t.seq /\ u.ops = t.ops /\ u.room = t.room
      /\ tasks' \subseteq (tasks \ {t}) \cup {u}
  BY DEF Persist, Becomes, Done, Typed, TypedTasks, TaskOf
<1> HIDE DEF u
<1>3. /\ store'.snapshots = store.snapshots
      /\ latestSnapshots(store') = latestSnapshots(store)
      /\ store'.latestSeq \in Nat /\ t.seq <= store'.latestSeq
      /\ store.latestSeq # None => store.latestSeq <= store'.latestSeq
      /\ store'.latestSeq \in {t.seq, store.latestSeq}
      /\ store.rows \subseteq store'.rows
      /\ \A r \in store'.rows :
           r \in store.rows \/ (r.seq = t.seq /\ r.op \in t.ops)
      /\ \A op \in t.ops : \E r \in store'.rows :
           r.op = op /\ (r \in store.rows \/ r.seq = t.seq)
  <2>1. DistinctKeys /\ produced \in SUBSET Ops /\ store \in StoreOf(produced)
        /\ t.seq \in Nat /\ t.ops \in SUBSET produced
    BY SeqTypes DEF Undisturbed, Typed, TypedHistory, TypedStore
  <2> QED
    BY <1>1, <2>1, AppendEffect
<1> USE SeqTypes
<1>4. /\ \A op : Saved(op)' => Saved(op) \/ op \in t.ops
      /\ \A op : Live(op)' => Live(op)
      /\ \A op, n : RowAfter(op, n) => RowAfter(op, n)'
  BY <1>1, <1>2, <1>3 DEF Saved, Live, RowAfter, Past
<1>5. t.seq \in Nat /\ t.seq <= lastSeq /\ t.pc \in Past /\ lastSeq \in Nat
      /\ t.ops \subseteq Ops
  BY <1>1 DEF Core, Allocated, OpPcs, Past, Typed, TypedStore, TypedHistory
<1>6. Allocated'
  <2>1. \A r \in store'.rows :
          store'.latestSeq # None /\ r.seq <= store'.latestSeq
    <3>1. store'.latestSeq # None
      BY <1>3, NoneIsNone
    <3> QED
      BY <1>3, <3>1 DEF Core, Allocated
  <2>2. store'.latestSeq <= lastSeq
    BY <1>3, <1>5, NoneIsNone DEF Core, Allocated
  <2> QED
    BY <1>1, <1>2, <1>3, <1>5, <2>1, <2>2 DEF Core, Allocated
<1>7. InOrder'
  BY <1>1, <1>2, <1>5 DEF Core, InOrder, Past
<1>8. ASSUME NEW s \in Cuts PROVE Covers(s)'
  <2>1. Covers(s) /\ s.seq \in Nat
    BY DEF Core, Durable
  <2>2. ASSUME NEW op \in t.ops PROVE op \in s.ops \/ RowAfter(op, s.seq)'
    <3>1. CASE t.seq <= s.seq
      BY <1>5, <2>1, <3>1 DEF Covers
    <3>2. CASE ~(t.seq <= s.seq)
      <4>1. PICK r \in store'.rows : r.op = op /\ (r \in store.rows \/ r.seq = t.seq)
        BY <1>3
      <4> QED
        BY <1>3, <1>5, <2>1, <3>2, <4>1 DEF Covers, RowAfter
    <3> QED
      BY <3>1, <3>2
  <2>3. \A op \in Ops : Saved(op)' => op \in s.ops \/ RowAfter(op, s.seq)'
    BY <1>4, <2>1, <2>2 DEF Covers
  <2>4. \A r \in store'.rows : r.seq <= s.seq => r.op \in s.ops
    BY <1>3, <1>5, <2>1 DEF Covers
  <2>5. \A v \in tasks' : v.pc \in Past /\ v.seq <= s.seq => v.ops \subseteq s.ops
    BY <1>2, <1>5, <2>1 DEF Covers
  <2>6. \A v \in tasks' : v.pc = "apply" => s.seq < v.seq
    BY <1>2, <2>1 DEF Covers
  <2>7. ASSUME NEW c \in Clients, NEW op \in Ops, Saved(op)',
               op \notin client'[c].view, ~RowAfter(op, s.seq)'
        PROVE  client'[c].lastAckedSeq < s.seq
    <3>1. CASE Saved(op)
      BY <1>1, <1>4, <2>1, <2>7, <3>1 DEF Covers
    <3>2. CASE op \in t.ops
      <4>1. op \notin client[c].view /\ client[c].lastAckedSeq < t.seq
        BY <1>1, <1>5, <2>7, <3>2 DEF Core, Cursor
      <4>2. PICK r \in store'.rows : r.op = op /\ (r \in store.rows \/ r.seq = t.seq)
        BY <1>3, <3>2
      <4>3. r.seq \in Nat /\ r.seq <= s.seq
        BY <1>5, <2>1, <2>7, <4>2 DEF RowAfter
      <4>4. client[c].lastAckedSeq < r.seq
        BY <4>1, <4>2 DEF Core, Cursor
      <4> QED
        BY <1>1, <2>1, <4>3, <4>4
    <3> QED
      BY <1>4, <2>7, <3>1, <3>2
  <2> QED
    BY <2>3, <2>4, <2>5, <2>6, <2>7 DEF Covers
<1>9. Durable'
  <2>1. Cuts' = Cuts
    BY <1>1, <1>3 DEF Cuts
  <2> QED
    BY <1>3, <1>8, <2>1, NoneIsNone DEF Core, Durable
<1>10. RoomHasAll' /\ LogReaches'
  BY <1>1, <1>4 DEF Core, RoomHasAll, LogReaches
<1>11. Cursor'
  <2>1. ASSUME NEW c \in Clients, NEW r \in store'.rows,
               r.op \notin client'[c].view
        PROVE  client'[c].lastAckedSeq < r.seq
    BY <1>1, <1>3, <1>5, <2>1 DEF Core, Cursor
  <2>2. \A c \in Clients, v \in tasks' : v.pc \in Past =>
          v.ops \subseteq client'[c].view \/ client'[c].lastAckedSeq < v.seq
    BY <1>1, <1>2, <1>5 DEF Core, Cursor
  <2>3. ASSUME NEW c \in Clients, NEW op \in Ops, Saved(op)',
               op \notin client'[c].view
        PROVE  client'[c].lastAckedSeq < store'.latestSeq
    <3>1. CASE Saved(op)
      <4>1. store.latestSeq # None /\ client[c].lastAckedSeq < store.latestSeq
        BY <1>1, <2>3, <3>1 DEF Core, Cursor, Durable
      <4> QED
        BY <1>1, <1>3, <4>1
    <3>2. CASE op \in t.ops
      BY <1>1, <1>3, <1>5, <2>3, <3>2 DEF Core, Cursor
    <3> QED
      BY <1>4, <2>3, <3>1, <3>2
  <2> QED
    BY <2>1, <2>2, <2>3 DEF Cursor
<1> QED
  BY <1>6, <1>7, <1>9, <1>10, <1>11 DEF Core

\* The rows and snapshots of the store after writeSnapshot.
LEMMA WriteEffect ==
    ASSUME NEW P, NEW st \in StoreOf(P), NEW n \in Nat, NEW S \in SUBSET P,
           latestSnapshots(st) # {}
    PROVE  LET new == writeSnapshot(st, n, S) IN
           /\ new.latestSeq = st.latestSeq
           /\ new.snapshots = st.snapshots \cup {[seq |-> n, ops |-> S]}
           /\ new.rows = {r \in st.rows : r.seq > n}
           /\ latestSnapshots(new) # {}
           /\ \A s \in latestSnapshots(new) :
                \/ s = [seq |-> n, ops |-> S]
                \/ s \in latestSnapshots(st) /\ n <= s.seq
<1> DEFINE w == [seq |-> n, ops |-> S]
           new == writeSnapshot(st, n, S)
<1>1. /\ new.latestSeq = st.latestSeq
      /\ new.snapshots = st.snapshots \cup {w}
      /\ new.rows = {r \in st.rows : r.seq > n}
  BY DEF writeSnapshot, StoreOf
<1>2. w.seq = n /\ w.seq \in Nat /\ \A s \in st.snapshots : s.seq \in Nat
  BY DEF StoreOf, BatchOf
<1> HIDE DEF w, new
<1>3. latestSnapshots(new) = {s \in st.snapshots \cup {w} :
                                \A t \in st.snapshots \cup {w} : t.seq <= s.seq}
  BY <1>1 DEF latestSnapshots
<1>4. latestSnapshots(new) # {}
  <2>1. CASE st.snapshots = {}
    BY <1>2, <1>3, <2>1
  <2>2. CASE st.snapshots # {}
    <3>1. PICK s \in st.snapshots : \A t \in st.snapshots : t.seq <= s.seq
      BY <2>2 DEF latestSnapshots
    <3>2. CASE n <= s.seq
      BY <1>2, <1>3, <3>1, <3>2
    <3>3. CASE ~(n <= s.seq)
      BY <1>2, <1>3, <3>1, <3>3
    <3> QED
      BY <3>2, <3>3
  <2> QED
    BY <2>1, <2>2
<1>5. ASSUME NEW s \in latestSnapshots(new), s # w
      PROVE  s \in latestSnapshots(st) /\ n <= s.seq
  BY <1>2, <1>3, <1>5 DEF latestSnapshots
<1> QED
  BY <1>1, <1>4, <1>5 DEF w, new

\* A snapshot of the room covers all that is in it.
LEMMA TickSnapshotCore ==
    ASSUME Undisturbed, NothingBuffered, Typed, Serving, Core,
           NEW p \in Procs, TickSnapshot(p)
    PROVE  Core'
<1> DEFINE room == heap[rooms[p]]
           w == [pc |-> "write", room |-> rooms[p], atSeq |-> room.seq,
                 state |-> snapshot(room)]
           cut == [seq |-> room.seq, ops |-> room.ops]
<1> USE SeqTypes
<1>1. /\ rooms[p] # None /\ tick[p] = None /\ tick' = [tick EXCEPT ![p] = w]
      /\ room.opsSinceSnapshot >= SnapshotThreshold
      /\ UNCHANGED <<store, lastSeq, heap, rooms, tasks, client, acked>>
  BY DEF TickSnapshot, SnapshotDue, clientVars
<1>2. snapshot(room) = room.ops /\ \A q \in Procs : q = p
  BY <1>1 DEF NothingBuffered, Undisturbed
<1>3. tick'[p] = w /\ w.atSeq = room.seq /\ w.state = room.ops
  BY <1>1, <1>2 DEF Typed, TypedTick
<1>4. cut.seq = room.seq /\ cut.ops = room.ops
  OBVIOUS
<1>5. Cuts' \subseteq Cuts \cup {cut}
  BY <1>1, <1>2, <1>3 DEF Cuts
<1> HIDE DEF w, cut
<1>6. /\ \A op : Saved(op)' <=> Saved(op)
      /\ \A op : Live(op)' <=> Live(op)
      /\ \A op, n : RowAfter(op, n)' <=> RowAfter(op, n)
  BY <1>1 DEF Saved, Live, RowAfter
<1>7. Covers(cut)
  <2>1. ASSUME NEW op \in Ops, Live(op) PROVE op \in room.ops
    BY <1>1, <2>1 DEF Core, RoomHasAll
  <2>2. \A op \in Ops : Saved(op) => Live(op)
    BY DEF Saved, Live, Past
  <2>3. \A r \in store.rows : r.op \in room.ops
    BY <2>1 DEF Live, Typed, TypedHistory
  <2>4. \A t \in tasks : t.pc \in Past => t.ops \subseteq room.ops
    BY <2>1 DEF Live, Typed, TypedHistory
  <2>5. \A t \in tasks : t.pc = "apply" => room.seq < t.seq
    BY <1>2 DEF Core, InOrder, Serving, OpPcs
  <2>6. \A c \in Clients, op \in Ops : Live(op) /\ op \notin client[c].view
                                         => client[c].lastAckedSeq < room.seq
    BY <1>1 DEF Core, LogReaches, Delivers
  <2> HIDE DEF room
  <2> QED
    BY <1>4, <2>1, <2>2, <2>3, <2>4, <2>5, <2>6 DEF Covers
<1>8. \A s \in Cuts' : Covers(s)'
  <2>1. ASSUME NEW s, Covers(s) PROVE Covers(s)'
    BY <1>1, <1>6, <2>1 DEF Covers
  <2> QED
    BY <1>5, <1>7, <2>1 DEF Core, Durable
<1>9. Durable'
  BY <1>1, <1>6, <1>8 DEF Core, Durable
<1>10. InOrder'
  <2>1. room.coverageFloor <= room.seq
    BY <1>1, RoomManagerAssumption DEF Core, InOrder
  <2>2. \A q \in Procs : tick'[q] # None =>
          /\ tick'[q].atSeq <= heap'[rooms'[q]].seq
          /\ heap'[rooms'[q]].coverageFloor <= tick'[q].atSeq
    BY <1>1, <1>2, <1>3, <2>1
  <2> QED
    BY <1>1, <2>2 DEF Core, InOrder
<1>11. Allocated' /\ RoomHasAll' /\ Cursor' /\ LogReaches'
  BY <1>1, <1>6 DEF Core, Allocated, RoomHasAll, Cursor, LogReaches
<1> QED
  BY <1>9, <1>10, <1>11 DEF Core

\* writeSnapshot and advanceCoverageFloor: the rows go, the log is cut, and what
\* is acked is still found.
LEMMA TickWriteCore ==
    ASSUME Undisturbed, Typed, Serving, Core, NEW p \in Procs, TickWrite(p),
           store' # store \/ heap' # heap
    PROVE  Core'
<1> DEFINE w == tick[p]
           room == heap[w.room]
           new == advanceCoverageFloor(room, w.atSeq)
           cut == [seq |-> w.atSeq, ops |-> w.state]
<1> USE SeqTypes
<1>1. /\ w # None /\ store' = writeSnapshot(store, w.atSeq, w.state)
      /\ heap' = [heap EXCEPT ![w.room] = new]
      /\ tick' = [tick EXCEPT ![p] = None]
      /\ UNCHANGED <<lastSeq, rooms, tasks, client, acked>>
  BY DEF TickWrite, clientVars
<1>2. /\ w.room = rooms[p] /\ rooms[p] # None /\ rooms[p] \in DOMAIN heap
      /\ room \in RoomOf(produced) /\ w.atSeq \in Nat
      /\ w.state \in SUBSET produced /\ \A q \in Procs : q = p
      /\ store \in StoreOf(produced) /\ lastSeq \in Nat
  BY <1>1 DEF Serving, Undisturbed, Typed, TypedStore
<1>3. /\ new.ops = room.ops /\ new.seq = room.seq
      /\ new.opLog = {b \in room.opLog : b.seq > w.atSeq}
      /\ new.coverageFloor = w.atSeq
  <2> HIDE DEF room, w
  <2> QED
    BY <1>2, AdvanceType
<1>4. heap'[rooms[p]] = new /\ \A q \in Procs : tick'[q] = None
  BY <1>1, <1>2 DEF Typed, TypedHeap, TypedTick
<1>5. /\ store'.latestSeq = store.latestSeq
      /\ store'.snapshots = store.snapshots \cup {cut}
      /\ store'.rows = {r \in store.rows : r.seq > w.atSeq}
      /\ latestSnapshots(store') # {}
      /\ \A s \in latestSnapshots(store') :
           s = cut \/ (s \in latestSnapshots(store) /\ w.atSeq <= s.seq)
  <2>1. latestSnapshots(store) # {}
    BY DEF Core, Durable
  <2> HIDE DEF w
  <2> QED
    BY <1>1, <1>2, <2>1, WriteEffect
<1>6. cut \in Cuts /\ cut.seq = w.atSeq
  BY <1>1 DEF Cuts
<1>7. \A s \in Cuts' : s \in Cuts /\ w.atSeq <= s.seq
  <2>1. Cuts' = latestSnapshots(store')
    BY <1>4 DEF Cuts
  <2>2. latestSnapshots(store) \subseteq Cuts
    BY DEF Cuts
  <2> HIDE DEF cut
  <2> QED
    BY <1>2, <1>5, <1>6, <2>1, <2>2
<1>8. w.atSeq <= room.seq /\ room.coverageFloor <= w.atSeq
      /\ room.seq <= lastSeq /\ room.seq \in Nat /\ room.coverageFloor \in Nat
  BY <1>1, <1>2 DEF Core, InOrder, Allocated
<1> HIDE DEF new, cut
<1>9. /\ \A op : Saved(op)' <=> Saved(op)
      /\ \A op : Live(op)' => Live(op)
      /\ \A op : \A n \in Nat : w.atSeq <= n =>
           (RowAfter(op, n)' <=> RowAfter(op, n))
  <2>1. \A r \in store'.rows : r \in store.rows
    BY <1>5
  <2>2. \A op : Saved(op)' <=> Saved(op)
    BY <1>1 DEF Saved
  <2>3. \A op : Live(op)' => Live(op)
    BY <1>1, <2>1 DEF Live
  <2>4. \A op : \A n \in Nat : w.atSeq <= n =>
          (RowAfter(op, n)' <=> RowAfter(op, n))
    BY <1>2, <1>5 DEF RowAfter
  <2> QED
    BY <2>2, <2>3, <2>4
<1>10. Allocated'
  BY <1>1, <1>2, <1>3, <1>4, <1>5, <1>6, <1>8 DEF Core, Allocated
<1>11. InOrder'
  <2>1. \A t \in tasks : t.pc \in OpPcs => t.room = rooms[p]
    BY <1>2 DEF Serving
  <2>2. \A t \in tasks : t.pc = "apply" => w.atSeq < t.seq
    BY <1>2, <1>6 DEF Core, Durable, Covers
  <2>3. \A t \in tasks' : t.pc = "apply" =>
          /\ heap'[t.room].seq < t.seq
          /\ heap'[t.room].coverageFloor < t.seq
          /\ \A c \in Clients : client'[c].lastAckedSeq < t.seq
    BY <1>1, <1>2, <1>3, <1>4, <2>1, <2>2 DEF Core, InOrder, OpPcs
  <2>4. \A t \in tasks' : t.pc \in Past => t.seq <= heap'[t.room].seq
    BY <1>1, <1>2, <1>3, <1>4, <2>1 DEF Core, InOrder, OpPcs, Past
  <2>5. \A q \in Procs :
          rooms'[q] # None /\ heap'[rooms'[q]].opsSinceSnapshot > 0
            => heap'[rooms'[q]].coverageFloor <= heap'[rooms'[q]].seq
    BY <1>1, <1>2, <1>3, <1>4, <1>8
  <2> QED
    BY <1>1, <1>4, <2>3, <2>4, <2>5 DEF Core, InOrder
<1>12. ASSUME NEW s \in Cuts, w.atSeq <= s.seq PROVE Covers(s)'
  <2>1. Covers(s) /\ s.seq \in Nat
    BY DEF Core, Durable
  <2>2. \A r \in store'.rows : r.seq <= s.seq => r.op \in s.ops
    BY <1>5, <2>1 DEF Covers
  <2>3. \A op \in Ops : Saved(op)' => op \in s.ops \/ RowAfter(op, s.seq)'
    BY <1>9, <1>12, <2>1 DEF Covers
  <2>4. \A c \in Clients, op \in Ops :
          Saved(op)' /\ op \notin client'[c].view /\ ~RowAfter(op, s.seq)'
            => client'[c].lastAckedSeq < s.seq
    BY <1>1, <1>9, <1>12, <2>1 DEF Covers
  <2> QED
    BY <1>1, <2>1, <2>2, <2>3, <2>4 DEF Covers
<1>13. Durable'
  BY <1>5, <1>7, <1>9, <1>12 DEF Core, Durable
<1>14. RoomHasAll'
  BY <1>1, <1>2, <1>3, <1>4, <1>9 DEF Core, RoomHasAll
<1>15. Cursor'
  BY <1>1, <1>5, <1>9 DEF Core, Cursor
<1>16. LogReaches'
  <2>1. ASSUME NEW c \in Clients, NEW op \in Ops, Live(op)',
               op \notin client'[c].view
        PROVE  Delivers(new, client[c].lastAckedSeq, op)
    <3>1. Delivers(room, client[c].lastAckedSeq, op)
      BY <1>1, <1>2, <1>9, <2>1 DEF Core, LogReaches
    <3>2. \A b \in room.opLog : b.seq \in Nat
      BY <1>2 DEF RoomOf, BatchOf
    <3> QED
      BY <1>2, <1>3, <1>8, <3>1, <3>2 DEF Delivers
  <2> QED
    BY <1>1, <1>2, <1>4, <2>1 DEF LogReaches
<1> QED
  BY <1>10, <1>11, <1>13, <1>14, <1>15, <1>16 DEF Core

\* The cardinality of the operations of no batches.
LEMMA NoBatches == Cardinality(OpsOf({})) = 0
<1>1. OpsOf({}) = {}
  BY DEF OpsOf
<1> QED
  BY <1>1, FS_EmptySet

\* hydrate: the room that a load ends with has everything that is saved, and its
\* log reaches back to every cursor.
LEMMA NewRoomCore ==
    ASSUME Undisturbed, Typed, Serving, Core, NEW p \in Procs,
           rooms[p] = None, tick[p] = None,
           NEW snap \in BatchOf(produced), NEW batches \in SUBSET BatchOf(produced),
           NEW latest \in Nat,
           \/ /\ store.latestSeq = None /\ batches = {}
              /\ snap.seq = 0 /\ latest = 0
           \/ /\ store.latestSeq = latest /\ snap \in latestSnapshots(store)
              /\ batches = batchesAfter(store, snap.seq),
           heap' = Append(heap, hydrate(snap, batches, latest)),
           rooms' = [rooms EXCEPT ![p] = Len(heap) + 1],
           \A u \in tasks' : u.pc \notin OpPcs,
           UNCHANGED <<store, lastSeq, tick, client, acked>>
    PROVE  Core'
<1> DEFINE room == hydrate(snap, batches, latest)
<1> USE SeqTypes
<1>1. /\ \A q \in Procs : q = p
      /\ \A t \in tasks : t.pc \notin OpPcs
      /\ rooms'[p] = Len(heap) + 1 /\ heap'[rooms'[p]] = room
      /\ rooms'[p] # None /\ lastSeq \in Nat
      /\ \A q \in Procs : tick[q] = None
  <2>1. \A q \in Procs : q = p
    BY DEF Undisturbed
  <2>2. \A t \in tasks : t.pc \notin OpPcs
    BY <2>1
  <2>3. heap' = Append(heap, room)
    OBVIOUS
  <2>4. room \in RoomOf(produced)
    BY HydrateType DEF Typed, TypedHistory
  <2> HIDE DEF room
  <2>5. heap'[Len(heap) + 1] = room /\ Len(heap) + 1 \in Nat
    BY <2>3, <2>4, HeapAppend DEF Typed, TypedHeap
  <2>6. rooms'[p] = Len(heap) + 1
    BY DEF Typed, TypedRooms
  <2> QED
    BY <2>1, <2>2, <2>5, <2>6, NoneIsNone DEF Typed, TypedStore
<1>2. /\ room.ops = snap.ops \cup OpsOf(batches) /\ room.seq = latest
      /\ room.opsSinceSnapshot = Cardinality(OpsOf(batches))
      /\ room.opLog = batches /\ room.coverageFloor = snap.seq
  BY DEF hydrate
<1>3. snap.seq \in Nat /\ store \in StoreOf(produced)
  BY DEF BatchOf, Typed, TypedStore
<1> HIDE DEF room
<1>4. /\ \A op : Saved(op)' => Saved(op)
      /\ \A op : Live(op)' => op \in acked \/ \E r \in store.rows : r.op = op
      /\ \A op, n : RowAfter(op, n)' <=> RowAfter(op, n)
  BY DEF Saved, Live, RowAfter, OpPcs, Past
<1>5. CASE store.latestSeq = None /\ batches = {} /\ snap.seq = 0 /\ latest = 0
  <2>1. \A op \in Ops : ~Live(op)'
    BY <1>4, <1>5 DEF Core, Durable, Allocated, Saved
  <2>2. Allocated'
    BY <1>1, <1>2, <1>5 DEF Core, Allocated
  <2>3. InOrder'
    BY <1>1, <1>2, <1>5 DEF InOrder, OpPcs, Past
  <2>4. Durable'
    <3>1. \A op \in Ops : ~Saved(op)'
      BY <1>4, <1>5 DEF Core, Durable
    <3>2. store.rows = {}
      BY <1>5 DEF Core, Allocated
    <3>3. ASSUME NEW s PROVE Covers(s)'
      BY <3>1, <3>2 DEF Covers, OpPcs, Past
    <3> QED
      BY <3>1, <3>3 DEF Core, Durable
  <2>5. RoomHasAll' /\ LogReaches'
    BY <2>1 DEF RoomHasAll, LogReaches
  <2>6. Cursor'
    BY <1>4 DEF Core, Cursor, OpPcs, Past
  <2> QED
    BY <2>2, <2>3, <2>4, <2>5, <2>6 DEF Core
<1>6. CASE /\ store.latestSeq = latest /\ snap \in latestSnapshots(store)
           /\ batches = batchesAfter(store, snap.seq)
  <2>1. store.latestSeq # None /\ snap \in Cuts /\ Covers(snap)
    BY <1>6, NoneIsNone DEF Cuts, Core, Durable
  <2>2. /\ \A op : op \in OpsOf(batches)
                     <=> \E r \in store.rows : r.op = op /\ r.seq > snap.seq
        /\ \A r \in store.rows : r.seq > snap.seq =>
             \E b \in batches : r.op \in b.ops /\ b.seq = r.seq
        /\ \A b \in batches :
             \E r \in store.rows : b.seq = r.seq /\ r.seq > snap.seq
    BY <1>3, <1>6, RowsFound
  <2>3. snap.seq <= lastSeq
    BY <1>1, <1>6 DEF latestSnapshots, Core, Allocated
  <2>4. Allocated'
    BY <1>1, <1>2, <1>6, <2>1, <2>3 DEF Core, Allocated
  <2>5. InOrder'
    <3>1. ASSUME room.opsSinceSnapshot > 0
          PROVE  room.coverageFloor <= room.seq
      <4>1. ASSUME batches = {} PROVE FALSE
        <5>1. Cardinality(OpsOf(batches)) = 0
          BY <4>1, NoBatches
        <5>2. room.opsSinceSnapshot = 0
          BY <1>2, <5>1
        <5> QED
          BY <3>1, <5>2
      <4> QED
        BY <1>2, <1>3, <1>6, <2>2, <4>1 DEF Core, Allocated
    <3> QED
      BY <1>1, <3>1 DEF InOrder, OpPcs, Past
  <2>6. Durable'
    <3>1. ASSUME NEW s, Covers(s) PROVE Covers(s)'
      BY <1>4, <3>1 DEF Covers, OpPcs, Past
    <3>2. Cuts' = Cuts
      BY DEF Cuts
    <3> QED
      BY <1>4, <3>1, <3>2 DEF Core, Durable
  <2>7. RoomHasAll'
    <3>1. ASSUME NEW op \in Ops, Live(op)' PROVE op \in room.ops
      <4>1. CASE op \in acked
        BY <1>2, <2>1, <2>2, <4>1 DEF Covers, Saved, RowAfter
      <4>2. CASE \E r \in store.rows : r.op = op
        BY <1>2, <1>3, <2>1, <2>2, <4>2 DEF Covers
      <4> QED
        BY <1>4, <3>1, <4>1, <4>2
    <3> QED
      BY <1>1, <3>1 DEF RoomHasAll
  <2>8. Cursor'
    BY <1>4 DEF Core, Cursor, OpPcs, Past
  <2>9. LogReaches'
    <3>1. ASSUME NEW c \in Clients, NEW op \in Ops, Live(op)',
                 op \notin client'[c].view
          PROVE  Delivers(room, client[c].lastAckedSeq, op)
      <4>1. ASSUME NEW r \in store.rows, r.op = op
            PROVE  Delivers(room, client[c].lastAckedSeq, op)
        <5>1. client[c].lastAckedSeq < r.seq /\ r.seq <= store.latestSeq
          BY <3>1, <4>1 DEF Core, Cursor, Allocated
        <5> QED
          BY <1>2, <1>3, <1>6, <2>2, <4>1, <5>1 DEF Delivers
      <4>2. CASE op \in acked /\ ~\E r \in store.rows : r.op = op
        <5>1. Saved(op) /\ ~RowAfter(op, snap.seq)
          BY <4>2 DEF Saved, RowAfter
        <5>2. client[c].lastAckedSeq < snap.seq
              /\ client[c].lastAckedSeq < store.latestSeq
          BY <2>1, <3>1, <5>1 DEF Covers, Core, Cursor
        <5> QED
          BY <1>2, <1>6, <5>2 DEF Delivers
      <4> QED
        BY <1>4, <3>1, <4>1, <4>2
    <3> QED
      BY <1>1, <3>1 DEF LogReaches
  <2> QED
    BY <2>4, <2>5, <2>6, <2>7, <2>8, <2>9 DEF Core
<1> QED
  BY <1>5, <1>6

-----------------------------------------------------------------------------
(* One room, one load *)

\* A task that is not in its place already goes on in the room of the map.
InPlace(u) ==
    \/ u \in tasks
    \/ u.type # "remote" /\ u.pc \in OpPcs /\ u.room = rooms[u.proc]

\* A step that leaves the map alone and begins no load keeps to one room.
LEMMA ServingFrame ==
    ASSUME Serving, UNCHANGED <<rooms, inbox>>,
           \A p \in Procs : tick'[p] \in {tick[p], None},
           \A u \in tasks' : InPlace(u)
    PROVE  Serving'
<1>1. \A u \in tasks' : u.pc \in LoadPcs => u \in tasks
  BY DEF InPlace, LoadPcs, OpPcs
<1>2. \A u \in tasks' : u.pc \in Querying => u \in tasks
  BY DEF InPlace, OpPcs, Querying
<1>3. \A u \in tasks' : u.type # "remote"
  BY DEF InPlace, Serving
<1>4. \A u \in tasks' : u.pc \in {"subscribe"} \cup OpPcs => u.room = rooms[u.proc]
  BY DEF InPlace, Serving
<1> QED
  BY <1>1, <1>2, <1>3, <1>4 DEF Serving

\* A load that has read something is the only one that goes on in a process
\* without a room: nothing changes the tables meanwhile.
LEMMA LoadingFrame ==
    ASSUME Undisturbed, Typed, Serving, Loading,
           \/ UNCHANGED store
           \/ \E t \in tasks : t.pc \in OpPcs
           \/ \E p \in Procs : tick[p] # None,
           \A u \in tasks' : u.pc \in {"snapshot", "operations"} => u \in tasks
    PROVE  Loading'
<1>1. CASE UNCHANGED store
  BY <1>1 DEF Loading
<1>2. CASE \/ \E t \in tasks : t.pc \in OpPcs
           \/ \E p \in Procs : tick[p] # None
  <2>1. \E p \in Procs : rooms[p] # None
    BY <1>2, SeqTypes
  <2>2. \A u \in tasks : u.pc \notin {"snapshot", "operations"}
    BY <2>1, SeqTypes DEF Serving, Querying, Undisturbed
  <2> QED
    BY <2>2 DEF Loading
<1> QED
  BY <1>1, <1>2

\* A task that begins a load is the only one.
LEMMA BeginLoad ==
    ASSUME Undisturbed, Typed, Serving, Loading, NEW u, u.pc = "document",
           u.type # "remote", u.proc \in Procs, rooms[u.proc] = None,
           MayLoad(u.proc), tasks' = tasks \cup {u},
           UNCHANGED <<store, rooms, inbox, tick>>
    PROVE  Serving' /\ Loading'
<1>1. \A t \in tasks : t.pc \notin LoadPcs
  BY SeqTypes DEF MayLoad, Undisturbed
<1>2. u.pc \in LoadPcs /\ u.pc \notin {"subscribe"} \cup OpPcs
  BY DEF LoadPcs, OpPcs
<1>3. Serving'
  <2>1. \A t, v \in tasks' : t.pc \in LoadPcs /\ v.pc \in LoadPcs => t = v
    BY <1>1, <1>2
  <2>2. \A t \in tasks' : t.pc \in Querying => rooms[t.proc] = None
    BY DEF Serving
  <2>3. \A t \in tasks' : t.pc \in {"subscribe"} \cup OpPcs => t.room = rooms[t.proc]
    BY <1>2 DEF Serving
  <2> QED
    BY <2>1, <2>2, <2>3 DEF Serving
<1>4. Loading'
  BY DEF Loading
<1> QED
  BY <1>3, <1>4

\* Without a room there is only the load, and no task of a batch and no tick.
LEMMA OnlyLoad ==
    ASSUME Undisturbed, Typed, Serving, NEW t \in tasks, t.pc \in Querying
    PROVE  /\ rooms[t.proc] = None /\ t.proc \in Procs
           /\ \A q \in Procs : q = t.proc /\ tick[q] = None
           /\ \A u \in tasks : u.pc \notin OpPcs
           /\ \A u \in tasks : u.pc \in LoadPcs => u = t
           /\ \A u \in tasks : u = t
           /\ t.pc \in LoadPcs
<1>1. rooms[t.proc] = None /\ t.proc \in Procs
  BY SeqTypes DEF Serving
<1>2. \A q \in Procs : q = t.proc /\ tick[q] = None
  BY <1>1, SeqTypes DEF Undisturbed
<1>3. \A u \in tasks : u.pc \notin OpPcs
  BY <1>1, <1>2, SeqTypes
<1>4. t.pc \in LoadPcs
  BY DEF Querying, LoadPcs
<1>5. \A u \in tasks : u.pc \in LoadPcs => u = t
  BY <1>4 DEF Serving
<1>6. \A u \in tasks : u.pc \in LoadPcs \cup OpPcs
  BY DEF Typed, TypedTasks, TaskOf
<1> QED
  BY <1>1, <1>2, <1>3, <1>4, <1>5, <1>6

\* A load goes on to its next query.
LEMMA GoOnLoading ==
    ASSUME Undisturbed, Typed, Serving, NEW t \in tasks, t.pc \in Querying,
           NEW u, u.pc \in {"snapshot", "operations"}, u.proc = t.proc,
           u.type = t.type, tasks' = (tasks \ {t}) \cup {u},
           u.loaded.latestSeq = store.latestSeq,
           u.pc = "operations" => u.loaded.snapshot \in latestSnapshots(store),
           UNCHANGED <<store, rooms, inbox, tick>>
    PROVE  Serving' /\ Loading'
<1>1. tasks' = {u} /\ rooms[u.proc] = None
  BY OnlyLoad
<1>2. u.pc \notin {"subscribe"} \cup OpPcs
  BY DEF OpPcs
<1>3. Serving'
  BY <1>1, <1>2 DEF Serving
<1> QED
  BY <1>1, <1>3 DEF Loading

\* A load ends with its room in the map.
LEMMA EndLoad ==
    ASSUME Undisturbed, Typed, Serving, NEW t \in tasks, t.pc \in Querying,
           NEW u, u.pc = "subscribe", u.proc = t.proc, u.type = t.type,
           tasks' = (tasks \ {t}) \cup {u}, rooms'[t.proc] = u.room,
           UNCHANGED <<store, inbox, tick>>
    PROVE  Serving' /\ Loading'
<1>1. tasks' = {u} /\ \A q \in Procs : tick'[q] = None
  BY OnlyLoad
<1>2. u.pc \notin Querying /\ u.pc \notin {"snapshot", "operations"}
  BY DEF Querying
<1>3. Serving'
  BY <1>1, <1>2 DEF Serving
<1> QED
  BY <1>1, <1>2, <1>3 DEF Loading

-----------------------------------------------------------------------------
(* The connections *)

\* The parts of the connections and clients that the invariant looks at.
LEMMA NetTypes ==
    ASSUME Typed, Serving
    PROVE  /\ \A s \in Sockets : /\ clientOf(s) \in Clients
                                 /\ sockets[s].proc \in Procs \cup {None}
                                 /\ sockets[s] \in SocketType
           /\ \A i \in DOMAIN heap, c \in Clients :
                heap[i].sockets[c] \in Sockets \cup {None}
           /\ \A c \in Clients : /\ client[c].ws \in Sockets \cup {None}
                                 /\ client[c].outbox \subseteq Ops
                                 /\ client[c].view \subseteq Ops
           /\ \A t \in tasks : t.socket \in Sockets /\ t.proc \in Procs
           /\ \A p \in Procs : rooms[p] # None => rooms[p] \in DOMAIN heap
<1>1. \A s \in Sockets : /\ clientOf(s) \in Clients
                         /\ sockets[s].proc \in Procs \cup {None}
                         /\ sockets[s] \in SocketType
  BY ClientOfType DEF Typed, TypedSockets, SocketType
<1>2. \A i \in DOMAIN heap, c \in Clients :
        heap[i].sockets[c] \in Sockets \cup {None}
  <2>1. \A i \in DOMAIN heap : heap[i] \in RoomOf(produced)
    BY HeapElement DEF Typed, TypedHeap
  <2> QED
    BY <2>1 DEF RoomOf
<1>3. \A c \in Clients : /\ client[c].ws \in Sockets \cup {None}
                         /\ client[c].outbox \subseteq Ops
                         /\ client[c].view \subseteq Ops
  BY DEF Typed, TypedClient, ClientOf, TypedHistory
<1> QED
  BY <1>1, <1>2, <1>3, SeqTypes

\* The connections of a client are counted by the processes they have.
LEMMA SameConns ==
    ASSUME NEW c, \A s \in Sockets : sockets'[s].proc = sockets[s].proc
    PROVE  ConnsOf(c)' = ConnsOf(c)
<1>1. {s \in Sockets : clientOf(s) = c /\ sockets'[s].proc # None}
        = {s \in Sockets : clientOf(s) = c /\ sockets[s].proc # None}
  OBVIOUS
<1> QED
  BY <1>1 DEF ConnsOf

\* A step that opens no connection: sockets may go down, and what is registered
\* was registered before or joins.
LEMMA RegisteredFrame ==
    ASSUME Typed, Serving, Registered,
           \A s \in Sockets : /\ sockets'[s].proc = sockets[s].proc
                              /\ sockets[s].joined => sockets'[s].joined
                              /\ sockets'[s].joined => sockets'[s].proc # None,
           \A u \in tasks' : /\ u.socket \in Sockets
                             /\ sockets[u.socket].proc = u.proc,
           \A c \in Clients : client'[c].ws \in {client[c].ws, None},
           \A i \in DOMAIN heap', c \in Clients :
             \/ heap'[i].sockets[c] = None
             \/ i \in DOMAIN heap /\ heap'[i].sockets[c] = heap[i].sockets[c]
             \/ /\ heap'[i].sockets[c] \in Sockets
                /\ clientOf(heap'[i].sockets[c]) = c
                /\ sockets'[heap'[i].sockets[c]].joined
    PROVE  Registered'
<1>1. \A s \in Sockets :
        sockets'[s].proc # None <=> s[2] <= ConnsOf(clientOf(s))'
  BY SameConns DEF Registered
<1>2. \A t \in tasks' : sockets'[t.socket].proc = t.proc
  OBVIOUS
<1>3. \A c \in Clients : client'[c].ws # None => clientOf(client'[c].ws) = c
  BY DEF Registered
<1>4. \A i \in DOMAIN heap', c \in Clients : heap'[i].sockets[c] # None =>
        /\ clientOf(heap'[i].sockets[c]) = c
        /\ sockets'[heap'[i].sockets[c]].joined
  BY NetTypes DEF Registered
<1> QED
  BY <1>1, <1>2, <1>3, <1>4 DEF Registered

\* The rooms keep their sockets.
SameSockets ==
    /\ DOMAIN heap' = DOMAIN heap
    /\ \A i \in DOMAIN heap : heap'[i].sockets = heap[i].sockets

\* Whoever the room reaches gets op in this step, or has it.
Delivered(op) ==
    \A p \in Procs, c \in Clients :
        rooms[p] # None /\ Up(heap[rooms[p]].sockets[c]) => op \in client'[c].view

\* Links may go down: whoever is reached then was reached before.
LEMMA ReachFrame ==
    ASSUME Typed, Serving, NoOrphans, Reached, UNCHANGED rooms, SameSockets,
           \A s \in Sockets : /\ sockets'[s].proc = sockets[s].proc
                              /\ sockets'[s].joined = sockets[s].joined
                              /\ sockets'[s].up => sockets[s].up,
           \A c \in Clients : client[c].view \subseteq client'[c].view,
           \A op \in Ops : Live(op)' => Live(op) \/ Delivered(op)
    PROVE  NoOrphans' /\ Reached'
<1>1. \A p \in Procs : rooms[p] # None => rooms[p] \in DOMAIN heap
  BY NetTypes
<1>2. NoOrphans'
  <2>1. SUFFICES ASSUME NEW s \in Sockets, sockets'[s].joined, sockets'[s].up
                 PROVE  /\ rooms[sockets[s].proc] # None
                        /\ heap'[rooms[sockets[s].proc]].sockets[clientOf(s)] = s
    BY DEF NoOrphans
  <2>2. /\ rooms[sockets[s].proc] # None
        /\ heap[rooms[sockets[s].proc]].sockets[clientOf(s)] = s
    BY <2>1 DEF NoOrphans
  <2>3. sockets[s].proc \in Procs
    BY <2>1 DEF Typed, TypedWire
  <2> QED
    BY <1>1, <2>2, <2>3 DEF SameSockets
<1>3. Reached'
  <2>1. SUFFICES ASSUME NEW p \in Procs, NEW c \in Clients, NEW op \in Ops,
                        rooms[p] # None, Up(heap[rooms[p]].sockets[c])',
                        Live(op)'
                 PROVE  op \in client'[c].view
    BY DEF Reached
  <2>2. heap'[rooms[p]].sockets[c] = heap[rooms[p]].sockets[c]
    BY <1>1, <2>1 DEF SameSockets
  <2>3. Up(heap[rooms[p]].sockets[c])
    BY <1>1, <2>1, <2>2, NetTypes DEF Up
  <2> QED
    BY <2>1, <2>3 DEF Reached, Delivered
<1> QED
  BY <1>2, <1>3

\* Operations on their way are kept by the outbox or acked.
LEMMA OutboxesFrame ==
    ASSUME Typed, Serving, Outboxes,
           \A c \in Clients : /\ client'[c].outbox \subseteq client'[c].view
                              /\ client[c].outbox \subseteq
                                   client'[c].outbox \cup acked',
           acked \subseteq acked',
           \A u \in tasks' : /\ u.socket \in Sockets
                             /\ u.ops \subseteq
                                  client[clientOf(u.socket)].outbox \cup acked,
           \A s \in Sockets : \A i \in 1..Len(wire'[s]) :
             wire'[s][i].type = "op" => wire'[s][i].ops \subseteq
                                   client'[clientOf(s)].outbox \cup acked'
    PROVE  Outboxes'
<1>1. \A t \in tasks' : t.ops \subseteq client'[clientOf(t.socket)].outbox \cup acked'
  BY NetTypes
<1> QED
  BY <1>1 DEF Outboxes

\* A step that sends no join: a socket that has not joined keeps its join, and
\* its client the cursor.
LEMMA JoiningFrame ==
    ASSUME Typed, Serving, Joining,
           \A s \in Sockets : sockets'[s].joined => sockets[s].joined,
           \A s \in Sockets : sockets'[s].up =>
             /\ sockets[s].up
             /\ client'[clientOf(s)].ws = client[clientOf(s)].ws
             /\ \/ sockets[s].joined
                \/ client'[clientOf(s)].lastAckedSeq
                     = client[clientOf(s)].lastAckedSeq,
           \A s \in Sockets : \A i \in 1..Len(wire'[s]) :
             wire'[s][i].type = "join" =>
               i \in 1..Len(wire[s]) /\ wire'[s][i] = wire[s][i],
           \A u \in tasks' : u.type = "join" =>
             \E t \in tasks : /\ t.type = "join" /\ t.socket = u.socket
                              /\ t.sinceSeq = u.sinceSeq
    PROVE  Joining'
<1>1. \A s \in Sockets : sockets'[s].up => client'[clientOf(s)].ws = s
  BY DEF Joining
<1>2. ASSUME NEW s \in Sockets, NEW i \in 1..Len(wire'[s]),
             wire'[s][i].type = "join"
      PROVE  /\ i = 1 /\ ~sockets'[s].joined
             /\ \A t \in tasks' : t.type = "join" => t.socket # s
             /\ sockets'[s].up =>
                  wire'[s][i].sinceSeq = client'[clientOf(s)].lastAckedSeq
  <2>1. i \in 1..Len(wire[s]) /\ wire'[s][i] = wire[s][i]
    BY <1>2
  <2>2. /\ i = 1 /\ ~sockets[s].joined
        /\ \A t \in tasks : t.type = "join" => t.socket # s
        /\ sockets[s].up =>
             wire[s][i].sinceSeq = client[clientOf(s)].lastAckedSeq
    BY <1>2, <2>1 DEF Joining
  <2> QED
    BY <2>1, <2>2
<1>3. ASSUME NEW u \in tasks', u.type = "join"
      PROVE  /\ ~sockets'[u.socket].joined
             /\ sockets'[u.socket].up =>
                  u.sinceSeq = client'[clientOf(u.socket)].lastAckedSeq
  <2>1. PICK t \in tasks : /\ t.type = "join" /\ t.socket = u.socket
                           /\ t.sinceSeq = u.sinceSeq
    BY <1>3
  <2> QED
    BY <2>1, NetTypes DEF Joining
<1> QED
  BY <1>1, <1>2, <1>3 DEF Joining

\* The task u does something for the message that t was for.
SameMessage(t, u) ==
    /\ u.type = t.type /\ u.proc = t.proc /\ u.socket = t.socket
    /\ u.sinceSeq = t.sinceSeq /\ u.ops = t.ops

\* A step of the server that neither opens nor closes a connection, and joins
\* none.
LEMMA NetFrame ==
    ASSUME Typed, Serving, Net, UNCHANGED <<sockets, wire, rooms>>, SameSockets,
           \A c \in Clients :
             /\ client'[c].ws = client[c].ws
             /\ client[c].view \subseteq client'[c].view
             /\ client'[c].outbox \subseteq client[c].outbox
             /\ client[c].outbox \subseteq client'[c].outbox \cup acked'
             /\ \/ client'[c].lastAckedSeq = client[c].lastAckedSeq
                \/ \A s \in Sockets : sockets[s].up /\ clientOf(s) = c
                                        => sockets[s].joined,
           acked \subseteq acked',
           \A u \in tasks' : \E t \in tasks : SameMessage(t, u),
           \A op \in Ops : Live(op)' => Live(op) \/ Delivered(op)
    PROVE  Net'
<1> USE NetTypes DEF Net
<1>1. Registered'
  <2>1. \A u \in tasks' : u.socket \in Sockets /\ sockets[u.socket].proc = u.proc
    BY DEF SameMessage, Registered
  <2>2. \A i \in DOMAIN heap' : i \in DOMAIN heap /\ heap'[i].sockets = heap[i].sockets
    BY DEF SameSockets
  <2>3. \A s \in Sockets : sockets[s].joined => sockets[s].proc # None
    BY DEF Registered
  <2> QED
    BY <2>1, <2>2, <2>3, RegisteredFrame
<1>2. NoOrphans' /\ Reached'
  BY ReachFrame
<1>3. Outboxes'
  <2>1. \A u \in tasks' : /\ u.socket \in Sockets
                          /\ u.ops \subseteq
                               client[clientOf(u.socket)].outbox \cup acked
    BY DEF SameMessage, Outboxes
  <2>2. \A s \in Sockets : \A i \in 1..Len(wire'[s]) :
          wire'[s][i].type = "op" => wire'[s][i].ops \subseteq
                                client'[clientOf(s)].outbox \cup acked'
    BY DEF Outboxes
  <2>3. \A c \in Clients : client'[c].outbox \subseteq client'[c].view
    BY DEF Outboxes
  <2> QED
    BY <2>1, <2>2, <2>3, OutboxesFrame
<1>4. Joining'
  <2>1. \A u \in tasks' : u.type = "join" =>
             \E t \in tasks : /\ t.type = "join" /\ t.socket = u.socket
                              /\ t.sinceSeq = u.sinceSeq
    BY DEF SameMessage
  <2> QED
    BY <2>1, JoiningFrame
<1> QED
  BY <1>1, <1>2, <1>3, <1>4

\* What follows the first element.
LEMMA TailElements ==
    ASSUME NEW T, NEW w \in Seq(T), w # <<>>, NEW i \in 1..Len(Tail(w))
    PROVE  i + 1 \in 1..Len(w) /\ Tail(w)[i] = w[i + 1] /\ i + 1 # 1
OBVIOUS

\* The first message is taken off the wire of a socket.
LEMMA TailEffect ==
    ASSUME Typed, Outboxes, Joining, NEW s \in Sockets, wire[s] # <<>>,
           NEW q \in Sockets, wire' = [wire EXCEPT ![s] = Tail(@)]
    PROVE  \A i \in 1..Len(wire'[q]) :
             /\ wire'[q][i].type \in {"join", "op"}
             /\ wire'[q][i].type = "op" =>
                  wire'[q][i].ops \subseteq client[clientOf(q)].outbox \cup acked
             /\ wire'[q][i].type = "join" =>
                  q # s /\ i \in 1..Len(wire[q]) /\ wire'[q][i] = wire[q][i]
<1> DEFINE new == wire'
<1>1. \A k \in Sockets : wire[k] \in Seq(MessageOf(produced))
  BY DEF Typed, TypedWire
<1>2. new[q] = IF q = s THEN Tail(wire[s]) ELSE wire[q]
  BY DEF Typed, TypedWire
<1> HIDE DEF new
<1>3. SUFFICES ASSUME NEW i \in 1..Len(new[q])
      PROVE  /\ new[q][i].type \in {"join", "op"}
             /\ new[q][i].type = "op" =>
                  new[q][i].ops \subseteq client[clientOf(q)].outbox \cup acked
             /\ new[q][i].type = "join" =>
                  q # s /\ i \in 1..Len(wire[q]) /\ new[q][i] = wire[q][i]
  BY DEF new
<1>4. CASE q = s
  <2>1. /\ i + 1 \in 1..Len(wire[s]) /\ new[q][i] = wire[s][i + 1]
        /\ i + 1 # 1
    BY <1>1, <1>2, <1>4, TailElements
  <2>2. new[q][i] \in MessageOf(produced)
    BY <1>1, <2>1
  <2>3. new[q][i].type # "join"
    BY <2>1 DEF Joining
  <2> QED
    BY <1>4, <2>1, <2>2, <2>3 DEF MessageOf, Outboxes
<1>5. CASE q # s
  <2>1. new[q] = wire[q]
    BY <1>2, <1>5
  <2>2. new[q][i] \in MessageOf(produced)
    BY <1>1, <2>1
  <2> QED
    BY <1>5, <2>1, <2>2 DEF MessageOf, Outboxes
<1> QED
  BY <1>4, <1>5

-----------------------------------------------------------------------------
(* The steps of the clients and of the network *)

Rest == Serving /\ Loading /\ Core /\ Net

\* A step that leaves the server's variables alone.
LEMMA ServerKeeps ==
    ASSUME Undisturbed, Inv, Typed', UNCHANGED <<store, lastSeq, rooms, inbox,
                                                 tasks, tick, acked>>,
           SameRooms, ClientsKeep
    PROVE  Serving' /\ Loading' /\ Core'
<1>1. Serving' /\ Loading'
  BY DEF Serving, Loading, Inv
<1>2. Calm
  <2>1. NoNewWork
    BY DEF NoNewWork, Continues
  <2>2. RoomsKeep /\ \A op \in acked' : Saved(op)
    BY DEF RoomsKeep, Saved
  <2> QED
    BY <2>1, <2>2 DEF Calm
<1> QED
  BY <1>1, <1>2, CalmCore DEF Inv

\* A step that leaves the heap alone leaves what the rooms hold.
LEMMA SameHeap ==
    ASSUME UNCHANGED heap PROVE SameRooms /\ SameSockets
BY DEF SameRooms, SameSockets

\* A connection is the next of its client.
LEMMA NextConnection ==
    ASSUME Typed, Serving, Registered, NEW c \in Clients, NEW p \in Procs,
           Connect(c, p)
    PROVE  LET s == <<c, ConnsOf(c) + 1>> IN
           /\ s \in Sockets /\ clientOf(s) = c /\ s[2] = ConnsOf(c) + 1
           /\ sockets[s].proc = None
           /\ ConnsOf(c)' = ConnsOf(c) + 1
           /\ \A d \in Clients : d # c => ConnsOf(d)' = ConnsOf(d)
           /\ \A q \in Sockets : q # s => sockets'[q] = sockets[q]
           /\ sockets'[s] = [proc |-> p, up |-> TRUE, open |-> TRUE,
                             joined |-> FALSE]
<1> DEFINE s == <<c, ConnsOf(c) + 1>>
           conns(d) == {q \in Sockets : clientOf(q) = d /\ sockets[q].proc # None}
<1>1. ConnsOf(c) \in Nat /\ ConnsOf(c) < MaxConns[c] /\ MaxConns[c] \in Nat
  BY ConnsOfType, RoomManagerAssumption DEF Connect
<1>2. s \in {c} \X (1..MaxConns[c])
  BY <1>1
<1>3. s \in Sockets /\ clientOf(s) = c /\ s[2] = ConnsOf(c) + 1
  BY <1>2 DEF Sockets, clientOf
<1>4. sockets[s].proc = None
  BY <1>1, <1>3 DEF Registered
<1>5. /\ sockets'[s] = [proc |-> p, up |-> TRUE, open |-> TRUE, joined |-> FALSE]
      /\ \A q \in Sockets : q # s => sockets'[q] = sockets[q]
  BY <1>3 DEF Connect, Typed, TypedSockets
<1>6. p # None
  BY RoomManagerAssumption
<1>7. ConnsOf(c)' = ConnsOf(c) + 1
  <2> DEFINE new == {q \in Sockets : clientOf(q) = c /\ sockets'[q].proc # None}
  <2>1. s \notin conns(c)
    BY <1>4
  <2>2. new = conns(c) \cup {s}
    BY <1>3, <1>5, <1>6
  <2>3. IsFiniteSet(conns(c))
    BY ConnsOfType
  <2>4. Cardinality(conns(c) \cup {s}) = Cardinality(conns(c)) + 1
    <3> HIDE DEF conns, s
    <3> QED
      BY <2>1, <2>3, FS_AddElement
  <2> QED
    BY <2>2, <2>4 DEF ConnsOf
<1>8. ASSUME NEW d \in Clients, d # c PROVE ConnsOf(d)' = ConnsOf(d)
  <2>1. {q \in Sockets : clientOf(q) = d /\ sockets'[q].proc # None} = conns(d)
    BY <1>3, <1>5, <1>8
  <2> QED
    BY <2>1 DEF ConnsOf
<1> QED
  BY <1>3, <1>4, <1>5, <1>7, <1>8

\* connect: the new connection has not joined, and what it sends is the cursor.
LEMMA ConnectStep ==
    ASSUME Undisturbed, Inv, Typed', NEW c \in Clients, NEW p \in Procs,
           Connect(c, p)
    PROVE  Rest'
<1> DEFINE s == <<c, ConnsOf(c) + 1>>
           m == [type |-> "join", sinceSeq |-> client[c].lastAckedSeq]
<1> USE NetTypes DEF Inv, Net
<1>1. /\ UNCHANGED <<store, lastSeq, heap, rooms, inbox, tasks, tick, acked>>
      /\ wire' = [wire EXCEPT ![s] = <<m>>]
      /\ client' = [client EXCEPT ![c].ws = s]
      /\ client[c].ws = None
  BY DEF Connect, serverVars
<1>2. /\ s \in Sockets /\ clientOf(s) = c /\ s[2] = ConnsOf(c) + 1
      /\ sockets[s].proc = None
      /\ ConnsOf(c)' = ConnsOf(c) + 1
      /\ \A d \in Clients : d # c => ConnsOf(d)' = ConnsOf(d)
      /\ \A q \in Sockets : q # s => sockets'[q] = sockets[q]
      /\ sockets'[s] = [proc |-> p, up |-> TRUE, open |-> TRUE, joined |-> FALSE]
  BY NextConnection
<1>3. /\ \A d \in Clients : /\ client'[d].view = client[d].view
                            /\ client'[d].outbox = client[d].outbox
                            /\ client'[d].lastAckedSeq = client[d].lastAckedSeq
                            /\ client'[d].ws = IF d = c THEN s ELSE client[d].ws
      /\ wire'[s] = <<m>> /\ m.type = "join"
      /\ m.sinceSeq = client[c].lastAckedSeq
      /\ \A q \in Sockets : q # s => wire'[q] = wire[q]
  BY <1>1, <1>2 DEF Typed, TypedClient, ClientOf, TypedWire
<1> HIDE DEF s, m
<1>4. Serving' /\ Loading' /\ Core'
  <2>1. ClientsKeep
    BY <1>3 DEF ClientsKeep
  <2> QED
    BY <1>1, <2>1, SameHeap, ServerKeeps
<1>5. Registered'
  <2>1. ASSUME NEW q \in Sockets
        PROVE  sockets'[q].proc # None <=> q[2] <= ConnsOf(clientOf(q))'
    <3>1. ConnsOf(c) \in Nat /\ q[2] \in Nat
      <4>1. PICK d \in Clients : q \in {d} \X (1..MaxConns[d])
        BY DEF Sockets
      <4>2. q[2] \in 1..MaxConns[d]
        BY <4>1
      <4>3. q[2] \in Nat
        BY <4>2, RoomManagerAssumption
      <4> QED
        BY <4>3, ConnsOfType
    <3>2. sockets[q].proc # None <=> q[2] <= ConnsOf(clientOf(q))
      BY DEF Registered
    <3>3. CASE q = s
      BY <1>2, <3>1, <3>3, RoomManagerAssumption
    <3>4. CASE q # s /\ clientOf(q) = c
      <4>1. q[2] # ConnsOf(c) + 1
        BY <1>2, <3>4 DEF Sockets, clientOf, s
      <4> QED
        BY <1>2, <3>1, <3>2, <3>4, <4>1
    <3>5. CASE q # s /\ clientOf(q) # c
      BY <1>2, <3>2, <3>5
    <3> QED
      BY <3>3, <3>4, <3>5
  <2>2. \A q \in Sockets : sockets'[q].joined => sockets'[q].proc # None
    BY <1>2 DEF Registered
  <2>3. \A t \in tasks' : sockets'[t.socket].proc = t.proc
    <3>1. \A t \in tasks : t.socket # s
      BY <1>2, RoomManagerAssumption DEF Registered
    <3> QED
      BY <1>1, <1>2, <3>1 DEF Registered
  <2>4. \A d \in Clients : client'[d].ws # None => clientOf(client'[d].ws) = d
    BY <1>2, <1>3 DEF Registered
  <2>5. \A i \in DOMAIN heap, d \in Clients : heap[i].sockets[d] # None =>
         /\ clientOf(heap[i].sockets[d]) = d
         /\ sockets'[heap[i].sockets[d]].joined
    BY <1>2 DEF Registered
  <2> QED
    BY <1>1, <2>1, <2>2, <2>3, <2>4, <2>5 DEF Registered
<1>6. NoOrphans'
  BY <1>1, <1>2 DEF NoOrphans
<1>7. Reached'
  <2>1. \A op : Live(op)' <=> Live(op)
    BY <1>1 DEF Live
  <2>2. \A d \in Clients, q \in Procs :
          rooms[q] # None => heap[rooms[q]].sockets[d] # s
    <3>1. s # None /\ ~sockets[s].joined
      BY <1>2, SocketsAssumption DEF Registered
    <3> QED
      BY <3>1 DEF Registered
  <2>3. ASSUME NEW d \in Clients, NEW q \in Procs, rooms[q] # None,
               Up(heap[rooms[q]].sockets[d])'
        PROVE  Up(heap[rooms[q]].sockets[d])
    BY <1>1, <1>2, <2>2, <2>3 DEF Up
  <2> QED
    BY <1>1, <1>3, <2>1, <2>3 DEF Reached
<1>8. Outboxes'
  <2>1. \A q \in Sockets : \A i \in 1..Len(wire'[q]) : wire'[q][i].type = "op" =>
           wire'[q][i].ops \subseteq client[clientOf(q)].outbox \cup acked
    <3>1. \A i \in 1..Len(wire'[s]) : wire'[s][i] = m
      BY <1>3
    <3> QED
      BY <1>3, <3>1 DEF Outboxes
  <2> QED
    BY <1>1, <1>3, <2>1 DEF Outboxes
<1>9. Joining'
  <2>1. \A q \in Sockets : clientOf(q) = c => ~sockets[q].up
    <3>1. \A q \in Sockets : sockets[q].up => sockets[q].proc \in Procs
      BY DEF Typed, TypedWire
    <3>2. ASSUME NEW q \in Sockets, sockets[q].up, clientOf(q) = c PROVE FALSE
      BY <1>1, <3>2, SocketsAssumption DEF Joining
    <3> QED
      BY <3>2
  <2>2. \A q \in Sockets : sockets'[q].up => client'[clientOf(q)].ws = q
    BY <1>2, <1>3, <2>1 DEF Joining
  <2>3. \A t \in tasks : t.socket # s
    BY <1>2, RoomManagerAssumption DEF Registered
  <2>4. ASSUME NEW q \in Sockets, NEW i \in 1..Len(wire'[q]),
               wire'[q][i].type = "join"
        PROVE  /\ i = 1 /\ ~sockets'[q].joined
               /\ \A t \in tasks : t.type = "join" => t.socket # q
               /\ sockets'[q].up =>
                    wire'[q][i].sinceSeq = client'[clientOf(q)].lastAckedSeq
    <3>1. CASE q = s
      <4>1. i = 1 /\ wire'[q][i] = m
        <5>1. wire'[q] = <<m>>
          BY <1>3, <3>1
        <5>2. i \in 1..Len(<<m>>)
          BY <5>1
        <5> QED
          BY <5>1, <5>2
      <4> QED
        BY <1>2, <1>3, <2>3, <3>1, <4>1
    <3>2. CASE q # s
      BY <1>2, <1>3, <2>4, <3>2 DEF Joining
    <3> QED
      BY <3>1, <3>2
  <2>5. \A t \in tasks : t.type = "join" =>
          /\ ~sockets'[t.socket].joined
          /\ sockets'[t.socket].up =>
               t.sinceSeq = client'[clientOf(t.socket)].lastAckedSeq
    BY <1>2, <1>3, <2>3 DEF Joining
  <2> QED
    BY <1>1, <2>2, <2>4, <2>5 DEF Joining
<1> QED
  BY <1>4, <1>5, <1>6, <1>7, <1>8, <1>9 DEF Rest

\* applyLocalEdits: the operation is shown, kept in the outbox and sent.
LEMMA EditStep ==
    ASSUME Undisturbed, Inv, Typed', NEW c \in Clients, NEW op \in Ops,
           ApplyLocalEdits(c, op)
    PROVE  Rest'
<1> DEFINE s == client[c].ws
           m == [type |-> "op", ops |-> {op}]
<1> USE NetTypes DEF Inv, Net
<1>1. /\ UNCHANGED <<store, lastSeq, heap, rooms, inbox, tasks, tick, acked,
                     sockets>>
      /\ wire' = IF Up(s) THEN [wire EXCEPT ![s] = Append(@, m)] ELSE wire
  BY DEF ApplyLocalEdits, serverVars
<1>2. \A d \in Clients :
        /\ client'[d].outbox = client[d].outbox \cup (IF d = c THEN {op} ELSE {})
        /\ client'[d].view = client[d].view \cup (IF d = c THEN {op} ELSE {})
        /\ client'[d].lastAckedSeq = client[d].lastAckedSeq
        /\ client'[d].ws = client[d].ws
  BY EditEffect DEF Undisturbed
<1>3. Serving' /\ Loading' /\ Core'
  <2>1. ClientsKeep
    BY <1>2 DEF ClientsKeep
  <2> QED
    BY <1>1, <2>1, SameHeap, ServerKeeps
<1>4. ASSUME NEW q \in Sockets, NEW i \in 1..Len(wire'[q])
      PROVE  \/ i \in 1..Len(wire[q]) /\ wire'[q][i] = wire[q][i]
             \/ q = s /\ clientOf(q) = c /\ wire'[q][i] = m
  <2>1. CASE q = s /\ Up(s)
    <3>1. wire[q] \in Seq(MessageOf(produced)) /\ clientOf(q) = c
      BY <2>1 DEF Typed, TypedWire, Registered, Up
    <3>2. wire'[q] = Append(wire[q], m)
      BY <1>1, <2>1 DEF Typed, TypedWire
    <3> HIDE DEF m
    <3>3. i \in 1..(Len(wire[q]) + 1)
      BY <3>1, <3>2
    <3> QED
      BY <2>1, <3>1, <3>2, <3>3
  <2>2. CASE ~(q = s /\ Up(s))
    <3>1. wire'[q] = wire[q]
      BY <1>1, <2>2 DEF Typed, TypedWire
    <3> QED
      BY <3>1
  <2> QED
    BY <2>1, <2>2
<1>5. m.type = "op" /\ m.ops = {op}
  OBVIOUS
<1> HIDE DEF m, s
<1>6. Registered'
  BY <1>1, <1>2, RegisteredFrame DEF Registered
<1>7. NoOrphans' /\ Reached'
  <2>1. \A o \in Ops : Live(o)' => Live(o)
    BY <1>1 DEF Live
  <2>2. SameSockets
    BY <1>1, SameHeap
  <2> QED
    BY <1>1, <1>2, <2>1, <2>2, ReachFrame
<1>8. Outboxes'
  <2>1. \A d \in Clients : client'[d].outbox \subseteq client'[d].view
    BY <1>2 DEF Outboxes
  <2>2. \A u \in tasks : u.ops \subseteq client[clientOf(u.socket)].outbox \cup acked
    BY DEF Outboxes
  <2>3. \A q \in Sockets : \A i \in 1..Len(wire'[q]) :
          wire'[q][i].type = "op" =>
            wire'[q][i].ops \subseteq client'[clientOf(q)].outbox \cup acked
    BY <1>2, <1>4, <1>5 DEF Outboxes
  <2> QED
    BY <1>1, <1>2, <2>1, <2>2, <2>3, OutboxesFrame
<1>9. Joining'
  <2>1. \A q \in Sockets : \A i \in 1..Len(wire'[q]) :
          wire'[q][i].type = "join" =>
            i \in 1..Len(wire[q]) /\ wire'[q][i] = wire[q][i]
    BY <1>4, <1>5
  <2> QED
    BY <1>1, <1>2, <2>1, JoiningFrame
<1> QED
  BY <1>3, <1>6, <1>7, <1>8, <1>9 DEF Rest

\* The link of a socket goes down.
LEMMA BreakStep ==
    ASSUME Undisturbed, Inv, Typed', NEW s \in Sockets, Break(s)
    PROVE  Rest'
<1> USE NetTypes DEF Inv, Net
<1>1. /\ UNCHANGED <<store, lastSeq, heap, rooms, inbox, tasks, tick, acked,
                     client, wire>>
      /\ sockets' = [sockets EXCEPT ![s].up = FALSE]
  BY DEF Break, serverVars, clientVars
<1>2. \A q \in Sockets : /\ sockets'[q].proc = sockets[q].proc
                         /\ sockets'[q].joined = sockets[q].joined
                         /\ sockets'[q].up => sockets[q].up
  BY <1>1 DEF Typed, TypedSockets, SocketType
<1>3. Serving' /\ Loading' /\ Core'
  BY <1>1, SameHeap, ServerKeeps DEF ClientsKeep
<1>4. Registered'
  BY <1>1, <1>2, RegisteredFrame DEF Registered
<1>5. NoOrphans' /\ Reached'
  <2>1. \A o \in Ops : Live(o)' => Live(o)
    BY <1>1 DEF Live
  <2> QED
    BY <1>1, <1>2, <2>1, SameHeap, ReachFrame
<1>6. Outboxes'
  BY <1>1 DEF Outboxes
<1>7. Joining'
  BY <1>1, <1>2, JoiningFrame
<1> QED
  BY <1>3, <1>4, <1>5, <1>6, <1>7 DEF Rest

\* The browser finds its link down.
LEMMA ClientCloseStep ==
    ASSUME Undisturbed, Inv, Typed', NEW c \in Clients, ClientClose(c)
    PROVE  Rest'
<1> USE NetTypes DEF Inv, Net
<1>1. /\ UNCHANGED <<store, lastSeq, heap, rooms, inbox, tasks, tick, acked,
                     sockets, wire>>
      /\ client' = [client EXCEPT ![c].ws = None] /\ ~Up(client[c].ws)
      /\ client[c].ws # None
  BY DEF ClientClose, serverVars, netVars
<1>2. \A d \in Clients : /\ client'[d].view = client[d].view
                         /\ client'[d].outbox = client[d].outbox
                         /\ client'[d].lastAckedSeq = client[d].lastAckedSeq
                         /\ client'[d].ws = IF d = c THEN None ELSE client[d].ws
  BY <1>1 DEF Typed, TypedClient, ClientOf
<1>3. Serving' /\ Loading' /\ Core'
  BY <1>1, <1>2, SameHeap, ServerKeeps DEF ClientsKeep
<1>4. Registered'
  BY <1>1, <1>2, RegisteredFrame DEF Registered
<1>5. NoOrphans' /\ Reached'
  <2>1. \A o \in Ops : Live(o)' => Live(o)
    BY <1>1 DEF Live
  <2> QED
    BY <1>1, <1>2, <2>1, SameHeap, ReachFrame
<1>6. Outboxes'
  <2>1. \A t \in tasks :
          t.ops \subseteq client'[clientOf(t.socket)].outbox \cup acked
    BY <1>2 DEF Outboxes
  <2>2. \A s \in Sockets : \A i \in 1..Len(wire[s]) : wire[s][i].type = "op" =>
          wire[s][i].ops \subseteq client'[clientOf(s)].outbox \cup acked
    BY <1>2 DEF Outboxes
  <2> QED
    BY <1>1, <1>2, <2>1, <2>2 DEF Outboxes
<1>7. Joining'
  <2>1. \A s \in Sockets : sockets[s].up => clientOf(s) # c
    BY <1>1 DEF Joining, Up
  <2> QED
    BY <1>1, <1>2, <2>1, JoiningFrame
<1> QED
  BY <1>3, <1>4, <1>5, <1>6, <1>7 DEF Rest

\* A join and a leave change the sockets of a room and nothing else.
LEMMA JoinFields ==
    ASSUME NEW P, NEW room \in RoomOf(P), NEW c \in Clients, NEW s \in Sockets
    PROVE  /\ joinRoom(room, c, s).ops = room.ops
           /\ joinRoom(room, c, s).seq = room.seq
           /\ joinRoom(room, c, s).opsSinceSnapshot = room.opsSinceSnapshot
           /\ joinRoom(room, c, s).opLog = room.opLog
           /\ joinRoom(room, c, s).coverageFloor = room.coverageFloor
           /\ joinRoom(room, c, s).sockets = [room.sockets EXCEPT ![c] = s]
BY DEF joinRoom, RoomOf

\* What leave does to each field of a room.
LEMMA LeaveFields ==
    ASSUME NEW P, NEW room \in RoomOf(P), NEW c \in Clients, NEW s \in Sockets
    PROVE  /\ leaveRoom(room, c, s).ops = room.ops
           /\ leaveRoom(room, c, s).seq = room.seq
           /\ leaveRoom(room, c, s).opsSinceSnapshot = room.opsSinceSnapshot
           /\ leaveRoom(room, c, s).opLog = room.opLog
           /\ leaveRoom(room, c, s).coverageFloor = room.coverageFloor
           /\ leaveRoom(room, c, s).sockets = [room.sockets EXCEPT ![c] =
                                                 IF @ = s THEN None ELSE @]
BY DEF leaveRoom, RoomOf

\* What leave does to the rooms: the socket is no longer registered.
LEMMA LeaveEffect ==
    ASSUME Inv, NEW s \in Sockets, ServerClose(s)
    PROVE  /\ SameRooms
           /\ \A i \in DOMAIN heap, c \in Clients :
                heap'[i].sockets[c] \in {heap[i].sockets[c],
                     IF heap[i].sockets[c] = s THEN None ELSE heap[i].sockets[c]}
<1> DEFINE i == rooms[sockets[s].proc]
           c == clientOf(s)
<1> USE NetTypes DEF Inv, Net
<1>1. CASE UNCHANGED heap
  BY <1>1, SameHeap
<1>2. CASE sockets[s].joined /\ i # None /\ heap' = [heap EXCEPT ![i] = leaveRoom(@, c, s)]
  <2>1. sockets[s].proc \in Procs /\ c \in Clients
    BY <1>2 DEF Registered
  <2>2. i \in DOMAIN heap /\ heap[i] \in RoomOf(produced)
    BY <1>2, <2>1, HeapElement DEF Typed, TypedHeap
  <2>3. /\ DOMAIN heap' = DOMAIN heap /\ heap'[i] = leaveRoom(heap[i], c, s)
        /\ \A j \in DOMAIN heap : j # i => heap'[j] = heap[j]
    BY <1>2, <2>2
  <2> DEFINE new == leaveRoom(heap[i], c, s)
  <2>4. /\ new.ops = heap[i].ops /\ new.seq = heap[i].seq
        /\ new.opsSinceSnapshot = heap[i].opsSinceSnapshot
        /\ new.opLog = heap[i].opLog
        /\ new.coverageFloor = heap[i].coverageFloor
        /\ new.sockets = [heap[i].sockets EXCEPT ![c] =
                            IF @ = s THEN None ELSE @]
    BY <2>1, <2>2, LeaveFields
  <2>6. heap[i].sockets \in [Clients -> Sockets \cup {None}]
    BY <2>2 DEF RoomOf
  <2> HIDE DEF new
  <2>7. \A d \in Clients : new.sockets[d] \in {heap[i].sockets[d],
                     IF heap[i].sockets[d] = s THEN None ELSE heap[i].sockets[d]}
    BY <2>4, <2>6
  <2>8. heap'[i] = new
    BY <2>3 DEF new
  <2> HIDE DEF i
  <2>9. SameRooms
    BY <2>3, <2>4, <2>8 DEF SameRooms
  <2> QED
    BY <2>3, <2>7, <2>8, <2>9
<1> QED
  BY <1>1, <1>2 DEF ServerClose, leave

\* The server finds a link down.
LEMMA ServerCloseStep ==
    ASSUME Undisturbed, Inv, Typed', NEW s \in Sockets, ServerClose(s)
    PROVE  Rest'
<1> USE NetTypes DEF Inv, Net
<1>1. /\ UNCHANGED <<store, lastSeq, rooms, inbox, tasks, tick, acked, client>>
      /\ sockets' = [sockets EXCEPT ![s].open = FALSE] /\ ~sockets[s].up
      /\ wire' = [wire EXCEPT ![s] = <<>>]
  BY DEF ServerClose, clientVars
<1>2. /\ SameRooms
      /\ \A i \in DOMAIN heap, c \in Clients :
           heap'[i].sockets[c] \in {heap[i].sockets[c],
                IF heap[i].sockets[c] = s THEN None ELSE heap[i].sockets[c]}
  BY LeaveEffect
<1>3. \A q \in Sockets : /\ sockets'[q].proc = sockets[q].proc
                         /\ sockets'[q].joined = sockets[q].joined
                         /\ sockets'[q].up = sockets[q].up
  BY <1>1 DEF Typed, TypedSockets, SocketType
<1>4. Serving' /\ Loading' /\ Core'
  BY <1>1, <1>2, ServerKeeps DEF ClientsKeep
<1>5. ASSUME NEW q \in Sockets, NEW i \in 1..Len(wire'[q])
      PROVE  i \in 1..Len(wire[q]) /\ wire'[q][i] = wire[q][i]
  <2>1. wire'[q] = IF q = s THEN <<>> ELSE wire[q]
    BY <1>1 DEF Typed, TypedWire
  <2> QED
    BY <2>1
<1>6. Registered'
  <2>1. \A i \in DOMAIN heap', c \in Clients :
          \/ heap'[i].sockets[c] = None
          \/ i \in DOMAIN heap /\ heap'[i].sockets[c] = heap[i].sockets[c]
    BY <1>2 DEF SameRooms
  <2> QED
    BY <1>1, <1>3, <2>1, RegisteredFrame DEF Registered
<1>7. NoOrphans'
  <2>1. SUFFICES ASSUME NEW q \in Sockets, sockets'[q].joined, sockets'[q].up
                 PROVE  /\ rooms[sockets[q].proc] # None
                        /\ heap'[rooms[sockets[q].proc]].sockets[clientOf(q)] = q
    BY <1>1, <1>3 DEF NoOrphans
  <2>2. /\ rooms[sockets[q].proc] # None /\ sockets[q].proc \in Procs
        /\ heap[rooms[sockets[q].proc]].sockets[clientOf(q)] = q /\ q # s
    BY <1>1, <1>3, <2>1 DEF NoOrphans, Registered
  <2> QED
    BY <1>2, <2>2
<1>8. Reached'
  <2>1. SUFFICES ASSUME NEW p \in Procs, NEW c \in Clients, NEW op \in Ops,
                        rooms[p] # None, Up(heap[rooms[p]].sockets[c])',
                        Live(op)'
                 PROVE  op \in client[c].view
    BY <1>1 DEF Reached
  <2>2. Live(op)
    BY <1>1, <2>1 DEF Live
  <2>3. heap'[rooms[p]].sockets[c] = heap[rooms[p]].sockets[c]
    BY <1>1, <1>2, <2>1 DEF Up
  <2>4. Up(heap[rooms[p]].sockets[c])
    BY <1>1, <1>3, <2>1, <2>3 DEF Up
  <2> QED
    BY <2>1, <2>2, <2>4 DEF Reached
<1>9. Outboxes' /\ Joining'
  <2>1. Outboxes'
    <3>1. \A q \in Sockets : \A i \in 1..Len(wire'[q]) : wire'[q][i].type = "op" =>
            wire'[q][i].ops \subseteq client[clientOf(q)].outbox \cup acked
      BY <1>5 DEF Outboxes
    <3> QED
      BY <1>1, <3>1 DEF Outboxes
  <2> QED
    BY <1>1, <1>3, <1>5, <2>1, JoiningFrame
<1> QED
  BY <1>4, <1>6, <1>7, <1>8, <1>9 DEF Rest

\* An operation that comes before its socket has joined is refused.
LEMMA TooEarlyStep ==
    ASSUME Undisturbed, Inv, Typed', NEW s \in Sockets, DispatchTooEarly(s)
    PROVE  Rest'
<1> USE NetTypes DEF Inv, Net
<1>1. /\ UNCHANGED <<store, lastSeq, heap, rooms, inbox, tasks, tick, acked,
                     client, sockets>>
      /\ wire' = [wire EXCEPT ![s] = Tail(@)] /\ wire[s] # <<>>
  BY DEF DispatchTooEarly, serverVars, clientVars
<1>2. Serving' /\ Loading' /\ Core'
  BY <1>1, SameHeap, ServerKeeps DEF ClientsKeep
<1>3. ASSUME NEW q \in Sockets
      PROVE  \A i \in 1..Len(wire'[q]) :
             /\ wire'[q][i].type = "op" =>
                  wire'[q][i].ops \subseteq client[clientOf(q)].outbox \cup acked
             /\ wire'[q][i].type = "join" =>
                  i \in 1..Len(wire[q]) /\ wire'[q][i] = wire[q][i]
  <2>1. \A i \in 1..Len(wire'[q]) :
          /\ wire'[q][i].type \in {"join", "op"}
          /\ wire'[q][i].type = "op" =>
               wire'[q][i].ops \subseteq client[clientOf(q)].outbox \cup acked
          /\ wire'[q][i].type = "join" =>
               q # s /\ i \in 1..Len(wire[q]) /\ wire'[q][i] = wire[q][i]
    BY <1>1, TailEffect
  <2> QED
    BY <2>1
<1>4. Registered'
  BY <1>1, RegisteredFrame DEF Registered
<1>5. NoOrphans' /\ Reached'
  <2>1. \A o \in Ops : Live(o)' => Live(o)
    BY <1>1 DEF Live
  <2> QED
    BY <1>1, <2>1, SameHeap, ReachFrame
<1>6. Outboxes'
  BY <1>1, <1>3 DEF Outboxes
<1>7. Joining'
  BY <1>1, <1>3, JoiningFrame
<1> QED
  BY <1>2, <1>4, <1>5, <1>6, <1>7 DEF Rest

-----------------------------------------------------------------------------
(* The join *)

\* The room registers the socket and closes the one that it replaces.
LEMMA JoinRoomEffect ==
    ASSUME Inv, NEW s \in Sockets, NEW i \in DOMAIN heap, NEW k, NEW rest,
           JoinRoom(s, i, k, rest)
    PROVE  /\ SameRooms
           /\ \A j \in DOMAIN heap : j # i => heap'[j] = heap[j]
           /\ \A c \in Clients : heap'[i].sockets[c] =
                IF c = clientOf(s) THEN s ELSE heap[i].sockets[c]
           /\ \A q \in Sockets :
                /\ sockets'[q].proc = sockets[q].proc
                /\ sockets'[q].joined = (q = s \/ sockets[q].joined)
                /\ sockets'[q].up = (sockets[q].up /\
                     (q = s \/ q # heap[i].sockets[clientOf(s)]))
<1> DEFINE c == clientOf(s)
<1> USE NetTypes DEF Inv, Net
<1>1. c \in Clients /\ heap[i] \in RoomOf(produced)
  BY HeapElement DEF Typed, TypedHeap
<1>2. heap' = [heap EXCEPT ![i] = joinRoom(@, c, s)]
  BY DEF JoinRoom
<1> DEFINE new == joinRoom(heap[i], c, s)
<1>3. /\ DOMAIN heap' = DOMAIN heap /\ heap'[i] = new
      /\ \A j \in DOMAIN heap : j # i => heap'[j] = heap[j]
  BY <1>2
<1>4. /\ new.ops = heap[i].ops /\ new.seq = heap[i].seq
      /\ new.opsSinceSnapshot = heap[i].opsSinceSnapshot
      /\ new.opLog = heap[i].opLog
      /\ new.coverageFloor = heap[i].coverageFloor
      /\ new.sockets = [heap[i].sockets EXCEPT ![c] = s]
  BY <1>1, JoinFields
<1>5. heap[i].sockets \in [Clients -> Sockets \cup {None}]
  BY <1>1 DEF RoomOf
<1> HIDE DEF new
<1>6. SameRooms
  BY <1>3, <1>4 DEF SameRooms
<1>7. ASSUME NEW q \in Sockets
      PROVE  /\ sockets'[q].proc = sockets[q].proc
             /\ sockets'[q].joined = (q = s \/ sockets[q].joined)
             /\ sockets'[q].up = (sockets[q].up /\
                                  (q = s \/ q # heap[i].sockets[c]))
  <2>1. sockets'[q] =
             CASE q = s -> [sockets[q] EXCEPT !.joined = TRUE]
               [] q = heap[i].sockets[c] /\ q # s -> [sockets[q] EXCEPT !.up = FALSE]
               [] OTHER -> sockets[q]
    BY DEF JoinRoom
  <2>2. sockets[q] \in [proc : Procs \cup {None}, up : BOOLEAN, open : BOOLEAN,
                        joined : BOOLEAN]
    BY DEF SocketType
  <2>3. CASE q = s
    BY <2>1, <2>2, <2>3
  <2>4. CASE q # s /\ q = heap[i].sockets[c]
    BY <2>1, <2>2, <2>4
  <2>5. CASE q # s /\ q # heap[i].sockets[c]
    BY <2>1, <2>2, <2>5
  <2> QED
    BY <2>3, <2>4, <2>5
<1> QED
  BY <1>3, <1>4, <1>5, <1>6, <1>7

\* A client that joins the room with its cursor is caught up: it gets everything
\* that is live, from the log of the room or from the snapshot.
LEMMA JoinCatchesUp ==
    ASSUME Undisturbed, NothingBuffered, Inv, NEW p \in Procs, rooms[p] # None,
           NEW c \in Clients, NEW op \in Ops, Live(op)
    PROVE  LET room == heap[rooms[p]]
               missed == getOpsSince(room, client[c].lastAckedSeq)
           IN  IF missed # None THEN op \in client[c].view \cup missed
               ELSE op \in snapshot(room)
<1> DEFINE room == heap[rooms[p]]
           k == client[c].lastAckedSeq
<1> USE DEF Inv
<1>1. /\ rooms[p] \in DOMAIN heap /\ room.seq \in Nat /\ room.coverageFloor \in Nat
      /\ k \in Nat /\ room.opLog \in SUBSET BatchOf(produced)
  BY SeqTypes DEF RoomOf
<1>2. op \in room.ops /\ snapshot(room) = room.ops
  BY <1>1 DEF Core, RoomHasAll, NothingBuffered
<1>3. CASE op \in client[c].view
  BY <1>2, <1>3
<1>4. CASE op \notin client[c].view
  <2>1. Delivers(room, k, op)
    BY <1>4 DEF Core, LogReaches
  <2>2. CASE k < room.coverageFloor
    <3>1. getOpsSince(room, k) = None
      BY <1>1, <2>1, <2>2 DEF getOpsSince, Delivers
    <3> QED
      BY <1>2, <3>1
  <2>3. CASE ~(k < room.coverageFloor)
    <3>1. getOpsSince(room, k) = OpsOf({b \in room.opLog : b.seq > k})
      BY <1>1, <2>1, <2>3 DEF getOpsSince, Delivers
    <3>2. PICK b \in room.opLog : op \in b.ops /\ k < b.seq
      BY <2>1, <2>3 DEF Delivers
    <3>3. b.seq \in Nat
      BY <1>1, <3>2 DEF BatchOf
    <3>4. op \in getOpsSince(room, k)
      BY <1>1, <3>1, <3>2, <3>3 DEF OpsOf
    <3> QED
      BY <1>2, <3>4
  <2> QED
    BY <2>2, <2>3
<1> QED
  BY <1>3, <1>4

\* After the join the client has everything that is live, and its cursor is the
\* seq of the room.
LEMMA JoinedClient ==
    ASSUME Undisturbed, NothingBuffered, Inv, NEW s \in Sockets,
           NEW p \in Procs, rooms[p] # None, NEW k, NEW rest,
           Up(s) => k = client[clientOf(s)].lastAckedSeq,
           JoinRoom(s, rooms[p], k, rest)
    PROVE  /\ \A c \in Clients : c # clientOf(s) \/ ~Up(s) => client'[c] = client[c]
           /\ Up(s) =>
                /\ client'[clientOf(s)].lastAckedSeq = heap[rooms[p]].seq
                /\ \A op \in Ops : Live(op) => op \in client'[clientOf(s)].view
           /\ \A c \in Clients : /\ client'[c].outbox = client[c].outbox
                                 /\ client'[c].ws = client[c].ws
                                 /\ client[c].outbox \subseteq client'[c].view
<1> DEFINE c == clientOf(s)
           room == heap[rooms[p]]
           missed == getOpsSince(room, k)
<1>1. ASSUME NEW d \in Clients
      PROVE
        /\ client'[d].outbox = client[d].outbox
        /\ client'[d].ws = client[d].ws
        /\ d # c \/ ~Up(s) => client'[d] = client[d]
        /\ d = c /\ Up(s) =>
             /\ client'[d].lastAckedSeq = room.seq
             /\ client'[d].view =
                  IF missed # None THEN client[d].view \cup missed
                  ELSE snapshot(room) \cup client[d].outbox
  BY JoinEffect DEF Inv
<1> USE NetTypes DEF Inv, Net
<1>2. \A d \in Clients : client[d].outbox \subseteq client[d].view
  BY DEF Outboxes
<1>3. c \in Clients
  OBVIOUS
<1>4. ASSUME Up(s), NEW op \in Ops, Live(op) PROVE op \in client'[c].view
  <2>1. IF missed # None THEN op \in client[c].view \cup missed
        ELSE op \in snapshot(room)
    BY <1>3, <1>4, JoinCatchesUp
  <2> HIDE DEF missed, room, c
  <2> QED
    BY <1>1, <1>3, <1>4, <2>1
<1> HIDE DEF missed, room, c
<1>5. \A d \in Clients : client[d].outbox \subseteq client'[d].view
  BY <1>1, <1>2
<1> QED
  BY <1>1, <1>3, <1>4, <1>5 DEF c, room

\* The end of a join, by either of its callers.
LEMMA JoinRoomStep ==
    ASSUME Undisturbed, NothingBuffered, Inv, Typed', NEW s \in Sockets,
           NEW p \in Procs, sockets[s].proc = p, rooms[p] # None,
           NEW k, Up(s) => k = client[clientOf(s)].lastAckedSeq,
           NEW rest \in Seq(MessageOf(produced)),
           \A i \in 1..Len(rest) :
             /\ rest[i].type = "op"
             /\ rest[i].ops \subseteq client[clientOf(s)].outbox \cup acked,
           JoinRoom(s, rooms[p], k, rest),
           tasks' \subseteq tasks,
           \A u \in tasks' : u.type = "join" => u.socket # s,
           UNCHANGED <<store, lastSeq, rooms, inbox, tick, acked>>
    PROVE  Rest'
<1> DEFINE c == clientOf(s)
           i == rooms[p]
<1> USE NetTypes DEF Inv, Net
<1>1. /\ i \in DOMAIN heap /\ c \in Clients /\ s # None /\ p # None
      /\ \A q \in Procs : q = p
  BY SocketsAssumption, RoomManagerAssumption DEF Undisturbed
<1>2. /\ SameRooms
      /\ \A j \in DOMAIN heap : j # i => heap'[j] = heap[j]
      /\ \A d \in Clients : heap'[i].sockets[d] =
           IF d = c THEN s ELSE heap[i].sockets[d]
      /\ \A q \in Sockets :
           /\ sockets'[q].proc = sockets[q].proc
           /\ sockets'[q].joined = (q = s \/ sockets[q].joined)
           /\ sockets'[q].up = (sockets[q].up /\
                (q = s \/ q # heap[i].sockets[c]))
  BY <1>1, JoinRoomEffect
<1>3. /\ \A d \in Clients : d # c \/ ~Up(s) => client'[d] = client[d]
      /\ Up(s) => /\ client'[c].lastAckedSeq = heap[i].seq
                  /\ \A op \in Ops : Live(op) => op \in client'[c].view
      /\ \A d \in Clients : /\ client'[d].outbox = client[d].outbox
                            /\ client'[d].ws = client[d].ws
                            /\ client[d].outbox \subseteq client'[d].view
  BY JoinedClient
<1>4. ASSUME NEW q \in Sockets, NEW j \in 1..Len(wire'[q])
      PROVE  \/ q # s /\ j \in 1..Len(wire[q]) /\ wire'[q][j] = wire[q][j]
             \/ /\ q = s /\ wire'[q][j].type = "op"
                /\ wire'[q][j].ops \subseteq client[c].outbox \cup acked
  <2>1. CASE q # s
    <3>1. wire'[q] = wire[q]
      BY <2>1 DEF JoinRoom, Typed, TypedWire
    <3> QED
      BY <2>1, <3>1
  <2>2. CASE q = s
    <3>1. wire'[q] = rest \/ \E m : /\ wire'[q] = rest \o <<m>> /\ m.type = "op"
                                    /\ m.ops = client[c].outbox
      <4>1. wire'[q] = rest \/ \E cl : /\ wire'[q] = rest \o flushOutbox(cl)
                                       /\ client' = [client EXCEPT ![c] = cl]
        BY <2>2 DEF JoinRoom, Typed, TypedWire
      <4>2. ASSUME NEW cl, wire'[q] = rest \o flushOutbox(cl),
                   client' = [client EXCEPT ![c] = cl]
            PROVE  wire'[q] = rest \/ \E m : /\ wire'[q] = rest \o <<m>>
                                             /\ m.type = "op"
                                             /\ m.ops = client[c].outbox
        <5>1. cl.outbox = client[c].outbox
          BY <1>1, <1>3, <4>2 DEF Typed, TypedClient
        <5>2. CASE cl.outbox = {}
          <6>1. flushOutbox(cl) = <<>>
            BY <5>2 DEF flushOutbox
          <6>2. rest \o <<>> = rest
            OBVIOUS
          <6>3. wire'[q] = rest \o <<>>
            BY <4>2, <6>1, Zenon
          <6> QED
            BY <6>2, <6>3, Zenon
        <5>3. CASE cl.outbox # {}
          <6> DEFINE m == [type |-> "op", ops |-> cl.outbox]
          <6>1. flushOutbox(cl) = <<m>>
            BY <5>3 DEF flushOutbox
          <6>2. m.type = "op" /\ m.ops = client[c].outbox
            BY <5>1
          <6> HIDE DEF m
          <6>3. wire'[q] = rest \o <<m>>
            BY <4>2, <6>1, Zenon
          <6> QED
            BY <6>2, <6>3, Zenon
        <5> QED
          BY <5>2, <5>3
      <4> QED
        BY <4>1, <4>2
    <3>2. CASE wire'[q] = rest
      BY <2>2, <3>2
    <3>3. ASSUME NEW m, wire'[q] = rest \o <<m>>, m.type = "op",
                 m.ops = client[c].outbox
          PROVE  /\ wire'[q][j].type = "op"
                 /\ wire'[q][j].ops \subseteq client[c].outbox \cup acked
      <4>1. j \in 1..(Len(rest) + 1)
        BY <3>3
      <4>2. CASE j \in 1..Len(rest)
        <5>1. wire'[q][j] = rest[j]
          BY <3>3, <4>2
        <5> QED
          BY <4>2, <5>1
      <4>3. CASE j = Len(rest) + 1
        <5>1. wire'[q][j] = m
          BY <3>3, <4>3
        <5> QED
          BY <3>3, <5>1
      <4> QED
        BY <4>1, <4>2, <4>3
    <3> QED
      BY <2>2, <3>1, <3>2, <3>3
  <2> QED
    BY <2>1, <2>2
<1> HIDE DEF i, c
<1>5. /\ UNCHANGED acked /\ \A op : Live(op)' => Live(op)
      /\ \A op : Saved(op) \/ op \notin acked'
  BY DEF Live, Saved
<1>6. Serving' /\ Loading'
  <2>1. Serving'
    BY ServingFrame DEF InPlace
  <2> QED
    BY <2>1, LoadingFrame
<1>7. Core'
  <2>1. ClientsKeep
    <3>1. ASSUME NEW d \in Clients
          PROVE  \/ client'[d] = client[d]
                 \/ /\ client'[d].lastAckedSeq = heap[rooms[p]].seq
                    /\ \A op \in Ops : Live(op) => op \in client'[d].view
      BY <1>3 DEF i
    <3>2. heap[rooms[p]].seq \in Nat
      BY SeqTypes
    <3> QED
      BY <3>1, <3>2 DEF ClientsKeep
  <2>2. NoNewWork
    BY DEF NoNewWork, Continues
  <2>3. RoomsKeep
    BY DEF RoomsKeep
  <2>4. Calm
    BY <1>2, <1>5, <2>1, <2>2, <2>3 DEF Calm
  <2> QED
    BY <1>6, <2>4, CalmCore
<1>8. Registered'
  <2>1. ASSUME NEW j \in DOMAIN heap', NEW d \in Clients
        PROVE  \/ j \in DOMAIN heap /\ heap'[j].sockets[d] = heap[j].sockets[d]
               \/ /\ heap'[j].sockets[d] \in Sockets
                  /\ clientOf(heap'[j].sockets[d]) = d
                  /\ sockets'[heap'[j].sockets[d]].joined
    <3>1. j \in DOMAIN heap
      BY <1>2 DEF SameRooms
    <3>2. CASE j = i /\ d = c
      <4>1. heap'[j].sockets[d] = s /\ sockets'[s].joined
        BY <1>2, <3>2
      <4> QED
        BY <3>2, <4>1 DEF c
    <3>3. CASE ~(j = i /\ d = c)
      BY <1>2, <3>1, <3>3
    <3> QED
      BY <3>2, <3>3
  <2>2. \A q \in Sockets : sockets'[q].joined => sockets'[q].proc # None
    BY <1>1, <1>2 DEF Registered
  <2> QED
    BY <1>2, <1>3, <2>1, <2>2, RegisteredFrame DEF Registered
<1>9. NoOrphans'
  <2>1. SUFFICES ASSUME NEW q \in Sockets, sockets'[q].joined, sockets'[q].up
                 PROVE  /\ rooms[sockets[q].proc] # None
                        /\ heap'[rooms[sockets[q].proc]].sockets[clientOf(q)] = q
    BY <1>2 DEF NoOrphans
  <2>2. sockets[q].proc = p
    BY <1>1, <1>2, <2>1 DEF Registered
  <2>3. CASE q = s
    BY <1>2, <2>2, <2>3 DEF i, c
  <2>4. CASE q # s
    <3>1. heap[i].sockets[clientOf(q)] = q
      BY <1>2, <2>1, <2>2, <2>4 DEF NoOrphans, i
    <3>2. clientOf(q) # c
      BY <1>2, <2>1, <2>4, <3>1
    <3> QED
      BY <1>2, <2>2, <3>1, <3>2 DEF i
  <2> QED
    BY <2>3, <2>4
<1>10. Reached'
  <2>1. SUFFICES ASSUME NEW d \in Clients, NEW op \in Ops,
                        Up(heap[i].sockets[d])', Live(op)
                 PROVE  op \in client'[d].view
    BY <1>1, <1>5 DEF Reached, i
  <2>2. CASE d = c
    <3>1. Up(s)
      BY <1>1, <1>2, <2>1, <2>2 DEF Up, i
    <3> QED
      BY <1>3, <2>1, <2>2, <3>1
  <2>3. CASE d # c
    <3>1. heap'[i].sockets[d] = heap[i].sockets[d]
      BY <1>2, <2>3
    <3>2. Up(heap[i].sockets[d])
      <4>1. heap'[i].sockets[d] # None /\ sockets'[heap'[i].sockets[d]].up
        BY <2>1 DEF Up, i
      <4>2. heap[i].sockets[d] \in Sockets
        BY <1>1, <3>1, <4>1
      <4> QED
        BY <1>2, <3>1, <4>1, <4>2 DEF Up
    <3>3. op \in client[d].view
      BY <2>1, <3>2 DEF Reached, i
    <3> QED
      BY <1>3, <2>3, <3>3
  <2> QED
    BY <2>2, <2>3
<1>11. Outboxes'
  <2>1. \A q \in Sockets : \A j \in 1..Len(wire'[q]) : wire'[q][j].type = "op" =>
          wire'[q][j].ops \subseteq client[clientOf(q)].outbox \cup acked
    BY <1>4 DEF Outboxes, c
  <2>2. \A u \in tasks' : /\ u.socket \in Sockets
                          /\ u.ops \subseteq
                               client[clientOf(u.socket)].outbox \cup acked
    BY DEF Outboxes
  <2> QED
    BY <1>3, <1>5, <2>1, <2>2, OutboxesFrame
<1>12. Joining'
  <2>1. \A q \in Sockets : sockets'[q].up => client'[clientOf(q)].ws = q
    BY <1>2, <1>3 DEF Joining
  <2>2. \A q \in Sockets : sockets[q].up /\ clientOf(q) = c => q = s \/ ~Up(s)
    BY DEF Joining, Up, c
  <2>3. ASSUME NEW q \in Sockets, q # s, sockets'[q].up
        PROVE  /\ sockets[q].up
               /\ client'[clientOf(q)].lastAckedSeq
                    = client[clientOf(q)].lastAckedSeq
    BY <1>2, <1>3, <2>2, <2>3
  <2>4. ASSUME NEW q \in Sockets, NEW j \in 1..Len(wire'[q]),
               wire'[q][j].type = "join"
        PROVE  /\ j = 1 /\ ~sockets'[q].joined
               /\ \A t \in tasks' : t.type = "join" => t.socket # q
               /\ sockets'[q].up =>
                    wire'[q][j].sinceSeq = client'[clientOf(q)].lastAckedSeq
    <3>1. q # s /\ j \in 1..Len(wire[q]) /\ wire'[q][j] = wire[q][j]
      BY <1>4, <2>4
    <3>2. /\ j = 1 /\ ~sockets[q].joined
          /\ \A t \in tasks : t.type = "join" => t.socket # q
          /\ sockets[q].up =>
               wire[q][j].sinceSeq = client[clientOf(q)].lastAckedSeq
      BY <2>4, <3>1 DEF Joining
    <3> QED
      BY <1>2, <2>3, <3>1, <3>2
  <2>5. ASSUME NEW t \in tasks', t.type = "join"
        PROVE  /\ ~sockets'[t.socket].joined
               /\ sockets'[t.socket].up =>
                    t.sinceSeq = client'[clientOf(t.socket)].lastAckedSeq
    <3>1. t \in tasks /\ t.socket # s /\ t.socket \in Sockets
      BY <2>5
    <3>2. /\ ~sockets[t.socket].joined
          /\ sockets[t.socket].up =>
               t.sinceSeq = client[clientOf(t.socket)].lastAckedSeq
      BY <2>5, <3>1 DEF Joining
    <3> QED
      BY <1>2, <2>3, <3>1, <3>2
  <2> QED
    BY <2>1, <2>4, <2>5 DEF Joining
<1> QED
  BY <1>6, <1>7, <1>8, <1>9, <1>10, <1>11, <1>12 DEF Rest

-----------------------------------------------------------------------------
(* The messages *)

\* The first message of a wire, as the invariant sees it.
LEMMA FirstMessage ==
    ASSUME Inv, NEW s \in Sockets, wire[s] # <<>>
    PROVE  /\ sockets[s].proc \in Procs
           /\ Tail(wire[s]) \in Seq(MessageOf(produced))
           /\ Head(wire[s]).type = "op" =>
                /\ Head(wire[s]).ops \subseteq client[clientOf(s)].outbox \cup acked
                /\ Head(wire[s]).ops \subseteq produced
           /\ Head(wire[s]).type = "join" =>
                /\ ~sockets[s].joined
                /\ \A t \in tasks : t.type = "join" => t.socket # s
                /\ Up(s) => Head(wire[s]).sinceSeq = client[clientOf(s)].lastAckedSeq
           /\ \A i \in 1..Len(Tail(wire[s])) :
                /\ Tail(wire[s])[i].type = "op"
                /\ Tail(wire[s])[i].ops
                     \subseteq client[clientOf(s)].outbox \cup acked
<1> USE DEF Inv, Net
<1>1. wire[s] \in Seq(MessageOf(produced))
  BY DEF Typed, TypedWire
<1>2. Head(wire[s]) = wire[s][1] /\ 1 \in 1..Len(wire[s])
  BY <1>1
<1>3. /\ sockets[s].proc \in Procs
      /\ Tail(wire[s]) \in Seq(MessageOf(produced))
      /\ Head(wire[s]).type = "op" => Head(wire[s]).ops \subseteq produced
  BY WireHead
<1>4. Head(wire[s]).type = "op" =>
        Head(wire[s]).ops \subseteq client[clientOf(s)].outbox \cup acked
  BY <1>2 DEF Outboxes
<1>5. Head(wire[s]).type = "join" =>
        /\ ~sockets[s].joined
        /\ \A t \in tasks : t.type = "join" => t.socket # s
        /\ sockets[s].up =>
             Head(wire[s]).sinceSeq = client[clientOf(s)].lastAckedSeq
  BY <1>2 DEF Joining
<1>6. ASSUME NEW i \in 1..Len(Tail(wire[s]))
      PROVE  /\ Tail(wire[s])[i].type = "op"
             /\ Tail(wire[s])[i].ops \subseteq client[clientOf(s)].outbox \cup acked
  <2>1. i + 1 \in 1..Len(wire[s]) /\ Tail(wire[s])[i] = wire[s][i + 1] /\ i + 1 # 1
    BY <1>1, TailElements
  <2>2. wire[s][i + 1] \in MessageOf(produced)
    BY <1>1, <2>1
  <2>3. wire[s][i + 1].type # "join"
    BY <2>1 DEF Joining
  <2>4. wire[s][i + 1].type = "op"
    BY <2>2, <2>3 DEF MessageOf
  <2> QED
    BY <2>1, <2>4 DEF Outboxes
<1> QED
  BY <1>3, <1>4, <1>5, <1>6 DEF Up

\* A task for the first message of a wire.
ForFirst(s, u) ==
    /\ u.socket = s /\ u.proc = sockets[s].proc
    /\ u.ops \subseteq client[clientOf(s)].outbox \cup acked
    /\ u.type = "join" => /\ Head(wire[s]).type = "join"
                          /\ u.sinceSeq = Head(wire[s]).sinceSeq

\* A message is taken off its wire and gets a task, or none.
LEMMA MessageNet ==
    ASSUME Inv, NEW s \in Sockets, wire[s] # <<>>,
           wire' = [wire EXCEPT ![s] = Tail(@)],
           \A u \in tasks' : u \in tasks \/ ForFirst(s, u),
           \A op : Live(op)' => Live(op),
           UNCHANGED <<heap, sockets, client, rooms, acked>>
    PROVE  Net'
<1>1. ASSUME NEW q \in Sockets
      PROVE  \A i \in 1..Len(wire'[q]) :
             /\ wire'[q][i].type \in {"join", "op"}
             /\ wire'[q][i].type = "op" =>
                  wire'[q][i].ops \subseteq client[clientOf(q)].outbox \cup acked
             /\ wire'[q][i].type = "join" =>
                  q # s /\ i \in 1..Len(wire[q]) /\ wire'[q][i] = wire[q][i]
  BY TailEffect DEF Inv, Net
<1> USE NetTypes DEF Inv, Net
<1>2. /\ sockets[s].proc \in Procs
      /\ Head(wire[s]).type = "join" =>
           /\ ~sockets[s].joined
           /\ \A t \in tasks : t.type = "join" => t.socket # s
           /\ Up(s) => Head(wire[s]).sinceSeq = client[clientOf(s)].lastAckedSeq
  BY FirstMessage
<1>3. Registered'
  <2>1. \A u \in tasks' : u.socket \in Sockets /\ sockets[u.socket].proc = u.proc
    BY DEF ForFirst, Registered
  <2> QED
    BY <2>1, RegisteredFrame DEF Registered
<1>4. NoOrphans' /\ Reached'
  BY SameHeap, ReachFrame
<1>5. Outboxes'
  <2>1. \A u \in tasks' : /\ u.socket \in Sockets
                          /\ u.ops \subseteq
                               client[clientOf(u.socket)].outbox \cup acked
    BY DEF ForFirst, Outboxes
  <2> QED
    BY <1>1, <2>1 DEF Outboxes
<1>6. Joining'
  <2>1. ASSUME NEW u \in tasks', u.type = "join"
        PROVE  /\ ~sockets[u.socket].joined
               /\ sockets[u.socket].up =>
                    u.sinceSeq = client[clientOf(u.socket)].lastAckedSeq
               /\ u \in tasks \/ u.socket = s
    <3>1. CASE u \in tasks
      BY <2>1, <3>1 DEF Joining
    <3>2. CASE ForFirst(s, u)
      BY <1>2, <2>1, <3>2, SocketsAssumption DEF ForFirst, Up
    <3> QED
      BY <3>1, <3>2
  <2>2. ASSUME NEW q \in Sockets, NEW i \in 1..Len(wire'[q]),
               wire'[q][i].type = "join"
        PROVE  /\ i = 1 /\ ~sockets[q].joined
               /\ \A t \in tasks' : t.type = "join" => t.socket # q
               /\ sockets[q].up =>
                    wire'[q][i].sinceSeq = client[clientOf(q)].lastAckedSeq
    <3>1. q # s /\ i \in 1..Len(wire[q]) /\ wire'[q][i] = wire[q][i]
      BY <1>1, <2>2
    <3>2. /\ i = 1 /\ ~sockets[q].joined
          /\ \A t \in tasks : t.type = "join" => t.socket # q
          /\ sockets[q].up =>
               wire[q][i].sinceSeq = client[clientOf(q)].lastAckedSeq
      BY <2>2, <3>1 DEF Joining
    <3> QED
      BY <2>1, <3>1, <3>2
  <2>3. \A q \in Sockets : sockets[q].up => client[clientOf(q)].ws = q
    BY DEF Joining
  <2> QED
    BY <2>1, <2>2, <2>3 DEF Joining
<1> QED
  BY <1>3, <1>4, <1>5, <1>6

\* The fields of a new task, and of a task that has its seq.
LEMMA NewTaskFields ==
    ASSUME NEW type, NEW p, NEW s, NEW k, NEW ops, NEW i, NEW n
    PROVE  LET t == newTask(type, p, s, k, ops)
               u == [t EXCEPT !.pc = "apply", !.room = i, !.seq = n,
                              !.loaded = NothingLoaded]
           IN  /\ t.type = type /\ t.proc = p /\ t.socket = s
               /\ t.sinceSeq = k /\ t.ops = ops /\ t.pc = "document"
               /\ u.type = type /\ u.proc = p /\ u.socket = s
               /\ u.sinceSeq = k /\ u.ops = ops /\ u.pc = "apply"
               /\ u.room = i /\ u.seq = n
BY DEF newTask

\* A join: at once, or after a load.
LEMMA DispatchJoinStep ==
    ASSUME Undisturbed, NothingBuffered, Inv, Typed', NEW s \in Sockets,
           DispatchJoin(s)
    PROVE  Rest'
<1> DEFINE p == sockets[s].proc
           k == Head(wire[s]).sinceSeq
           u == newTask("join", p, s, k, {})
<1>1. /\ wire[s] # <<>> /\ Head(wire[s]).type = "join"
      /\ UNCHANGED <<store, lastSeq, rooms, inbox, tick, acked>>
  BY DEF DispatchJoin
<1>2. /\ p \in Procs
      /\ Tail(wire[s]) \in Seq(MessageOf(produced))
      /\ \A t \in tasks : t.type = "join" => t.socket # s
      /\ Up(s) => k = client[clientOf(s)].lastAckedSeq
      /\ \A i \in 1..Len(Tail(wire[s])) :
           /\ Tail(wire[s])[i].type = "op"
           /\ Tail(wire[s])[i].ops
                \subseteq client[clientOf(s)].outbox \cup acked
  BY <1>1, FirstMessage
<1>3. CASE rooms[p] # None
  <2>1. JoinRoom(s, rooms[p], k, Tail(wire[s])) /\ UNCHANGED tasks
    BY <1>3 DEF DispatchJoin
  <2> QED
    BY <1>1, <1>2, <1>3, <2>1, JoinRoomStep
<1>4. CASE rooms[p] = None
  <2>1. /\ MayLoad(p) /\ tasks' = tasks \cup {u}
        /\ wire' = [wire EXCEPT ![s] = Tail(@)]
        /\ UNCHANGED <<heap, sockets, client>>
    BY <1>4 DEF DispatchJoin
  <2>2. /\ u.type = "join" /\ u.proc = p /\ u.socket = s
        /\ u.sinceSeq = k /\ u.ops = {} /\ u.pc = "document"
    BY NewTaskFields
  <2> HIDE DEF u
  <2>3. u.type # "remote" /\ u.pc \notin OpPcs /\ u.pc \notin Past
    BY <2>2 DEF OpPcs, Past
  <2>4. Serving' /\ Loading'
    BY <1>1, <1>2, <1>4, <2>1, <2>2, <2>3, BeginLoad DEF Inv
  <2>5. Core'
    <3>1. NoNewWork
      BY <2>1, <2>3 DEF NoNewWork, Continues
    <3>2. Calm
      BY <1>1, <2>1, <3>1, SameHeap DEF Calm, RoomsKeep, ClientsKeep, Saved
    <3> QED
      BY <2>4, <3>2, CalmCore DEF Inv
  <2>6. Net'
    <3>1. \A op : Live(op)' => Live(op)
      BY <1>1, <2>1, <2>3 DEF Live
    <3>2. ForFirst(s, u)
      BY <1>1, <2>2 DEF ForFirst
    <3> QED
      BY <1>1, <2>1, <3>1, <3>2, MessageNet
  <2> QED
    BY <2>4, <2>5, <2>6 DEF Rest
<1> QED
  BY <1>3, <1>4

\* The allocation of a seq for a task whose room is there.
LEMMA AllocateStep ==
    ASSUME Undisturbed, Inv, Typed', NEW t \in TaskOf(produced), t.type = "op",
           rooms[t.proc] # None, AllocateSeq(t, rooms[t.proc]),
           UNCHANGED <<store, rooms, tick, heap, client, acked, inbox>>
    PROVE  /\ Serving' /\ Loading' /\ Core'
           /\ \A u \in tasks' : u \in tasks \/ SameMessage(t, u)
           /\ \A op : Live(op)' => Live(op)
<1> DEFINE u == [t EXCEPT !.pc = "apply", !.room = rooms[t.proc],
                          !.seq = lastSeq + 1, !.loaded = NothingLoaded]
<1>1. /\ u.pc = "apply" /\ u.room = rooms[t.proc] /\ u.seq = lastSeq + 1
      /\ u.type = t.type /\ u.proc = t.proc /\ u.socket = t.socket
      /\ u.sinceSeq = t.sinceSeq /\ u.ops = t.ops /\ t.proc \in Procs
  BY DEF TaskOf
<1>2. \/ tasks' = (tasks \ {t}) \cup {u} /\ lastSeq' = lastSeq + 1
      \/ tasks' = tasks \ {t} /\ UNCHANGED lastSeq
  BY DEF AllocateSeq, Becomes, Done, next
<1> HIDE DEF u
<1>3. /\ u.pc \in OpPcs /\ u.pc \notin Past /\ u.pc # "ack"
      /\ u.pc \notin {"snapshot", "operations"}
  BY <1>1 DEF OpPcs, Past
<1>4. \A v \in tasks' : v \in tasks \/ v = u
  BY <1>2
<1>5. \A v \in tasks' : InPlace(v)
  BY <1>1, <1>3, <1>4 DEF InPlace
<1>6. Serving'
  BY <1>5, ServingFrame DEF Inv
<1>7. Loading'
  BY <1>3, <1>4, LoadingFrame DEF Inv
<1>8. Core'
  <2>1. CASE tasks' = (tasks \ {t}) \cup {u} /\ lastSeq' = lastSeq + 1
    <3>1. tasks' \subseteq tasks \cup {u}
      BY <2>1
    <3> QED
      BY <1>1, <2>1, <3>1, AllocateCore DEF Inv
  <2>2. CASE tasks' = tasks \ {t} /\ UNCHANGED lastSeq
    <3>1. Calm
      BY <2>2, SameHeap
      DEF Calm, RoomsKeep, ClientsKeep, Saved, NoNewWork, Continues
    <3> QED
      BY <1>6, <3>1, CalmCore DEF Inv
  <2> QED
    BY <1>2, <2>1, <2>2
<1>9. \A op : Live(op)' => Live(op)
  BY <1>3, <1>4 DEF Live
<1>10. \A v \in tasks' : v \in tasks \/ SameMessage(t, v)
  BY <1>1, <1>4 DEF SameMessage
<1> QED
  BY <1>6, <1>7, <1>8, <1>9, <1>10

\* An operation: a seq at once, or after a load.
LEMMA DispatchOpStep ==
    ASSUME Undisturbed, Inv, Typed', NEW s \in Sockets, DispatchOp(s)
    PROVE  Rest'
<1> DEFINE p == sockets[s].proc
           S == Head(wire[s]).ops
           t == newTask("op", p, s, 0, S)
<1>1. /\ wire[s] # <<>> /\ Head(wire[s]).type = "op"
      /\ wire' = [wire EXCEPT ![s] = Tail(@)]
      /\ UNCHANGED <<store, heap, rooms, inbox, tick, client, acked, sockets>>
  BY DEF DispatchOp, clientVars
<1>2. /\ p \in Procs /\ S \subseteq client[clientOf(s)].outbox \cup acked
      /\ S \subseteq produced
  BY <1>1, FirstMessage
<1>3. /\ t.type = "op" /\ t.proc = p /\ t.socket = s
      /\ t.sinceSeq = 0 /\ t.ops = S /\ t.pc = "document"
  BY NewTaskFields
<1>4. t \in TaskOf(produced)
  BY <1>2, NewTaskType
<1>5. IF rooms[p] # None THEN AllocateSeq(t, rooms[p])
      ELSE MayLoad(p) /\ tasks' = tasks \cup {t} /\ UNCHANGED lastSeq
  BY DEF DispatchOp
<1> HIDE DEF t
<1>6. CASE rooms[p] # None
  <2>1. /\ Serving' /\ Loading' /\ Core'
        /\ \A u \in tasks' : u \in tasks \/ SameMessage(t, u)
        /\ \A op : Live(op)' => Live(op)
    BY <1>1, <1>3, <1>4, <1>5, <1>6, AllocateStep
  <2>2. \A u \in tasks' : u \in tasks \/ ForFirst(s, u)
    BY <1>2, <1>3, <2>1 DEF SameMessage, ForFirst
  <2>3. Net'
    BY <1>1, <2>1, <2>2, MessageNet
  <2> QED
    BY <2>1, <2>3 DEF Rest
<1>7. CASE rooms[p] = None
  <2>1. MayLoad(p) /\ tasks' = tasks \cup {t} /\ UNCHANGED lastSeq
    BY <1>5, <1>7
  <2>2. t.type # "remote" /\ t.pc \notin OpPcs /\ t.pc \notin Past
    BY <1>3 DEF OpPcs, Past
  <2>3. Serving' /\ Loading'
    BY <1>1, <1>2, <1>3, <1>7, <2>1, <2>2, BeginLoad DEF Inv
  <2>4. Core'
    <3>1. NoNewWork
      BY <2>1, <2>2 DEF NoNewWork, Continues
    <3>2. Calm
      BY <1>1, <2>1, <3>1, SameHeap DEF Calm, RoomsKeep, ClientsKeep, Saved
    <3> QED
      BY <2>3, <3>2, CalmCore DEF Inv
  <2>5. Net'
    <3>1. \A op : Live(op)' => Live(op)
      BY <1>1, <2>1, <2>2 DEF Live
    <3>2. ForFirst(s, t)
      BY <1>2, <1>3 DEF ForFirst
    <3> QED
      BY <1>1, <2>1, <3>1, <3>2, MessageNet
  <2> QED
    BY <2>3, <2>4, <2>5 DEF Rest
<1> QED
  BY <1>6, <1>7

-----------------------------------------------------------------------------
(* The tasks *)

\* A step that changes what tasks have left to do, and nothing outside.
LEMMA TaskNet ==
    ASSUME Inv, UNCHANGED <<sockets, wire, rooms, client, acked>>, SameSockets,
           \A u \in tasks' : \E t \in tasks : SameMessage(t, u),
           \A op : Live(op)' => Live(op)
    PROVE  Net'
<1>1. \A op \in Ops : Live(op)' => Live(op) \/ Delivered(op)
  OBVIOUS
<1>2. Typed /\ Serving /\ Net
  BY DEF Inv
<1> QED
  BY <1>1, <1>2, NetFrame

\* A load or an append fails, and its task ends.
LEMMA FailsStep ==
    ASSUME Undisturbed, Inv, Typed', NEW t \in tasks,
           LoadFails(t) \/ PersistFails(t)
    PROVE  Rest'
<1>1. /\ tasks' = tasks \ {t}
      /\ UNCHANGED <<store, lastSeq, heap, rooms, inbox, tick, client, acked,
                     sockets, wire>>
  BY DEF LoadFails, PersistFails, Done, clientVars, netVars
<1>2. Serving'
  BY <1>1, ServingFrame DEF Inv, InPlace
<1>3. Loading'
  BY <1>1, LoadingFrame DEF Inv
<1>4. Calm
  BY <1>1, SameHeap DEF Calm, RoomsKeep, ClientsKeep, Saved, NoNewWork, Continues
<1>5. Core'
  BY <1>2, <1>4, CalmCore DEF Inv
<1>6. Net'
  <2>1. \A op : Live(op)' => Live(op)
    BY <1>1 DEF Live
  <2>2. \A u \in tasks' : \E v \in tasks : SameMessage(v, u)
    BY <1>1 DEF SameMessage
  <2> QED
    BY <1>1, <2>1, <2>2, SameHeap, TaskNet
<1> QED
  BY <1>2, <1>3, <1>5, <1>6 DEF Rest

\* A load goes on: the queries do not change anything.
LEMMA GoOnStep ==
    ASSUME Undisturbed, Inv, Typed', NEW t \in tasks, t.pc \in Querying,
           NEW u, SameMessage(t, u), u.pc \in {"snapshot", "operations"},
           u.loaded.latestSeq = store.latestSeq,
           u.pc = "operations" => u.loaded.snapshot \in latestSnapshots(store),
           tasks' = (tasks \ {t}) \cup {u},
           UNCHANGED <<store, lastSeq, heap, rooms, inbox, tick, client, acked,
                       sockets, wire>>
    PROVE  Rest'
<1>1. Serving' /\ Loading'
  BY GoOnLoading DEF Inv, SameMessage
<1>2. u.pc \notin OpPcs /\ u.pc \notin Past /\ u.pc # "ack"
  BY DEF OpPcs, Past
<1>3. NoNewWork
  BY <1>2 DEF NoNewWork, Continues
<1>4. Calm
  BY <1>3, SameHeap DEF Calm, RoomsKeep, ClientsKeep, Saved
<1>5. Core'
  BY <1>1, <1>4, CalmCore DEF Inv
<1>6. Net'
  <2>1. \A op : Live(op)' => Live(op)
    BY <1>2 DEF Live
  <2>2. \A w \in tasks' : \E v \in tasks : SameMessage(v, w)
    BY DEF SameMessage
  <2> QED
    BY <2>1, <2>2, SameHeap, TaskNet
<1> QED
  BY <1>1, <1>5, <1>6 DEF Rest

\* A load ends: the new room, which nobody has joined, is the one of the map.
LEMMA CreateRoomStep ==
    ASSUME Undisturbed, Inv, Typed', NEW t \in tasks, t.pc \in Querying,
           NEW loaded \in [latestSeq : Nat, snapshot : BatchOf(produced)],
           NEW batches \in SUBSET BatchOf(produced),
           \/ /\ store.latestSeq = None /\ batches = {}
              /\ loaded.snapshot.seq = 0 /\ loaded.latestSeq = 0
           \/ /\ store.latestSeq = loaded.latestSeq
              /\ loaded.snapshot \in latestSnapshots(store)
              /\ batches = batchesAfter(store, loaded.snapshot.seq),
           CreateRoom(t, loaded, batches),
           UNCHANGED <<store, lastSeq, inbox, tick, client, acked, sockets, wire>>
    PROVE  Rest'
<1> DEFINE n == Len(heap) + 1
           p == t.proc
           u == [t EXCEPT !.pc = "subscribe", !.room = n, !.loaded = NothingLoaded]
           room == hydrate(loaded.snapshot, batches, loaded.latestSeq)
<1>1. /\ heap' = Append(heap, room) /\ rooms' = [rooms EXCEPT ![p] = n]
      /\ tasks' = (tasks \ {t}) \cup {u}
  BY DEF CreateRoom, Becomes
<1>2. /\ u.pc = "subscribe" /\ u.room = n /\ SameMessage(t, u)
  BY DEF Inv, Typed, TypedTasks, TaskOf, SameMessage
<1>3. /\ rooms[p] = None /\ p \in Procs /\ tick[p] = None
      /\ \A q \in Procs : q = p
      /\ \A v \in tasks : v = t
      /\ tasks' = {u}
  BY <1>1, OnlyLoad DEF Inv
<1>4. room \in RoomOf(produced) /\ room.sockets = NoSockets
  <2>1. loaded.snapshot \in BatchOf(produced) /\ loaded.latestSeq \in Nat
    OBVIOUS
  <2>2. IsFiniteSet(produced)
    BY DEF Inv, Typed, TypedHistory
  <2> QED
    BY <2>1, <2>2, HydrateType DEF hydrate
<1> HIDE DEF u
<1>5. Serving' /\ Loading'
  <2>1. rooms'[p] = n
    BY <1>1, <1>3 DEF Inv, Typed, TypedRooms
  <2> QED
    BY <1>1, <1>2, <2>1, EndLoad DEF Inv, SameMessage
<1>6. u.pc \notin OpPcs /\ u.pc \notin Past /\ u.pc # "ack"
  BY <1>2 DEF OpPcs, Past
<1>7. Core'
  <2>1. loaded.snapshot \in BatchOf(produced) /\ loaded.latestSeq \in Nat
    OBVIOUS
  <2>2. \A v \in tasks' : v.pc \notin OpPcs
    BY <1>3, <1>6
  <2>3. Typed /\ Serving /\ Core
    BY DEF Inv
  <2> QED
    BY <1>1, <1>3, <2>1, <2>2, <2>3, NewRoomCore
<1> HIDE DEF room
<1>8. /\ n \in DOMAIN heap' /\ heap'[n] = room /\ n # None
      /\ DOMAIN heap' = DOMAIN heap \cup {n}
      /\ \A i \in DOMAIN heap : heap'[i] = heap[i]
  BY <1>1, <1>4, HeapAppend, NoneIsNone DEF Inv, Typed, TypedHeap
<1>9. /\ rooms'[p] = n
      /\ \A c \in Clients : heap'[n].sockets[c] = None
  BY <1>1, <1>3, <1>4, <1>8 DEF Inv, Typed, TypedRooms, NoSockets
<1> HIDE DEF n
<1>10. Registered'
  <2>1. sockets[u.socket].proc = u.proc /\ u.socket \in Sockets
    BY <1>2, NetTypes DEF SameMessage, Inv, Net, Registered
  <2>2. \A i \in DOMAIN heap', c \in Clients :
          \/ heap'[i].sockets[c] = None
          \/ i \in DOMAIN heap /\ heap'[i].sockets[c] = heap[i].sockets[c]
    BY <1>8, <1>9
  <2>3. Typed /\ Serving /\ Registered
    BY DEF Inv, Net
  <2>4. \A s \in Sockets : sockets[s].joined => sockets[s].proc # None
    BY <2>3 DEF Registered
  <2> QED
    BY <1>3, <2>1, <2>2, <2>3, <2>4, RegisteredFrame
<1>11. NoOrphans'
  <2>1. \A s \in Sockets : ~(sockets[s].joined /\ sockets[s].up)
    <3>1. \A s \in Sockets : sockets[s].joined => sockets[s].proc = p
      BY <1>3, NetTypes DEF Inv, Net, Registered
    <3> QED
      BY <1>3, <3>1 DEF Inv, Net, NoOrphans
  <2> QED
    BY <2>1 DEF NoOrphans
<1>12. Reached'
  <2>1. \A c \in Clients : ~Up(heap[rooms[p]].sockets[c])'
    BY <1>9 DEF Up
  <2> QED
    BY <1>3, <2>1 DEF Reached
<1>13. Outboxes'
  <2>1. u.ops \subseteq client[clientOf(u.socket)].outbox \cup acked
    BY <1>2 DEF SameMessage, Inv, Net, Outboxes
  <2> QED
    BY <1>3, <2>1 DEF Inv, Net, Outboxes
<1>14. Joining'
  <2>1. \A v \in tasks' : v.type = "join" =>
          \E w \in tasks : /\ w.type = "join" /\ w.socket = v.socket
                           /\ w.sinceSeq = v.sinceSeq
    BY <1>2, <1>3 DEF SameMessage
  <2>2. Typed /\ Serving /\ Joining
    BY DEF Inv, Net
  <2> QED
    BY <2>1, <2>2, JoiningFrame
<1> QED
  BY <1>5, <1>7, <1>10, <1>11, <1>12, <1>13, <1>14 DEF Rest, Net

\* The three queries of a load.
LEMMA LoadStep ==
    ASSUME Undisturbed, Inv, Typed', NEW t \in tasks,
           LoadDocument(t) \/ LoadSnapshot(t) \/ LoadOperations(t)
    PROVE  Rest'
<1>1. t.pc \in Querying
  BY DEF LoadDocument, LoadSnapshot, LoadOperations, Querying
<1>2. /\ t \in TaskOf(produced) /\ store \in StoreOf(produced)
      /\ t.loaded \in [latestSeq : Nat, snapshot : BatchOf(produced)]
      /\ t.loaded.snapshot.seq \in Nat
  BY DEF Inv, Typed, TypedTasks, TypedStore, TaskOf, BatchOf
<1>3. UNCHANGED <<store, lastSeq, inbox, tick, client, acked, sockets, wire>>
  BY DEF LoadDocument, LoadSnapshot, LoadOperations, clientVars, netVars
<1>4. CASE LoadDocument(t) /\ store.latestSeq = None
  <2>1. CreateRoom(t, NothingLoaded, {})
    BY <1>4 DEF LoadDocument
  <2>2. /\ NothingLoaded \in [latestSeq : Nat, snapshot : BatchOf(produced)]
        /\ NothingLoaded.snapshot.seq = 0 /\ NothingLoaded.latestSeq = 0
    BY DEF NothingLoaded, BatchOf
  <2> QED
    BY <1>1, <1>3, <1>4, <2>1, <2>2, CreateRoomStep
<1>5. CASE LoadDocument(t) /\ store.latestSeq # None
  <2> DEFINE u == [t EXCEPT !.pc = "snapshot", !.loaded.latestSeq = store.latestSeq]
  <2>1. tasks' = (tasks \ {t}) \cup {u} /\ UNCHANGED <<heap, rooms>>
    BY <1>5 DEF LoadDocument, Becomes
  <2>2. SameMessage(t, u) /\ u.pc = "snapshot" /\ u.loaded.latestSeq = store.latestSeq
    BY <1>2 DEF SameMessage, TaskOf
  <2> HIDE DEF u
  <2> QED
    BY <1>1, <1>3, <2>1, <2>2, GoOnStep
<1>6. CASE LoadSnapshot(t)
  <2>1. t.pc = "snapshot" /\ t.loaded.latestSeq = store.latestSeq
    BY <1>6 DEF LoadSnapshot, Inv, Loading
  <2>2. PICK found \in latestSnapshots(store) :
          Becomes(t, [t EXCEPT !.pc = "operations", !.loaded.snapshot = found])
    BY <1>6 DEF LoadSnapshot
  <2> DEFINE u == [t EXCEPT !.pc = "operations", !.loaded.snapshot = found]
  <2>3. tasks' = (tasks \ {t}) \cup {u} /\ UNCHANGED <<heap, rooms>>
    BY <1>6, <2>2 DEF LoadSnapshot, Becomes
  <2>4. /\ SameMessage(t, u) /\ u.pc = "operations"
        /\ u.loaded.latestSeq = t.loaded.latestSeq /\ u.loaded.snapshot = found
    BY <1>2 DEF SameMessage, TaskOf
  <2> HIDE DEF u
  <2> QED
    BY <1>1, <1>3, <2>1, <2>2, <2>3, <2>4, GoOnStep
<1>7. CASE LoadOperations(t)
  <2>1. /\ t.pc = "operations" /\ t.loaded.latestSeq = store.latestSeq
        /\ t.loaded.snapshot \in latestSnapshots(store)
    BY <1>7 DEF LoadOperations, Inv, Loading
  <2>2. CreateRoom(t, t.loaded, batchesAfter(store, t.loaded.snapshot.seq))
    BY <1>7 DEF LoadOperations
  <2>3. batchesAfter(store, t.loaded.snapshot.seq) \in SUBSET BatchOf(produced)
    BY <1>2, StoreOps DEF Inv, Typed, TypedHistory
  <2> QED
    BY <1>1, <1>2, <1>3, <2>1, <2>2, <2>3, CreateRoomStep
<1> QED
  BY <1>4, <1>5, <1>6, <1>7

\* The room is there: the join or the operation that caused the load goes on.
LEMMA SubscribeStep ==
    ASSUME Undisturbed, NothingBuffered, Inv, Typed', NEW t \in tasks,
           Subscribe(t)
    PROVE  Rest'
<1> DEFINE p == t.proc
           s == t.socket
<1>1. /\ t.pc = "subscribe" /\ t.room = rooms[p] /\ t \in TaskOf(produced)
      /\ UNCHANGED <<store, rooms, inbox, tick, acked>>
  BY DEF Subscribe, Inv, Serving, Typed, TypedTasks
<1>2. /\ p \in Procs /\ s \in Sockets /\ rooms[p] # None /\ sockets[s].proc = p
  BY <1>1, SeqTypes DEF Inv, Net, Registered
<1>3. CASE t.type = "join"
  <2>1. /\ JoinRoom(s, rooms[p], t.sinceSeq, wire[s]) /\ tasks' = tasks \ {t}
        /\ UNCHANGED lastSeq
    BY <1>1, <1>3 DEF Subscribe, Done
  <2>2. Up(s) => t.sinceSeq = client[clientOf(s)].lastAckedSeq
    BY <1>3 DEF Up, Inv, Net, Joining
  <2>3. wire[s] \in Seq(MessageOf(produced))
    BY <1>2 DEF Inv, Typed, TypedWire
  <2>4. ASSUME NEW i \in 1..Len(wire[s])
        PROVE  /\ wire[s][i].type = "op"
               /\ wire[s][i].ops \subseteq client[clientOf(s)].outbox \cup acked
    <3>1. wire[s][i] \in MessageOf(produced)
      BY <2>3
    <3>2. wire[s][i].type # "join"
      BY <1>2, <1>3 DEF Inv, Net, Joining
    <3>3. wire[s][i].type = "op"
      BY <3>1, <3>2 DEF MessageOf
    <3> QED
      BY <1>2, <3>3 DEF Inv, Net, Outboxes
  <2>5. ASSUME NEW u \in tasks', u.type = "join" PROVE u.socket # s
    <3>1. u \in tasks /\ u # t
      BY <2>1
    <3>2. u.pc \in LoadPcs /\ t.pc \in LoadPcs
      BY <1>1, <2>5, <3>1 DEF Inv, Typed, TypedTasks, TaskOf, InItsRoom, LoadPcs
    <3> QED
      BY <3>1, <3>2 DEF Inv, Serving
  <2> QED
    BY <1>1, <1>2, <2>1, <2>2, <2>3, <2>4, <2>5, JoinRoomStep
<1>4. CASE t.type = "op"
  <2>1. AllocateSeq(t, rooms[p]) /\ UNCHANGED <<heap, sockets, wire, client>>
    BY <1>1, <1>4 DEF Subscribe
  <2>2. /\ Serving' /\ Loading' /\ Core'
        /\ \A u \in tasks' : u \in tasks \/ SameMessage(t, u)
        /\ \A op : Live(op)' => Live(op)
    BY <1>1, <1>2, <1>4, <2>1, AllocateStep
  <2>3. \A u \in tasks' : \E v \in tasks : SameMessage(v, u)
    BY <2>2 DEF SameMessage
  <2>4. Net'
    BY <1>1, <2>1, <2>2, <2>3, SameHeap, TaskNet
  <2> QED
    BY <2>2, <2>4 DEF Rest
<1> QED
  BY <1>3, <1>4 DEF Subscribe

\* A task that goes on in its room with the call pc.
LEMMA GoesOn ==
    ASSUME Inv, NEW t \in tasks, t.pc \in OpPcs, NEW pc \in OpPcs
    PROVE  LET u == [t EXCEPT !.pc = pc] IN
           /\ u.pc = pc /\ u.room = t.room /\ u.seq = t.seq /\ SameMessage(t, u)
           /\ InPlace(u) /\ u.pc \notin {"snapshot", "operations"}
           /\ t.room = rooms[t.proc]
<1> DEFINE u == [t EXCEPT !.pc = pc]
<1>1. /\ u.pc = pc /\ u.room = t.room /\ u.seq = t.seq /\ SameMessage(t, u)
  BY DEF Inv, Typed, TypedTasks, TaskOf, SameMessage
<1>2. t.room = rooms[t.proc] /\ t.type # "remote"
  BY DEF Inv, Serving
<1> HIDE DEF u
<1>3. InPlace(u)
  BY <1>1, <1>2 DEF InPlace, SameMessage
<1>4. u.pc \notin {"snapshot", "operations"}
  BY <1>1 DEF OpPcs
<1> QED
  BY <1>1, <1>2, <1>3, <1>4 DEF u

\* The batch is applied and broadcast.
LEMMA ApplyStep ==
    ASSUME Undisturbed, Inv, Typed', NEW t \in tasks, ApplyAndBroadcast(t)
    PROVE  Rest'
<1> DEFINE u == [t EXCEPT !.pc = "publish"]
           c == clientOf(t.socket)
           p == t.proc
<1>1. /\ t.pc = "apply" /\ tasks' = (tasks \ {t}) \cup {u}
      /\ heap' = [heap EXCEPT ![t.room] = applyOps(@, t.ops, t.seq)]
      /\ broadcast(heap[t.room], t.ops, c)
      /\ UNCHANGED <<store, lastSeq, rooms, inbox, tick, acked, sockets, wire>>
  BY DEF ApplyAndBroadcast, Becomes, netVars
<1>2. t.pc \in OpPcs /\ "publish" \in OpPcs
  BY <1>1 DEF OpPcs
<1>3. /\ u.pc = "publish" /\ u.room = t.room /\ u.seq = t.seq
      /\ SameMessage(t, u) /\ InPlace(u)
      /\ u.pc \notin {"snapshot", "operations"} /\ t.room = rooms[p]
  BY <1>2, GoesOn
<1> HIDE DEF u
<1>4. /\ t.room \in DOMAIN heap /\ p \in Procs /\ rooms[p] # None
      /\ heap[t.room] \in RoomOf(produced)
      /\ \A q \in Procs : q = p
  BY <1>2, <1>3, SeqTypes DEF Inv, Undisturbed
<1>5. Serving' /\ Loading'
  <2>1. Serving'
    BY <1>1, <1>3, ServingFrame DEF Inv, InPlace
  <2> QED
    BY <1>1, <1>3, <2>1, LoadingFrame DEF Inv
<1>6. Core'
  BY ApplyCore DEF Inv
<1>7. SameSockets
  <2>1. applyOps(heap[t.room], t.ops, t.seq).sockets = heap[t.room].sockets
    BY <1>4, ApplyOpsFields
  <2> QED
    BY <1>1, <1>4, <2>1 DEF SameSockets
<1>8. ASSUME NEW d \in Clients
      PROVE  /\ client'[d].view =
                  IF d # c /\ Up(heap[t.room].sockets[d])
                  THEN client[d].view \cup t.ops ELSE client[d].view
             /\ client'[d].outbox = client[d].outbox
             /\ client'[d].lastAckedSeq = client[d].lastAckedSeq
             /\ client'[d].ws = client[d].ws
  BY <1>1, BroadcastEffect DEF Inv
<1>9. ASSUME NEW op \in Ops, Live(op)', ~Live(op) PROVE Delivered(op)
  <2>1. op \in t.ops
    BY <1>1, <1>3, <1>9 DEF Live, SameMessage
  <2>2. op \in client[c].outbox
    BY <1>9, <2>1 DEF Inv, Net, Outboxes, Live
  <2>3. op \in client[c].view /\ c \in Clients
    BY <2>2, NetTypes DEF Inv, Net, Outboxes
  <2> QED
    BY <1>3, <1>4, <1>8, <2>1, <2>3 DEF Delivered
<1>10. Net'
  <2>1. \A op \in Ops : Live(op)' => Live(op) \/ Delivered(op)
    BY <1>9
  <2>2. \A v \in tasks' : \E w \in tasks : SameMessage(w, v)
    BY <1>1, <1>3 DEF SameMessage
  <2>3. Typed /\ Serving /\ Net
    BY DEF Inv
  <2>4. \A d \in Clients :
             /\ client'[d].ws = client[d].ws
             /\ client[d].view \subseteq client'[d].view
             /\ client'[d].outbox = client[d].outbox
             /\ client'[d].lastAckedSeq = client[d].lastAckedSeq
    BY <1>8
  <2> QED
    BY <1>1, <1>7, <2>1, <2>2, <2>3, <2>4, NetFrame
<1> QED
  BY <1>5, <1>6, <1>10 DEF Rest

\* The batch is published: there is no other process to get it.
LEMMA PublishStep ==
    ASSUME Undisturbed, Inv, Typed', NEW t \in tasks, Publish(t)
    PROVE  Rest'
<1> DEFINE u == [t EXCEPT !.pc = "append"]
<1>1. /\ t.pc = "publish" /\ tasks' = (tasks \ {t}) \cup {u}
      /\ UNCHANGED <<store, lastSeq, heap, rooms, tick, client, acked, sockets,
                     wire>>
  BY DEF Publish, Becomes, netVars, clientVars
<1>2. t.pc \in OpPcs /\ "append" \in OpPcs
  BY <1>1 DEF OpPcs
<1>3. /\ u.pc = "append" /\ u.room = t.room /\ u.seq = t.seq
      /\ SameMessage(t, u) /\ InPlace(u)
      /\ u.pc \notin {"snapshot", "operations"}
  BY <1>2, GoesOn
<1> HIDE DEF u
<1>4. UNCHANGED inbox
  <2>1. CASE publish(t.proc, [seq |-> t.seq, ops |-> t.ops])
    <3>1. t.proc \in Procs /\ \A p \in Procs : p = t.proc
      BY SeqTypes DEF Inv, Undisturbed
    <3>2. inbox' = [p \in Procs |-> inbox[p]]
      BY <2>1, <3>1 DEF publish
    <3> QED
      BY <3>2 DEF Inv, Typed, TypedBus
  <2> QED
    BY <2>1 DEF Publish
<1>5. Serving' /\ Loading'
  <2>1. Serving'
    BY <1>1, <1>3, <1>4, ServingFrame DEF Inv, InPlace
  <2> QED
    BY <1>1, <1>3, <2>1, LoadingFrame DEF Inv
<1>6. Core'
  <2>1. \A v \in tasks' : v.pc \in OpPcs =>
          \E w \in tasks : w.pc \in OpPcs /\ Continues(w, v)
    <3>1. Continues(t, u)
      BY <1>1, <1>3 DEF Continues, SameMessage, Past
    <3> QED
      BY <1>1, <1>2, <3>1 DEF Continues
  <2>2. Calm
    BY <1>1, <2>1, SameHeap
    DEF Calm, RoomsKeep, ClientsKeep, Saved, NoNewWork
  <2> QED
    BY <1>5, <2>2, CalmCore DEF Inv
<1>7. Net'
  <2>1. \A op : Live(op)' => Live(op)
    BY <1>1, <1>3 DEF Live, SameMessage, Past
  <2>2. \A v \in tasks' : \E w \in tasks : SameMessage(w, v)
    BY <1>1, <1>3 DEF SameMessage
  <2> QED
    BY <1>1, <2>1, <2>2, SameHeap, TaskNet
<1> QED
  BY <1>5, <1>6, <1>7 DEF Rest

\* The batch is saved.
LEMMA PersistStep ==
    ASSUME Undisturbed, Inv, Typed', NEW t \in tasks, Persist(t)
    PROVE  Rest'
<1> DEFINE u == [t EXCEPT !.pc = "ack"]
<1>1. /\ t.pc = "append" /\ tasks' \subseteq (tasks \ {t}) \cup {u}
      /\ store' = appendOps(store, t.seq, t.ops)
      /\ UNCHANGED <<lastSeq, heap, rooms, inbox, tick, client, acked, sockets,
                     wire>>
  BY DEF Persist, Becomes, Done, netVars, clientVars
<1>2. t.pc \in OpPcs /\ "ack" \in OpPcs /\ t.pc \in Past
  BY <1>1 DEF OpPcs, Past
<1>3. /\ u.pc = "ack" /\ u.room = t.room /\ u.seq = t.seq
      /\ SameMessage(t, u) /\ InPlace(u)
      /\ u.pc \notin {"snapshot", "operations"}
  BY <1>2, GoesOn
<1> HIDE DEF u
<1>4. Serving' /\ Loading'
  <2>1. Serving'
    BY <1>1, <1>3, ServingFrame DEF Inv, InPlace
  <2> QED
    BY <1>1, <1>2, <1>3, <2>1, LoadingFrame DEF Inv
<1>5. Core'
  BY PersistCore DEF Inv
<1>6. Net'
  <2>1. \A op : Live(op)' => Live(op)
    <3>1. /\ DistinctKeys /\ produced \in SUBSET Ops /\ store \in StoreOf(produced)
          /\ t.seq \in Nat /\ t.ops \in SUBSET produced
      BY SeqTypes DEF Undisturbed, Inv, Typed, TypedHistory, TypedStore
    <3>2. \A r \in store'.rows : r \in store.rows \/ r.op \in t.ops
      BY <1>1, <3>1, AppendEffect
    <3> QED
      BY <1>1, <1>2, <1>3, <3>2 DEF Live, SameMessage
  <2>2. \A v \in tasks' : \E w \in tasks : SameMessage(w, v)
    BY <1>1, <1>3 DEF SameMessage
  <2> QED
    BY <1>1, <2>1, <2>2, SameHeap, TaskNet
<1> QED
  BY <1>4, <1>5, <1>6 DEF Rest

\* The author gets its ack on the socket that the room has for it, if the link
\* is up: it has everything that is live, so that it may adopt the seq.
LEMMA AckStep ==
    ASSUME Undisturbed, Inv, Typed', NEW t \in tasks, Ack(t)
    PROVE  Rest'
<1> DEFINE c == clientOf(t.socket)
           p == t.proc
<1>1. /\ t.pc = "ack" /\ tasks' = tasks \ {t}
      /\ UNCHANGED <<store, lastSeq, heap, rooms, inbox, tick, sockets, wire>>
      /\ IF Up(heap[t.room].sockets[c])
         THEN /\ client' = [client EXCEPT ![c] = onAck(@, t.seq, KeysOf(t.ops))]
              /\ acked' = acked \cup t.ops
         ELSE UNCHANGED <<client, acked>>
  BY DEF Ack, Done, netVars
<1>2. t.pc \in OpPcs /\ t.pc \in Past
  BY <1>1 DEF OpPcs, Past
<1>3. /\ t.room = rooms[p] /\ p \in Procs /\ rooms[p] # None /\ c \in Clients
      /\ t.room \in DOMAIN heap
  BY <1>2, SeqTypes, NetTypes DEF Inv, Serving
<1>4. \A d \in Clients :
        /\ client[d].outbox \subseteq client'[d].outbox \cup acked'
        /\ client'[d].outbox \subseteq client[d].outbox
        /\ acked \subseteq acked' /\ acked' \subseteq acked \cup t.ops
        /\ client'[d].view = client[d].view /\ client'[d].ws = client[d].ws
  BY AckEffect DEF Undisturbed, Inv
<1>5. acked \subseteq acked' /\ acked' \subseteq acked \cup t.ops
  BY <1>3, <1>4
<1>6. ASSUME NEW d \in Clients
      PROVE  \/ client'[d].lastAckedSeq = client[d].lastAckedSeq
             \/ /\ d = c /\ Up(heap[t.room].sockets[c])
                /\ client'[d].lastAckedSeq = t.seq
  <2>1. client \in [Clients -> ClientOf(produced)]
    BY DEF Inv, Typed, TypedClient
  <2>2. CASE d = c /\ Up(heap[t.room].sockets[c])
    <3>1. client'[d] = onAck(client[d], t.seq, KeysOf(t.ops))
      BY <1>1, <2>1, <2>2
    <3>2. client'[d].lastAckedSeq = t.seq
      BY <2>1, <3>1, AckFields
    <3> QED
      BY <2>2, <3>2
  <2>3. CASE ~(d = c /\ Up(heap[t.room].sockets[c]))
    BY <1>1, <2>1, <2>3
  <2> QED
    BY <2>2, <2>3
<1> HIDE DEF c
<1>7. Serving' /\ Loading'
  <2>1. Serving'
    BY <1>1, ServingFrame DEF Inv, InPlace
  <2> QED
    BY <1>1, <2>1, LoadingFrame DEF Inv
<1>8. Core'
  <2>1. ClientsKeep
    <3>1. ASSUME NEW d \in Clients, d = c, Up(heap[t.room].sockets[c]),
                 client'[d].lastAckedSeq = t.seq
          PROVE  /\ client'[d].lastAckedSeq <= heap[rooms[p]].seq
                 /\ \A op \in Ops : Live(op) => op \in client'[d].view
      <4>1. t.seq <= heap[t.room].seq
        BY <1>2 DEF Inv, Core, InOrder
      <4>2. \A op \in Ops : Live(op) => op \in client[d].view
        BY <1>3, <3>1 DEF Inv, Net, Reached
      <4> QED
        BY <1>3, <1>4, <3>1, <4>1, <4>2
    <3> QED
      BY <1>3, <1>4, <1>6, <3>1 DEF ClientsKeep
  <2>2. NoNewWork /\ RoomsKeep /\ SameRooms
    BY <1>1, SameHeap DEF NoNewWork, Continues, RoomsKeep
  <2>3. \A op \in acked' : Saved(op)
    BY <1>1, <1>5 DEF Saved
  <2>4. Calm
    BY <1>1, <2>1, <2>2, <2>3 DEF Calm
  <2> QED
    BY <1>7, <2>4, CalmCore DEF Inv
<1>9. Net'
  <2>1. \A op \in Ops : Live(op)' => Live(op) \/ Delivered(op)
    BY <1>1, <1>2, <1>5 DEF Live
  <2>2. \A v \in tasks' : \E w \in tasks : SameMessage(w, v)
    BY <1>1 DEF SameMessage
  <2>3. ASSUME NEW d \in Clients, d = c, Up(heap[t.room].sockets[c]),
               NEW s \in Sockets, sockets[s].up, clientOf(s) = d
        PROVE  sockets[s].joined
    <3> DEFINE r == heap[t.room].sockets[c]
    <3>1. r # None /\ r \in Sockets /\ clientOf(r) = c /\ sockets[r].joined
          /\ sockets[r].up
      BY <1>3, <2>3, NetTypes DEF Inv, Net, Registered, Up
    <3> HIDE DEF r
    <3>2. s = r
      BY <2>3, <3>1 DEF Inv, Net, Joining
    <3> QED
      BY <3>1, <3>2
  <2>4. Typed /\ Serving /\ Net
    BY DEF Inv
  <2>5. \A d \in Clients :
             /\ client'[d].ws = client[d].ws
             /\ client[d].view \subseteq client'[d].view
             /\ client'[d].outbox \subseteq client[d].outbox
             /\ client[d].outbox \subseteq client'[d].outbox \cup acked'
             /\ \/ client'[d].lastAckedSeq = client[d].lastAckedSeq
                \/ \A s \in Sockets : sockets[s].up /\ clientOf(s) = d
                                        => sockets[s].joined
    BY <1>4, <1>6, <2>3
  <2> QED
    BY <1>1, <1>5, <2>1, <2>2, <2>4, <2>5, SameHeap, NetFrame
<1> QED
  BY <1>7, <1>8, <1>9 DEF Rest

-----------------------------------------------------------------------------
(* The tick and the crash *)

\* The tick takes the state of the room.
LEMMA TickSnapshotStep ==
    ASSUME Undisturbed, NothingBuffered, Inv, Typed', NEW p \in Procs,
           TickSnapshot(p)
    PROVE  Rest'
<1>1. /\ UNCHANGED <<store, lastSeq, heap, rooms, inbox, tasks, client, acked,
                     sockets, wire>>
      /\ tick'[p].pc = "write" /\ tick'[p].room = rooms[p]
      /\ \A q \in Procs : q # p => tick'[q] = tick[q]
  BY DEF TickSnapshot, clientVars, netVars, Inv, Typed, TypedTick
<1>2. Serving'
  BY <1>1 DEF Inv, Serving
<1>3. Loading'
  BY <1>1 DEF Inv, Loading
<1>4. Core'
  BY TickSnapshotCore DEF Inv
<1>5. Net'
  BY <1>1, SameHeap, TaskNet DEF SameMessage, Live
<1> QED
  BY <1>2, <1>3, <1>4, <1>5 DEF Rest

\* The snapshot is written and the log trimmed, or neither.
LEMMA TickWriteStep ==
    ASSUME Undisturbed, Inv, Typed', NEW p \in Procs, TickWrite(p)
    PROVE  Rest'
<1> DEFINE w == tick[p]
<1>1. /\ UNCHANGED <<lastSeq, rooms, inbox, tasks, client, acked, sockets, wire>>
      /\ w # None /\ tick' = [tick EXCEPT ![p] = None]
      /\ \/ /\ store' = writeSnapshot(store, w.atSeq, w.state)
            /\ heap' = [heap EXCEPT ![w.room] = advanceCoverageFloor(@, w.atSeq)]
         \/ UNCHANGED <<store, heap>>
  BY DEF TickWrite, clientVars, netVars
<1>2. /\ w.room = rooms[p] /\ rooms[p] # None /\ rooms[p] \in DOMAIN heap
      /\ w.atSeq \in Nat /\ heap[rooms[p]] \in RoomOf(produced)
  BY <1>1, SeqTypes DEF Inv, Serving
<1>3. \A q \in Procs : tick'[q] \in {tick[q], None}
  BY <1>1 DEF Inv, Typed, TypedTick
<1>4. Serving'
  BY <1>1, <1>3, ServingFrame DEF Inv, InPlace
<1>5. Loading'
  BY <1>1, <1>4, LoadingFrame DEF Inv
<1>6. Core'
  <2>1. CASE store' # store \/ heap' # heap
    BY <2>1, TickWriteCore DEF Inv
  <2>2. CASE UNCHANGED <<store, heap>>
    <3>1. Calm
      BY <1>1, <1>3, <2>2, SameHeap
      DEF Calm, RoomsKeep, ClientsKeep, Saved, NoNewWork, Continues
    <3> QED
      BY <1>4, <3>1, CalmCore DEF Inv
  <2> QED
    BY <2>1, <2>2
<1>7. SameSockets
  <2>1. advanceCoverageFloor(heap[rooms[p]], w.atSeq).sockets
          = heap[rooms[p]].sockets
    BY <1>2, AdvanceType
  <2> QED
    BY <1>1, <1>2, <2>1 DEF SameSockets
<1>8. Net'
  <2>1. store'.rows \subseteq store.rows
    <3>1. writeSnapshot(store, w.atSeq, w.state).rows \subseteq store.rows
      BY DEF writeSnapshot, Inv, Typed, TypedStore, StoreOf
    <3> QED
      BY <1>1, <3>1
  <2>2. \A op : Live(op)' => Live(op)
    BY <1>1, <2>1 DEF Live
  <2> QED
    BY <1>1, <1>7, <2>2, TaskNet DEF SameMessage
<1> QED
  BY <1>4, <1>5, <1>6, <1>8 DEF Rest

\* The process dies: what it had in memory and on its links is gone.
LEMMA CrashStep ==
    ASSUME Undisturbed, Inv, Typed', NEW p \in Procs, Crash(p)
    PROVE  Rest'
<1> USE NetTypes DEF Inv, Net
<1>1. /\ UNCHANGED <<store, lastSeq, heap, client, acked>>
      /\ rooms' = [rooms EXCEPT ![p] = None]
      /\ inbox' = [inbox EXCEPT ![p] = <<>>]
      /\ tick' = [tick EXCEPT ![p] = None]
      /\ tasks' = {t \in tasks : t.proc # p}
  BY DEF Crash, clientVars
<1>2. /\ \A q \in Procs : q = p /\ rooms'[q] = None /\ tick'[q] = None
                          /\ inbox'[q] = <<>>
      /\ tasks' = {}
  BY <1>1 DEF Undisturbed, Typed, TypedRooms, TypedTick, TypedBus
<1>3. ASSUME NEW s \in Sockets
      PROVE  /\ sockets'[s].proc = sockets[s].proc
             /\ sockets'[s].joined = sockets[s].joined
             /\ ~sockets'[s].up /\ wire'[s] = <<>>
  <2>1. /\ sockets'[s] = IF sockets[s].proc = p
                         THEN [sockets[s] EXCEPT !.up = FALSE, !.open = FALSE]
                         ELSE sockets[s]
        /\ wire'[s] = IF sockets[s].proc = p THEN <<>> ELSE wire[s]
    BY DEF Crash
  <2>2. sockets[s] \in [proc : Procs \cup {None}, up : BOOLEAN, open : BOOLEAN,
                        joined : BOOLEAN]
    BY DEF SocketType
  <2>3. CASE sockets[s].proc = p
    BY <2>1, <2>2, <2>3
  <2>4. CASE sockets[s].proc # p
    <3>1. sockets[s].proc \notin Procs
      BY <1>2, <2>4
    <3>2. ~sockets[s].up /\ wire[s] = <<>>
      BY <3>1 DEF Typed, TypedWire
    <3> QED
      BY <2>1, <2>4, <3>2
  <2> QED
    BY <2>3, <2>4
<1>4. Serving' /\ Loading'
  BY <1>2 DEF Serving, Loading
<1>5. Core'
  <2>1. Calm
    BY <1>1, <1>2, SameHeap
    DEF Calm, RoomsKeep, ClientsKeep, Saved, NoNewWork, Continues
  <2> QED
    BY <1>4, <2>1, CalmCore
<1>6. Registered'
  BY <1>1, <1>2, <1>3, RegisteredFrame DEF Registered
<1>7. NoOrphans' /\ Reached'
  BY <1>2, <1>3 DEF NoOrphans, Reached
<1>8. Outboxes' /\ Joining'
  <2>1. \A s \in Sockets : 1..Len(wire'[s]) = {}
    <3>1. 1..Len(<<>>) = {}
      OBVIOUS
    <3> QED
      BY <1>3, <3>1
  <2>2. Outboxes'
    BY <1>1, <1>2, <2>1 DEF Outboxes
  <2>3. Joining'
    BY <1>2, <1>3, <2>1 DEF Joining
  <2> QED
    BY <2>2, <2>3
<1> QED
  BY <1>4, <1>5, <1>6, <1>7, <1>8 DEF Rest

\* What does not happen when the process is undisturbed.
LEMMA Disabled ==
    ASSUME Undisturbed, Inv
    PROVE  /\ \A p \in Procs : ~HandleRemoteOp(p) /\ ~TickIdle(p) /\ ~TickEvict(p)
           /\ \A t \in tasks : ~SubscribeFails(t)
<1>1. \A p \in Procs : ~HandleRemoteOp(p)
  BY DEF HandleRemoteOp, Inv, Serving
<1>2. \A p \in Procs : ~TickEvict(p)
  BY DEF TickEvict, Inv, Serving
<1>3. \A p \in Procs : ~TickIdle(p)
  <2>1. evictions \in Nat
    BY DEF Inv, Typed, TypedHistory
  <2>2. ~(evictions < 0)
    BY <2>1
  <2> QED
    BY <2>2 DEF TickIdle, Undisturbed
<1>4. \A t \in tasks : ~SubscribeFails(t)
  BY DEF SubscribeFails, Fails, Undisturbed
<1> QED
  BY <1>1, <1>2, <1>3, <1>4

-----------------------------------------------------------------------------
(* The theorems *)

\* The invariant holds at the start.
LEMMA InvInit == ASSUME Undisturbed, Init PROVE Inv
<1> USE DEF Init
<1>1. Typed
  BY TypedInit
<1>2. Serving /\ Loading
  BY DEF Serving, Loading
<1>3. latestSnapshots(store) = {[seq |-> 0, ops |-> {}]}
  BY DEF latestSnapshots, EmptyStore
<1>4. /\ store.latestSeq = None /\ store.rows = {} /\ store.snapshots = {}
      /\ \A c \in Clients : /\ client[c].view = {} /\ client[c].outbox = {}
                            /\ client[c].lastAckedSeq = 0 /\ client[c].ws = None
  BY DEF EmptyStore, NewClient
<1>5. \A op : ~Saved(op) /\ ~Live(op)
  BY <1>4 DEF Saved, Live
<1>6. Allocated /\ InOrder
  BY <1>4 DEF Allocated, InOrder
<1>7. Durable
  <2>1. \A s : Covers(s)
    BY <1>4, <1>5 DEF Covers
  <2> QED
    BY <1>3, <1>5, <2>1 DEF Durable
<1>8. RoomHasAll /\ Cursor /\ LogReaches
  BY <1>4, <1>5 DEF RoomHasAll, Cursor, LogReaches
<1>9. \A s \in Sockets : /\ sockets[s].proc = None /\ ~sockets[s].joined
                         /\ ~sockets[s].up /\ wire[s] = <<>>
  BY DEF NoSocket
<1>10. Registered
  <2>1. ASSUME NEW s \in Sockets PROVE ~(s[2] <= ConnsOf(clientOf(s)))
    <3>1. {q \in Sockets : clientOf(q) = clientOf(s) /\ sockets[q].proc # None} = {}
      BY <1>9
    <3>2. ConnsOf(clientOf(s)) = 0
      BY <3>1, FS_EmptySet DEF ConnsOf
    <3>3. PICK d \in Clients : s \in {d} \X (1..MaxConns[d])
      BY DEF Sockets
    <3>4. s[2] \in 1..MaxConns[d] /\ MaxConns[d] \in Nat
      BY <3>3, RoomManagerAssumption
    <3> QED
      BY <3>2, <3>4
  <2> QED
    BY <1>4, <1>9, <2>1 DEF Registered
<1>11. NoOrphans /\ Reached
  BY <1>9 DEF NoOrphans, Reached
<1>12. Outboxes /\ Joining
  <2>1. \A s \in Sockets : 1..Len(wire[s]) = {}
    <3>1. 1..Len(<<>>) = {}
      OBVIOUS
    <3> QED
      BY <1>9, <3>1
  <2> QED
    BY <1>4, <1>9, <2>1 DEF Outboxes, Joining
<1> QED
  BY <1>1, <1>2, <1>6, <1>7, <1>8, <1>10, <1>11, <1>12 DEF Inv, Core, Net

\* And every step keeps it.
LEMMA InvNext ==
    ASSUME Undisturbed, NothingBuffered, Inv, [Next]_vars PROVE Inv'
<1>1. Typed'
  BY TypedNext DEF Inv
<1>2. ASSUME NEW c \in Clients, ClientStep(c) PROVE Rest'
  BY <1>1, <1>2, ConnectStep, EditStep, ClientCloseStep DEF ClientStep
<1>3. ASSUME NEW s \in Sockets, Break(s) \/ ServerClose(s) \/ DispatchMessage(s)
      PROVE  Rest'
  BY <1>1, <1>3, BreakStep, ServerCloseStep, DispatchJoinStep, DispatchOpStep,
     TooEarlyStep DEF DispatchMessage
<1>4. ASSUME NEW t \in tasks, TaskStep(t) PROVE Rest'
  BY <1>1, <1>4, LoadStep, FailsStep, SubscribeStep, Disabled, ApplyStep,
     PublishStep, PersistStep, AckStep DEF TaskStep
<1>5. ASSUME NEW p \in Procs, HandleRemoteOp(p) \/ Tick(p) \/ Crash(p)
      PROVE  Rest'
  BY <1>1, <1>5, Disabled, TickSnapshotStep, TickWriteStep, CrashStep DEF Tick
<1>6. ASSUME UNCHANGED vars PROVE Rest'
  <2>1. /\ UNCHANGED <<store, lastSeq, heap, rooms, inbox, tasks, tick, acked,
                       client, sockets, wire>>
    BY <1>6 DEF vars, serverVars, clientVars, netVars
  <2>2. Serving' /\ Loading' /\ Core'
    BY <1>1, <2>1, SameHeap, ServerKeeps DEF ClientsKeep
  <2>3. Net'
    BY <2>1, SameHeap, TaskNet DEF SameMessage, Live
  <2> QED
    BY <2>2, <2>3 DEF Rest
<1>7. Rest'
  BY <1>2, <1>3, <1>4, <1>5, <1>6 DEF Next
<1> QED
  BY <1>1, <1>7 DEF Inv, Rest

\* The invariant holds for as long as no room has anything in pending.
THEOREM InvHolds ==
    ASSUME Undisturbed PROVE Spec /\ []NothingBuffered => []Inv
<1>1. Init => Inv
  BY InvInit
<1>2. NothingBuffered /\ Inv /\ [Next]_vars => Inv'
  BY InvNext
<1> QED
  BY <1>1, <1>2, PTL DEF Spec

\* What the invariant says of the tables.
LEMMA InvDurable == ASSUME Inv PROVE AckedDurable
<1> SUFFICES ASSUME NEW op \in acked PROVE op \in DurableOps(store)
  BY DEF AckedDurable
<1>1. op \in Ops /\ Saved(op)
  BY DEF Saved, Inv, Typed, TypedHistory
<1>2. store.latestSeq # None
  BY <1>1 DEF Inv, Core, Durable
<1>3. \A s \in latestSnapshots(store) : op \in s.ops \/ RowAfter(op, s.seq)
  BY <1>1 DEF Inv, Core, Durable, Cuts, Covers
<1> QED
  BY <1>1, <1>2, <1>3, DurableMeans DEF Inv

\* An acked operation is in the tables, whatever was appended, failed, crashed
\* or was replaced by a snapshot in the meantime.
THEOREM AckedStaysDurable ==
    ASSUME Undisturbed PROVE Spec /\ []NothingBuffered => []AckedDurable
<1>1. Inv => AckedDurable
  BY InvDurable
<1> QED
  BY <1>1, InvHolds, PTL

\* A client that joined and whose link is up is in the room that is served.
THEOREM NobodyOrphaned ==
    ASSUME Undisturbed PROVE Spec /\ []NothingBuffered => []NoOrphans
<1>1. Inv => NoOrphans
  BY DEF Inv, Net
<1> QED
  BY <1>1, InvHolds, PTL

\* What the invariant says of a client that is connected.
LEMMA InvShown == ASSUME Inv PROVE NothingMissed
<1> SUFFICES ASSUME NEW c \in Clients, Up(client[c].ws),
                    sockets[client[c].ws].joined, NEW op \in acked
             PROVE  op \in client[c].view
  BY DEF NothingMissed
<1> DEFINE s == client[c].ws
           p == sockets[s].proc
<1>1. s # None /\ s \in Sockets /\ sockets[s].up /\ clientOf(s) = c
  BY NetTypes DEF Up, Inv, Net, Registered
<1>2. p \in Procs /\ rooms[p] # None /\ heap[rooms[p]].sockets[c] = s
  BY <1>1, NetTypes DEF Inv, Net, Registered, NoOrphans
<1>3. op \in Ops /\ Live(op)
  BY DEF Live, Inv, Typed, TypedHistory
<1> HIDE DEF s, p
<1>4. Up(heap[rooms[p]].sockets[c])
  BY <1>1, <1>2 DEF Up
<1> QED
  BY <1>2, <1>3, <1>4 DEF Inv, Net, Reached

\* A client that is connected shows every acked operation, by whichever way it
\* came: join, broadcast or its own edit.
THEOREM NothingIsMissed ==
    ASSUME Undisturbed PROVE Spec /\ []NothingBuffered => []NothingMissed
<1>1. Inv => NothingMissed
  BY InvShown
<1> QED
  BY <1>1, InvHolds, PTL

\* What the invariant says of a client that joins.
LEMMA InvCatchUp ==
    ASSUME Undisturbed, NothingBuffered, Inv PROVE CatchUpCompletes
<1> SUFFICES ASSUME NEW c \in Clients, NEW p \in Procs, rooms[p] # None,
                    NEW op \in acked
             PROVE  LET room == heap[rooms[p]]
                        missed == getOpsSince(room, client[c].lastAckedSeq)
                    IN  op \in IF missed # None THEN client[c].view \cup missed
                               ELSE snapshot(room)
  BY DEF CatchUpCompletes
<1>1. op \in Ops /\ Live(op)
  BY DEF Live, Inv, Typed, TypedHistory
<1> QED
  BY <1>1, JoinCatchesUp

\* A join completes a client, whatever it missed and however its cursor got its
\* value: by a join or by an ack that overtook other batches.
THEOREM CatchUpIsComplete ==
    ASSUME Undisturbed PROVE Spec /\ []NothingBuffered => []CatchUpCompletes
<1>1. NothingBuffered /\ Inv => CatchUpCompletes
  BY InvCatchUp
<1> QED
  BY <1>1, InvHolds, PTL

=============================================================================
