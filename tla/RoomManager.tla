---------------------------- MODULE RoomManager ----------------------------
(***************************************************************************)
(* The sync protocol for one document: server processes (roomManager.ts,   *)
(* server.ts) that share the sequence counter and the pub/sub bus of Redis *)
(* and the tables of Postgres, and the clients connected to them.          *)
(*                                                                         *)
(* A handler of the server runs until it awaits; what it still has to do   *)
(* is a task, whose pc names the call it is waiting for.  Between any two  *)
(* awaits of one task every other task may run.                            *)
(*                                                                         *)
(* Abstractions.  An Rga is a set of operations (OpSets).  A message to a  *)
(* client is handled when it is sent, or lost if the link is down: a       *)
(* client learns nothing from the time in between.  Messages to the server *)
(* wait in order on their socket.  One edit is one operation; messages of  *)
(* several operations are flushes of the outbox.  Presence is left out.    *)
(***************************************************************************)
EXTENDS Room, DocumentClient, Sequences

CONSTANTS
    Procs,              \* server processes
    AuthorOf,           \* AuthorOf[op]: the client that may produce op
    SnapshotThreshold,  \* snapshotOpThreshold
    Faults,             \* the calls and parts that may fail
    SerialLoads,        \* TRUE: no two loads overlap in one process
    MaxConns,           \* bound: how many connections c makes, MaxConns[c]
    MaxDrops,           \* bound: how many of them may break, MaxDrops[c]
    MaxFaults,          \* bound: how many failures happen
    MaxEvictions,       \* bound: how many times a room is evicted
    MaxSeq              \* bound: how many seqs are allocated

ASSUME RoomManagerAssumption ==
    /\ AuthorOf \in [Ops -> Clients]
    /\ None \notin Procs
    /\ Faults \subseteq {"seq", "publish", "persist", "snapshot", "load",
                         "subscribe", "unsubscribe", "crash", "link"}
    /\ SerialLoads \in BOOLEAN
    /\ SnapshotThreshold \in Nat \ {0}
    /\ MaxConns \in [Clients -> Nat] /\ MaxDrops \in [Clients -> Nat]
    /\ MaxFaults \in Nat /\ MaxEvictions \in Nat /\ MaxSeq \in Nat

VARIABLES
    store,      \* the tables of Postgres
    lastSeq,    \* the counter of Redis: the last seq allocated
    heap,       \* every Room object ever created, in this order
    rooms,      \* rooms[p]: the place in heap of p's map entry, or None
    handlers,   \* handlers[p]: whether p listens to the document's channel
    inbox,      \* inbox[p]: published batches on their way to p
    tasks,      \* what the handlers that await have left to do
    tick,       \* tick[p]: what the running tick of p has left to do, or None
    sockets,    \* sockets[s]: connection s; s = <<client, number>>
    wire,       \* wire[s]: messages on their way to the server
    client,     \* client[c]: the state of the browser
    produced,   \* the operations produced so far (history)
    acked,      \* the operations their author holds an ack for (history)
    faults,     \* how many failures there were
    evictions   \* how many rooms were evicted

serverVars == <<heap, rooms, handlers, inbox, tasks, tick>>
clientVars == <<client, produced, acked>>
netVars == <<sockets, wire>>
boundVars == <<faults, evictions>>
vars == <<store, lastSeq, serverVars, clientVars, netVars, boundVars>>

Sockets == UNION {{c} \X (1..MaxConns[c]) : c \in Clients}
ASSUME SocketsAssumption == None \notin Sockets
clientOf(s) == s[1]
NoSocket == [proc |-> None, up |-> FALSE, open |-> FALSE, joined |-> FALSE]

\* A connection whose link is up carries messages both ways.
Up(s) == s # None /\ sockets[s].up

ConnsOf(c) == Cardinality({s \in Sockets : clientOf(s) = c
                                           /\ sockets[s].proc # None})
MayBreak(s) == sockets[s].up /\ s[2] <= MaxDrops[clientOf(s)]

Fails(kind) ==
    /\ kind \in Faults
    /\ faults < MaxFaults
    /\ faults' = faults + 1
    /\ UNCHANGED evictions

Works == UNCHANGED boundVars

-----------------------------------------------------------------------------
(* The tasks of the server *)

\* The calls of getOrCreateRoom, and those of applyClientOp after it.
LoadPcs == {"document", "snapshot", "operations", "subscribe"}
OpPcs == {"apply", "publish", "append", "ack"}

Task == [type : {"join", "op", "remote"}, proc : Procs,
         socket : Sockets \cup {None}, sinceSeq : Nat, ops : SUBSET Ops,
         pc : LoadPcs \cup OpPcs, room : Nat \cup {None}, seq : Nat,
         loaded : [latestSeq : Nat, snapshot : Batch(Nat)]]

NothingLoaded == [latestSeq |-> 0, snapshot |-> [seq |-> 0, ops |-> {}]]

newTask(type, p, s, sinceSeq, ops) ==
    [type |-> type, proc |-> p, socket |-> s, sinceSeq |-> sinceSeq,
     ops |-> ops, pc |-> "document", room |-> None, seq |-> 0,
     loaded |-> NothingLoaded]

Becomes(t, u) == tasks' = (tasks \ {t}) \cup {u}
Done(t) == tasks' = tasks \ {t}

\* broadcast: every client registered in the room whose link is up gets it.
broadcast(room, ops, except) ==
    client' = [c \in Clients |->
                 IF c # except /\ Up(room.sockets[c])
                 THEN onBroadcast(client[c], ops) ELSE client[c]]

(* Redis: the counter and the channel of the document *)

next == lastSeq' = lastSeq + 1

subscribe(p) == handlers' = [handlers EXCEPT ![p] = TRUE]

\* The handler is forgotten before Redis is asked.
unsubscribe(p) == handlers' = [handlers EXCEPT ![p] = FALSE]

\* The batch is on its way to every process that listens; from, which would
\* skip its own, does not get it here.
publish(from, batch) ==
    inbox' = [p \in Procs |-> IF p # from /\ handlers[p]
                              THEN Append(inbox[p], batch) ELSE inbox[p]]

-----------------------------------------------------------------------------
Init ==
    /\ store = EmptyStore
    /\ lastSeq = 0
    /\ heap = <<>>
    /\ rooms = [p \in Procs |-> None]
    /\ handlers = [p \in Procs |-> FALSE]
    /\ inbox = [p \in Procs |-> <<>>]
    /\ tasks = {}
    /\ tick = [p \in Procs |-> None]
    /\ sockets = [s \in Sockets |-> NoSocket]
    /\ wire = [s \in Sockets |-> <<>>]
    /\ client = [c \in Clients |-> NewClient]
    /\ produced = {}
    /\ acked = {}
    /\ faults = 0
    /\ evictions = 0

(* The clients and the network *)

\* connect, and the join its open handler sends.
Connect(c, p) ==
    LET s == <<c, ConnsOf(c) + 1>> IN
    /\ client[c].ws = None
    /\ ConnsOf(c) < MaxConns[c]
    /\ sockets' = [sockets EXCEPT ![s] = [proc |-> p, up |-> TRUE,
                                          open |-> TRUE, joined |-> FALSE]]
    /\ wire' = [wire EXCEPT ![s] =
                  <<[type |-> "join", sinceSeq |-> client[c].lastAckedSeq]>>]
    /\ client' = [client EXCEPT ![c].ws = s]
    /\ UNCHANGED <<store, lastSeq, serverVars, produced, acked, boundVars>>

\* applyLocalEdits: connected or not, the operation goes to the outbox.
ApplyLocalEdits(c, op) ==
    LET s == client[c].ws IN
    /\ op \notin produced
    /\ AuthorOf[op] = c
    /\ DependsOn[op] \in Integrated(client[c].view) \cup {None}
    /\ produced' = produced \cup {op}
    /\ client' = [client EXCEPT ![c] = edited(@, op)]
    /\ wire' = IF Up(s)
               THEN [wire EXCEPT ![s] = Append(@, [type |-> "op", ops |-> {op}])]
               ELSE wire
    /\ UNCHANGED <<store, lastSeq, serverVars, sockets, acked, boundVars>>

\* The link goes down: a drop, a simulated offline, a tab that is closed.  Each
\* side finds out on its own.  Where "link" is one of the Faults, it is also
\* counted as one.
Break(s) ==
    /\ MayBreak(s)
    /\ IF "link" \in Faults THEN Fails("link") ELSE Works
    /\ sockets' = [sockets EXCEPT ![s].up = FALSE]
    /\ UNCHANGED <<store, lastSeq, serverVars, clientVars, wire>>

\* The browser's close event.
ClientClose(c) ==
    /\ client[c].ws # None
    /\ ~Up(client[c].ws)
    /\ client' = [client EXCEPT ![c].ws = None]
    /\ UNCHANGED <<store, lastSeq, serverVars, produced, acked, netVars,
                   boundVars>>

\* leave works on the room that is in the map now, if there is one.
leave(s) ==
    LET i == rooms[sockets[s].proc] IN
    heap' = IF i = None THEN heap
            ELSE [heap EXCEPT ![i] = leaveRoom(@, clientOf(s), s)]

\* The server's close event.  A socket without a state, whose join is not done,
\* leaves nothing.
ServerClose(s) ==
    /\ sockets[s].open
    /\ ~sockets[s].up
    /\ sockets' = [sockets EXCEPT ![s].open = FALSE]
    /\ wire' = [wire EXCEPT ![s] = <<>>]
    /\ IF sockets[s].joined THEN leave(s) ELSE UNCHANGED heap
    /\ UNCHANGED <<store, lastSeq, rooms, handlers, inbox, tasks, tick,
                   clientVars, boundVars>>

(* join *)

\* RoomManager.join after getOrCreateRoom, and the reply of dispatchMessage:
\* the socket is registered, whether or not it is still open; one it replaces
\* is closed; the client gets what it misses and resends its outbox.
\* rest is what the socket has on its wire.
JoinRoom(s, i, sinceSeq, rest) ==
    LET c == clientOf(s)
        room == heap[i]
        previous == room.sockets[c]
        missed == getOpsSince(room, sinceSeq)
        caughtUp == IF missed # None
                    THEN onSync(client[c], room.seq, missed)
                    ELSE onSnapshot(client[c], room.seq, snapshot(room))
    IN  /\ heap' = [heap EXCEPT ![i] = joinRoom(@, c, s)]
        /\ sockets' = [t \in Sockets |->
             CASE t = s -> [sockets[t] EXCEPT !.joined = TRUE]
               [] t = previous /\ t # s -> [sockets[t] EXCEPT !.up = FALSE]
               [] OTHER -> sockets[t]]
        /\ IF Up(s)
           THEN /\ client' = [client EXCEPT ![c] = caughtUp]
                /\ wire' = [wire EXCEPT ![s] = rest \o flushOutbox(caughtUp)]
           ELSE /\ client' = client
                /\ wire' = [wire EXCEPT ![s] = rest]

(* applyClientOp *)

\* seqAllocator.next.  The answers reach a process in the order in which it
\* asked, so that the call is one step with what precedes it.
AllocateSeq(t, i) ==
    \/ /\ Works
       /\ lastSeq < MaxSeq
       /\ next
       /\ Becomes(t, [t EXCEPT !.pc = "apply", !.room = i, !.seq = lastSeq + 1,
                               !.loaded = NothingLoaded])
    \/ /\ Fails("seq")
       /\ Done(t)
       /\ UNCHANGED lastSeq

(* dispatchMessage *)

MayLoad(p) ==
    SerialLoads => ~\E t \in tasks : t.proc = p /\ t.pc \in LoadPcs

DispatchJoin(s) ==
    LET p == sockets[s].proc
        sinceSeq == Head(wire[s]).sinceSeq
    IN  /\ wire[s] # <<>> /\ Head(wire[s]).type = "join"
        /\ IF rooms[p] # None
           THEN /\ JoinRoom(s, rooms[p], sinceSeq, Tail(wire[s]))
                /\ UNCHANGED tasks
           ELSE /\ MayLoad(p)
                /\ tasks' = tasks \cup {newTask("join", p, s, sinceSeq, {})}
                /\ wire' = [wire EXCEPT ![s] = Tail(@)]
                /\ UNCHANGED <<heap, sockets, client>>
        /\ UNCHANGED <<store, lastSeq, rooms, handlers, inbox, tick, produced,
                       acked, boundVars>>

\* Handlers that have the same to do count as one: an equal one waits.
DispatchOp(s) ==
    LET p == sockets[s].proc
        t == newTask("op", p, s, 0, Head(wire[s]).ops)
    IN  /\ wire[s] # <<>> /\ Head(wire[s]).type = "op"
        /\ sockets[s].joined
        /\ t \notin tasks
        /\ IF rooms[p] # None
           THEN AllocateSeq(t, rooms[p])
           ELSE /\ MayLoad(p)
                /\ Works
                /\ tasks' = tasks \cup {t}
                /\ UNCHANGED lastSeq
        /\ wire' = [wire EXCEPT ![s] = Tail(@)]
        /\ UNCHANGED <<store, heap, rooms, handlers, inbox, tick, clientVars,
                       sockets>>

\* An operation on a socket whose join is not done: NOT_JOINED.
DispatchTooEarly(s) ==
    /\ wire[s] # <<>> /\ Head(wire[s]).type = "op"
    /\ ~sockets[s].joined
    /\ wire' = [wire EXCEPT ![s] = Tail(@)]
    /\ UNCHANGED <<store, lastSeq, serverVars, clientVars, sockets, boundVars>>

DispatchMessage(s) ==
    \/ DispatchJoin(s)
    \/ DispatchOp(s)
    \/ DispatchTooEarly(s)

(* getOrCreateRoom *)

\* The loaded document becomes p's room, in place of any other.
CreateRoom(t, loaded, batches) ==
    /\ heap' = Append(heap, hydrate(loaded.snapshot, batches, loaded.latestSeq))
    /\ rooms' = [rooms EXCEPT ![t.proc] = Len(heap) + 1]
    /\ Becomes(t, [t EXCEPT !.pc = "subscribe", !.room = Len(heap) + 1,
                            !.loaded = NothingLoaded])

\* The three queries of load.
LoadDocument(t) ==
    /\ t.pc = "document"
    /\ IF store.latestSeq = None
       THEN CreateRoom(t, NothingLoaded, {})
       ELSE /\ Becomes(t, [t EXCEPT !.pc = "snapshot",
                                    !.loaded.latestSeq = store.latestSeq])
            /\ UNCHANGED <<heap, rooms>>
    /\ UNCHANGED <<store, lastSeq, handlers, inbox, tick, clientVars, netVars,
                   boundVars>>

LoadSnapshot(t) ==
    /\ t.pc = "snapshot"
    /\ \E found \in latestSnapshots(store) :
         Becomes(t, [t EXCEPT !.pc = "operations", !.loaded.snapshot = found])
    /\ UNCHANGED <<store, lastSeq, heap, rooms, handlers, inbox, tick,
                   clientVars, netVars, boundVars>>

LoadOperations(t) ==
    /\ t.pc = "operations"
    /\ CreateRoom(t, t.loaded, batchesAfter(store, t.loaded.snapshot.seq))
    /\ UNCHANGED <<store, lastSeq, handlers, inbox, tick, clientVars, netVars,
                   boundVars>>

LoadFails(t) ==
    /\ t.pc \in {"document", "snapshot", "operations"}
    /\ Fails("load")
    /\ Done(t)
    /\ UNCHANGED <<store, lastSeq, heap, rooms, handlers, inbox, tick,
                   clientVars, netVars>>

\* The subscription is made, and the caller of getOrCreateRoom goes on.
Subscribe(t) ==
    /\ t.pc = "subscribe"
    /\ subscribe(t.proc)
    /\ \/ /\ t.type = "join"
          /\ JoinRoom(t.socket, t.room, t.sinceSeq, wire[t.socket])
          /\ Done(t)
          /\ Works
          /\ UNCHANGED lastSeq
       \/ /\ t.type = "op"
          /\ AllocateSeq(t, t.room)
          /\ UNCHANGED <<heap, sockets, wire, client>>
    /\ UNCHANGED <<store, rooms, inbox, tick, produced, acked>>

\* The catch deletes what the map holds by then.
SubscribeFails(t) ==
    /\ t.pc = "subscribe"
    /\ Fails("subscribe")
    /\ rooms' = [rooms EXCEPT ![t.proc] = None]
    /\ Done(t)
    /\ UNCHANGED <<store, lastSeq, heap, handlers, inbox, tick, clientVars,
                   netVars>>

(* applyClientOp, after the seq was allocated *)

\* Mutant: they resume in any order.
AnyTurn(t) == t \in tasks

\* Tasks of one process resume in the order of their seqs.
InTurn(t) ==
    ~\E u \in tasks : u.proc = t.proc /\ u.pc = "apply" /\ u.seq < t.seq

ApplyAndBroadcast(t) ==
    /\ t.pc = "apply"
    /\ InTurn(t)
    /\ heap' = [heap EXCEPT ![t.room] = applyOps(@, t.ops, t.seq)]
    /\ broadcast(heap[t.room], t.ops, clientOf(t.socket))
    /\ Becomes(t, [t EXCEPT !.pc = "publish"])
    /\ UNCHANGED <<store, lastSeq, rooms, handlers, inbox, tick, produced,
                   acked, netVars, boundVars>>

\* Nobody gets the batch when the call fails.
Publish(t) ==
    /\ t.pc = "publish"
    /\ Becomes(t, [t EXCEPT !.pc = "append"])
    /\ \/ /\ Works
          /\ publish(t.proc, [seq |-> t.seq, ops |-> t.ops])
       \/ /\ Fails("publish")
          /\ UNCHANGED inbox
    /\ UNCHANGED <<store, lastSeq, heap, rooms, handlers, tick, clientVars,
                   netVars>>

\* appendOps commits.  Only the task of a client has an ack to send.
Persist(t) ==
    /\ t.pc = "append"
    /\ Works
    /\ store' = appendOps(store, t.seq, t.ops)
    /\ IF t.type = "op" THEN Becomes(t, [t EXCEPT !.pc = "ack"]) ELSE Done(t)
    /\ UNCHANGED <<lastSeq, heap, rooms, handlers, inbox, tick, clientVars,
                   netVars>>

\* Mutant: the failure is swallowed and the ack is sent.
PersistFailsUnnoticed(t) ==
    /\ t.pc = "append"
    /\ Fails("persist")
    /\ IF t.type = "op" THEN Becomes(t, [t EXCEPT !.pc = "ack"]) ELSE Done(t)
    /\ UNCHANGED <<store, lastSeq, heap, rooms, handlers, inbox, tick,
                   clientVars, netVars>>

\* PERSIST_FAILED: the client keeps the operations in its outbox.
PersistFails(t) ==
    /\ t.pc = "append"
    /\ Fails("persist")
    /\ Done(t)
    /\ UNCHANGED <<store, lastSeq, heap, rooms, handlers, inbox, tick,
                   clientVars, netVars>>

\* sendTo: the ack goes to the socket the client has by then, if any.
Ack(t) ==
    LET c == clientOf(t.socket) IN
    /\ t.pc = "ack"
    /\ IF Up(heap[t.room].sockets[c])
       THEN /\ client' = [client EXCEPT ![c] = onAck(@, t.seq, KeysOf(t.ops))]
            /\ acked' = acked \cup t.ops
       ELSE UNCHANGED <<client, acked>>
    /\ Done(t)
    /\ UNCHANGED <<store, lastSeq, heap, rooms, handlers, inbox, tick,
                   produced, netVars, boundVars>>

\* handleRemoteOp: without a room the batch is nobody's concern here.
HandleRemoteOp(p) ==
    LET batch == Head(inbox[p])
        i == rooms[p]
        t == [newTask("remote", p, None, 0, batch.ops) EXCEPT
                !.pc = "append", !.seq = batch.seq]
    IN  /\ inbox[p] # <<>>
        /\ inbox' = [inbox EXCEPT ![p] = Tail(@)]
        /\ IF handlers[p] /\ i # None
           THEN /\ heap' = [heap EXCEPT ![i] = applyOps(@, batch.ops, batch.seq)]
                /\ broadcast(heap[i], batch.ops, None)
                /\ tasks' = tasks \cup {t}
           ELSE UNCHANGED <<heap, client, tasks>>
        /\ UNCHANGED <<store, lastSeq, rooms, handlers, tick, produced, acked,
                       netVars, boundVars>>

(* tick.  Bound: the ticks of one process do not overlap. *)

SnapshotDue(p) ==
    rooms[p] # None /\ heap[rooms[p]].opsSinceSnapshot >= SnapshotThreshold

\* snapshotRoom up to its await: the state and its seq are taken together.
TickSnapshot(p) ==
    LET room == heap[rooms[p]] IN
    /\ tick[p] = None
    /\ SnapshotDue(p)
    /\ tick' = [tick EXCEPT ![p] =
         [pc |-> "write", room |-> rooms[p], atSeq |-> room.seq,
          state |-> snapshot(room)]]
    /\ UNCHANGED <<store, lastSeq, heap, rooms, handlers, inbox, tasks,
                   clientVars, netVars, boundVars>>

\* writeSnapshot commits, and the room's log is trimmed.  When it fails the
\* tick is over.
TickWrite(p) ==
    LET w == tick[p] IN
    /\ w # None /\ w.pc = "write"
    /\ \/ /\ Works
          /\ store' = writeSnapshot(store, w.atSeq, w.state)
          /\ heap' = [heap EXCEPT ![w.room] = advanceCoverageFloor(@, w.atSeq)]
       \/ /\ Fails("snapshot")
          /\ UNCHANGED <<store, heap>>
    /\ tick' = [tick EXCEPT ![p] = None]
    /\ UNCHANGED <<lastSeq, rooms, handlers, inbox, tasks, clientVars, netVars>>

\* The idle timeout of an empty room has passed.  It is five minutes: no call
\* that the room's clients caused is still waiting.  The first thing
\* unsubscribe does is to forget the handler; if the call fails, the tick is
\* over and the room stays.
TickIdle(p) ==
    /\ tick[p] = None
    /\ rooms[p] # None
    /\ ~SnapshotDue(p)
    /\ isEmpty(heap[rooms[p]])
    /\ ~\E t \in tasks : t.proc = p
    /\ evictions < MaxEvictions
    /\ unsubscribe(p)
    /\ \/ /\ evictions' = evictions + 1
          /\ tick' = [tick EXCEPT ![p] = [pc |-> "evict"]]
          /\ UNCHANGED faults
       \/ /\ Fails("unsubscribe")
          /\ UNCHANGED tick
    /\ UNCHANGED <<store, lastSeq, heap, rooms, inbox, tasks, clientVars,
                   netVars>>

\* After the unsubscribes the entry goes, whatever happened in the meantime.
TickEvict(p) ==
    /\ tick[p] # None /\ tick[p].pc = "evict"
    /\ rooms' = [rooms EXCEPT ![p] = None]
    /\ tick' = [tick EXCEPT ![p] = None]
    /\ UNCHANGED <<store, lastSeq, heap, handlers, inbox, tasks, clientVars,
                   netVars, boundVars>>

\* The process dies with its memory and its connections, and is restarted.
Crash(p) ==
    /\ Fails("crash")
    /\ rooms' = [rooms EXCEPT ![p] = None]
    /\ handlers' = [handlers EXCEPT ![p] = FALSE]
    /\ inbox' = [inbox EXCEPT ![p] = <<>>]
    /\ tick' = [tick EXCEPT ![p] = None]
    /\ tasks' = {t \in tasks : t.proc # p}
    /\ sockets' = [s \in Sockets |->
                     IF sockets[s].proc = p
                     THEN [sockets[s] EXCEPT !.up = FALSE, !.open = FALSE]
                     ELSE sockets[s]]
    /\ wire' = [s \in Sockets |->
                  IF sockets[s].proc = p THEN <<>> ELSE wire[s]]
    /\ UNCHANGED <<store, lastSeq, heap, clientVars>>

-----------------------------------------------------------------------------
ClientStep(c) ==
    \/ \E p \in Procs : Connect(c, p)
    \/ \E op \in Ops : ApplyLocalEdits(c, op)
    \/ ClientClose(c)

TaskStep(t) ==
    \/ LoadDocument(t)
    \/ LoadSnapshot(t)
    \/ LoadOperations(t)
    \/ LoadFails(t)
    \/ Subscribe(t)
    \/ SubscribeFails(t)
    \/ ApplyAndBroadcast(t)
    \/ Publish(t)
    \/ Persist(t)
    \/ PersistFails(t)
    \/ Ack(t)

Tick(p) ==
    \/ TickSnapshot(p)
    \/ TickWrite(p)
    \/ TickIdle(p)
    \/ TickEvict(p)

Next ==
    \/ \E c \in Clients : ClientStep(c)
    \/ \E s \in Sockets : Break(s) \/ ServerClose(s) \/ DispatchMessage(s)
    \/ \E t \in tasks : TaskStep(t)
    \/ \E p \in Procs : HandleRemoteOp(p) \/ Tick(p) \/ Crash(p)

Spec == Init /\ [][Next]_vars

\* What the server has begun it finishes; both sides of a broken link find
\* out; a client that is closed reconnects.
Fairness ==
    /\ WF_vars(\E t \in tasks : TaskStep(t))
    /\ \A p \in Procs : WF_vars(HandleRemoteOp(p))
    /\ \A s \in Sockets : WF_vars(ServerClose(s)) /\ WF_vars(DispatchMessage(s))
    /\ \A c \in Clients : /\ WF_vars(ClientClose(c))
                           /\ WF_vars(\E p \in Procs : Connect(c, p))

FairSpec == Spec /\ Fairness

-----------------------------------------------------------------------------
(* Properties *)

RoomType ==
    [ops : SUBSET Ops, seq : Nat, opsSinceSnapshot : Nat,
     opLog : SUBSET Batch(Nat), coverageFloor : Nat,
     sockets : [Clients -> Sockets \cup {None}]]

TypeOK ==
    /\ store \in StoreType(Nat)
    /\ lastSeq \in Nat
    /\ heap \in Seq(RoomType)
    /\ rooms \in [Procs -> DOMAIN heap \cup {None}]
    /\ handlers \in [Procs -> BOOLEAN]
    /\ inbox \in [Procs -> Seq(Batch(Nat))]
    /\ tasks \subseteq Task
    /\ tick \in [Procs -> [pc : {"evict"}] \cup {None} \cup
                  [pc : {"write"}, room : DOMAIN heap, atSeq : Nat,
                   state : SUBSET Ops]]
    /\ sockets \in [Sockets -> [proc : Procs \cup {None}, up : BOOLEAN,
                                open : BOOLEAN, joined : BOOLEAN]]
    /\ wire \in [Sockets -> Seq([type : {"join"}, sinceSeq : Nat] \cup
                                [type : {"op"}, ops : SUBSET Ops])]
    /\ client \in [Clients -> [view : SUBSET Ops, outbox : SUBSET Ops,
                               lastAckedSeq : Nat,
                               ws : Sockets \cup {None}]]
    /\ produced \subseteq Ops /\ acked \subseteq Ops
    /\ faults \in Nat /\ evictions \in Nat

\* An operation whose ack its author has is in Postgres, in the latest snapshot
\* or in a row after it, and stays there: the author will not send it again.
AckedDurable == acked \subseteq DurableOps(store)

\* Nothing is on its way and nobody has anything left to do.
Quiet ==
    /\ tasks = {}
    /\ \A s \in Sockets : sockets[s].open => sockets[s].up /\ wire[s] = <<>>
    /\ \A p \in Procs : inbox[p] = <<>> /\ tick[p] = None

\* A client that is connected and caught up shows every operation that any
\* client holds an ack for, by whichever way it came: sync, snapshot, broadcast
\* or fan-out.
NothingMissed ==
    Quiet => \A c \in Clients :
        Up(client[c].ws) /\ sockets[client[c].ws].joined
            => acked \subseteq client[c].view

\* Whatever a client missed while it was away, a join completes it: with the
\* operations after its lastAckedSeq, or with the snapshot of the room, it has
\* every operation that is acked.
CatchUpCompletes ==
    \A c \in Clients, p \in Procs : rooms[p] # None =>
        LET room == heap[rooms[p]]
            missed == getOpsSince(room, client[c].lastAckedSeq)
        IN  acked \subseteq IF missed # None THEN client[c].view \cup missed
                           ELSE snapshot(room)

\* A client that joined and whose link is up is reached by the broadcasts and
\* acks of the room that its process serves.
NoOrphans ==
    \A s \in Sockets :
        sockets[s].joined /\ sockets[s].up =>
            LET i == rooms[sockets[s].proc] IN
            i # None /\ heap[i].sockets[clientOf(s)] = s

\* The operations an author still has to get acked are in its outbox, which the
\* next join resends: none is forgotten on the way.
OutboxKeepsUnacked ==
    \A op \in produced : op \in acked \/ op \in client[AuthorOf[op]].outbox

\* The seq of a room, which joining clients adopt as their cursor, never falls.
RoomSeqGrows ==
    [][\A i \in DOMAIN heap : heap'[i].seq >= heap[i].seq]_vars

Service == INSTANCE SyncService
             WITH durable <- DurableOps(store),
                  shown <- [c \in Clients |-> client[c].view]

\* The processes, their rooms, the tables and the clients together are the
\* service of SyncService: an ack is sent for what is saved, what is acked stays
\* saved when snapshots replace rows, and a client that is caught up, even from a
\* snapshot, keeps every acked operation it has shown.
ImplementsService == Service!Spec

\* Every edit is acked in the end, whatever breaks on the way.
EventuallyAcked == \A op \in Ops : op \in produced ~> op \in acked
=============================================================================
