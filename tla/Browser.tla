------------------------------ MODULE Browser ------------------------------
(***************************************************************************)
(* One browser and one document: the DocumentClient instances that a page  *)
(* creates one after the other (documentClient.ts, useDocument.ts), their  *)
(* WebSockets, and the IndexedDB stores that outlive the page (db.ts).     *)
(* The server is what RoomManager.tla shows it to be: it saves what it     *)
(* receives once, in order, and acks it.                                   *)
(*                                                                         *)
(* An Rga is the set of inserts applied to it; as apply does, it ignores   *)
(* one whose id it has.  IndexedDB serves the requests to one object store *)
(* in the order they were made, and different stores independently.  A     *)
(* socket's slot is used again once both sides have closed it.  A message   *)
(* to the client is handled when it is sent, or lost if the link is down:  *)
(* the client learns nothing from the time in between.                     *)
(***************************************************************************)
EXTENDS Integers, FiniteSets, SequencesExt

CONSTANTS
    None,
    MaxOpsPerMessage,   \* the schema's limit on one op message
    QuickReturn,        \* TRUE: the user may be back online before the socket
                        \* of before has closed, or before init has resolved
    MaxInstances,       \* bound: instances created, by remounts and reloads
    MaxSockets,         \* bound: sockets at any one time
    Budgets             \* bounds: how often each may happen in one behaviour

Budget == [mounts : 0..MaxInstances, unmounts : Nat, edits : Nat,
           remoteEdits : Nat, breaks : Nat, toggles : Nat]

ASSUME BrowserAssumption ==
    /\ QuickReturn \in BOOLEAN
    /\ MaxOpsPerMessage \in Nat \ {0} /\ MaxInstances \in Nat \ {0}
    /\ MaxSockets \in Nat \ {0}
    /\ Budgets \subseteq Budget
    /\ None \notin (1..MaxInstances) \cup (1..MaxSockets)
    /\ None \notin {"record", "temp", "elsewhere"} \X (0..MaxInstances)

Instances == 1..MaxInstances
Sockets == 1..MaxSockets

\* The id that instance i draws for the replica record, the one of the Rga it
\* has before init resolves, and the one of the author elsewhere.
RecordIds == {"record"} \X Instances
TempIds == {"temp"} \X Instances
Elsewhere == <<"elsewhere", 0>>
ReplicaIds == RecordIds \cup TempIds \cup {Elsewhere}
Marks == {}

INSTANCE Protocol

VARIABLES
    db,         \* the object stores: replica, document, outbox
    requests,   \* requests[store]: calls that are not served yet, in order
    inst,       \* inst[i]: the i-th DocumentClient
    socks,      \* socks[s]: both ends of a WebSocket
    registered, \* registered[r]: the room's socket for replica r, or None
    log,        \* the operations the server has saved, in order
    made,       \* the operations made here (history)
    stored,     \* those whose outbox record was committed (history)
    blind,      \* those made when writes had been lost and no join had
                \* caught up yet (history)
    torn,       \* a page was closed with requests not served (history)
    left        \* what is left of the budget

histVars == <<made, stored, blind, torn>>
vars == <<db, requests, inst, socks, registered, log, histVars, left>>

-----------------------------------------------------------------------------
Spend(what) ==
    /\ left[what] > 0
    /\ left' = [left EXCEPT ![what] = @ - 1]

(* The Rga and the server's log *)

Saved == {log[k] : k \in DOMAIN log}
Ids(ops) == {op.id : op \in ops}

applyAll(view, ops) == view \cup {op \in ops : op.id \notin Ids(view)}

\* nextId: one more than every counter seen.
nextCounter(view) ==
    1 + (CHOOSE n \in {0} \cup {op.id.counter : op \in view} :
           \A op \in view : op.id.counter <= n)

(* Sockets *)

FreeSocket == [owner |-> None, state |-> "free", server |-> "none",
               joined |-> None, toServer |-> <<>>]

Free == {s \in Sockets : socks[s] = FreeSocket}

\* send: nothing happens unless the current socket is open.
send(sk, me, message) ==
    IF me.ws # None /\ sk[me.ws].state = "open"
    THEN [sk EXCEPT ![me.ws].toServer = Append(@, message)]
    ELSE sk

\* close(), by either side or by the network: no message is delivered after it,
\* and the close event follows.
close(sk, s) ==
    IF s # None /\ sk[s].state \in {"connecting", "open"}
    THEN [sk EXCEPT ![s].state = "closing"]
    ELSE sk

-----------------------------------------------------------------------------
NothingRead == [replica |-> None, document |-> None, outbox |-> None]

\* The constructor: there is no replica id until init resolves.
NewInstance ==
    [phase |-> "init", read |-> NothingRead, replicaId |-> None,
     view |-> {}, outbox |-> {}, lastAckedSeq |-> 0, synced |-> FALSE,
     ws |-> None, connectionState |-> "connecting", heartbeat |-> FALSE,
     timer |-> FALSE, offline |-> FALSE, closedByUser |-> FALSE]

\* An instance that the page has not created yet, or that went with the page.
NoInstance == [phase |-> "none"]

Alive(i) == inst[i].phase # "none"
Current(i) == Alive(i) /\ ~inst[i].closedByUser

NoRequests == [documents |-> <<>>, outbox |-> <<>>, replica |-> <<>>]

Init ==
    /\ db = [replica |-> None, outbox |-> {},
             document |-> [lastAckedSeq |-> 0, state |-> {}]]
    /\ requests = NoRequests
    /\ inst = [i \in Instances |-> NoInstance]
    /\ socks = [s \in Sockets |-> FreeSocket]
    /\ registered = [r \in RecordIds |-> None]
    /\ log = <<>>
    /\ made = {} /\ stored = {} /\ blind = {} /\ torn = FALSE
    /\ left \in Budgets

-----------------------------------------------------------------------------
(* The page *)

\* useDocument's effect creates an instance once the one before it is disposed
\* or gone with its page.  init asks for the three records.  Timing assumption:
\* what a page has sent reaches the server before the next page has loaded.
Mount ==
    LET i == MaxInstances - left.mounts + 1
        get == [call |-> "get", by |-> i]
    IN  /\ Spend("mounts")
        /\ ~\E j \in Instances : Current(j)
        /\ \/ \E j \in Instances : Alive(j)
           \/ \A s \in Sockets : socks[s].toServer = <<>>
        /\ inst' = [inst EXCEPT ![i] = NewInstance]
        /\ requests' = [store \in DOMAIN requests |->
                          Append(requests[store], get)]
        /\ UNCHANGED <<db, socks, registered, log, histVars>>

\* Mutant: the socket is left to the garbage collector.
DisposeQuietly(i) ==
    /\ Current(i)
    /\ Spend("unmounts")
    /\ inst' = [inst EXCEPT ![i].closedByUser = TRUE, ![i].timer = FALSE,
                            ![i].heartbeat = FALSE]
    /\ UNCHANGED <<db, requests, socks, registered, log, histVars>>

\* dispose, by the effect's cleanup.
Dispose(i) ==
    /\ Current(i)
    /\ Spend("unmounts")
    /\ inst' = [inst EXCEPT ![i].closedByUser = TRUE, ![i].timer = FALSE,
                            ![i].heartbeat = FALSE]
    /\ socks' = close(socks, inst[i].ws)
    /\ UNCHANGED <<db, requests, registered, log, histVars>>

\* The page is closed or reloaded: what it held in memory and what IndexedDB
\* has not served is lost.  What is on the wire still reaches the server.
ClosePage ==
    /\ \E i \in Instances : Alive(i)
    /\ inst' = [i \in Instances |-> NoInstance]
    /\ requests' = NoRequests
    /\ torn' = (torn \/ requests # NoRequests)
    /\ socks' = [s \in Sockets |->
                   IF socks[s].server = "none" THEN FreeSocket
                   ELSE [socks[s] EXCEPT !.owner = None, !.state = "free"]]
    /\ UNCHANGED <<db, registered, log, made, stored, blind, left>>

-----------------------------------------------------------------------------
(* IndexedDB *)

\* loadDocumentRecord and saveDocumentRecord
ServeDocuments ==
    LET r == Head(requests.documents) IN
    /\ requests.documents # <<>>
    /\ requests' = [requests EXCEPT !.documents = Tail(@)]
    /\ \/ /\ r.call = "get"
          /\ inst' = [inst EXCEPT ![r.by].read.document = db.document]
          /\ UNCHANGED db
       \/ /\ r.call = "put"
          /\ db' = [db EXCEPT !.document = r.record]
          /\ UNCHANGED inst
    /\ UNCHANGED <<socks, registered, log, histVars, left>>

\* listOutbox, addToOutbox and removeFromOutbox
ServeOutbox ==
    LET r == Head(requests.outbox) IN
    /\ requests.outbox # <<>>
    /\ requests' = [requests EXCEPT !.outbox = Tail(@)]
    /\ \/ /\ r.call = "get"
          /\ inst' = [inst EXCEPT ![r.by].read.outbox = db.outbox]
          /\ UNCHANGED <<db, stored>>
       \/ /\ r.call = "put"
          /\ db' = [db EXCEPT !.outbox =
                      {op \in @ : op.id # r.op.id} \cup {r.op}]
          /\ stored' = stored \cup {r.op}
          /\ UNCHANGED inst
       \/ /\ r.call = "delete"
          /\ db' = [db EXCEPT !.outbox = {op \in @ : op.id # r.key}]
          /\ UNCHANGED <<inst, stored>>
    /\ UNCHANGED <<socks, registered, log, made, blind, torn, left>>

\* getOrCreateReplica: a get, and a put if there was nothing, which may come
\* after the get of another instance.
ServeReplica ==
    LET r == Head(requests.replica)
        created == <<"record", r.by>>
    IN  /\ requests.replica # <<>>
        /\ \/ /\ r.call = "get" /\ db.replica # None
              /\ inst' = [inst EXCEPT ![r.by].read.replica = db.replica]
              /\ requests' = [requests EXCEPT !.replica = Tail(@)]
              /\ UNCHANGED db
           \/ /\ r.call = "get" /\ db.replica = None
              /\ requests' = [requests EXCEPT !.replica =
                                Append(Tail(@), [call |-> "put", by |-> r.by])]
              /\ UNCHANGED <<db, inst>>
           \/ /\ r.call = "put"
              /\ db' = [db EXCEPT !.replica = created]
              /\ inst' = [inst EXCEPT ![r.by].read.replica = created]
              /\ requests' = [requests EXCEPT !.replica = Tail(@)]
        /\ UNCHANGED <<socks, registered, log, histVars, left>>

-----------------------------------------------------------------------------
(* The connection *)

\* connect, for the instance that me is to be.
connect(i, me) ==
    IF me.closedByUser \/ me.offline
    THEN inst' = [inst EXCEPT ![i] = me] /\ UNCHANGED socks
    ELSE /\ Free # {}
         /\ LET s == CHOOSE f \in Free : \A g \in Free : f <= g IN
            /\ socks' = [socks EXCEPT ![s].owner = i, ![s].state = "connecting"]
            /\ inst' = [inst EXCEPT ![i] =
                          [me EXCEPT !.ws = s, !.connectionState = "connecting"]]

\* Mutants: the outbox is not applied again; the snapshot is not used.
restoredBare(me) ==
    LET r == me.read IN
    [me EXCEPT !.phase = "ready", !.read = NothingRead, !.replicaId = r.replica,
               !.view = r.document.state, !.outbox = @ \cup r.outbox,
               !.lastAckedSeq = r.document.lastAckedSeq]
restoredAnew(me) ==
    LET r == me.read IN
    [me EXCEPT !.phase = "ready", !.read = NothingRead, !.replicaId = r.replica,
               !.view = r.outbox, !.outbox = @ \cup r.outbox,
               !.lastAckedSeq = r.document.lastAckedSeq]

\* The rest of init: the record's state with the outbox on top.  An edit made
\* in the meantime stays in the outbox, but the Rga that had it is dropped.
restored(me) ==
    LET r == me.read IN
    [me EXCEPT !.phase = "ready", !.read = NothingRead, !.replicaId = r.replica,
               !.view = applyAll(r.document.state, r.outbox),
               !.outbox = @ \cup r.outbox,
               !.lastAckedSeq = r.document.lastAckedSeq]

FinishInit(i) ==
    /\ inst[i].phase = "init"
    /\ \A store \in DOMAIN inst[i].read : inst[i].read[store] # None
    /\ connect(i, restored(inst[i]))
    /\ UNCHANGED <<db, requests, registered, log, histVars, left>>

\* The open event: the join goes to the current socket, if that one is open.
Open(s) ==
    LET i == socks[s].owner
        opened == [socks EXCEPT ![s].state = "open", ![s].server = "open"]
        join == [type |-> "join", replicaId |-> inst[i].replicaId,
                 sinceSeq |-> inst[i].lastAckedSeq]
    IN  /\ socks[s].state = "connecting"
        /\ socks' = send(opened, inst[i], join)
        /\ inst' = [inst EXCEPT ![i].connectionState = "open",
                                ![i].heartbeat = TRUE]
        /\ UNCHANGED <<db, requests, registered, log, histVars, left>>

\* A connection fails or breaks; of what the client has sent a part arrives.
Break(s) ==
    /\ socks[s].state \in {"connecting", "open"}
    /\ Spend("breaks")
    /\ \E k \in 0..Len(socks[s].toServer) :
         socks' = [close(socks, s) EXCEPT ![s].toServer = SubSeq(@, 1, k)]
    /\ UNCHANGED <<db, requests, inst, registered, log, histVars>>

\* The close event, of whichever socket: scheduleReconnect unless the user
\* wants no connection.  A closed socket is as good as none.
CloseEvent(s) ==
    LET i == socks[s].owner IN
    /\ socks[s].state = "closing"
    /\ socks' = [socks EXCEPT ![s] =
                   IF @.server = "none" THEN FreeSocket
                   ELSE [@ EXCEPT !.owner = None, !.state = "free"]]
    /\ inst' = [inst EXCEPT
         ![i].connectionState = "closed", ![i].heartbeat = FALSE,
         ![i].ws = IF @ = s THEN None ELSE @,
         ![i].timer = @ \/ ~(inst[i].closedByUser \/ inst[i].offline)]
    /\ UNCHANGED <<db, requests, registered, log, histVars, left>>

\* The timer of scheduleReconnect fires.
Reconnect(i) ==
    /\ Alive(i) /\ inst[i].timer
    /\ connect(i, [inst[i] EXCEPT !.timer = FALSE])
    /\ UNCHANGED <<db, requests, registered, log, histVars, left>>

\* setSimulatedOffline(true)
GoOffline(i) ==
    /\ Current(i) /\ ~inst[i].offline
    /\ Spend("toggles")
    /\ socks' = close(socks, inst[i].ws)
    /\ inst' = [inst EXCEPT ![i].offline = TRUE, ![i].timer = FALSE,
                            ![i].heartbeat = FALSE, ![i].ws = None,
                            ![i].connectionState = "closed"]
    /\ UNCHANGED <<db, requests, registered, log, histVars>>

\* setSimulatedOffline(false)
GoOnline(i) ==
    /\ Current(i) /\ inst[i].offline
    /\ ~QuickReturn => /\ inst[i].phase = "ready"
                       /\ \A s \in Sockets : socks[s].owner # i
    /\ connect(i, [inst[i] EXCEPT !.offline = FALSE])
    /\ UNCHANGED <<db, requests, registered, log, histVars, left>>

-----------------------------------------------------------------------------
(* Editing and catching up *)

\* applyLocalEdits with one character.  Before init resolves, its id is that
\* of the temporary Rga, and there is no socket to send it to.
Edit(i) ==
    LET n == Cardinality(made) + 1
        me == inst[i]
        op == [type |-> "insert", value |-> n,
               id |-> [counter |-> nextCounter(me.view),
                       replicaId |-> IF me.phase = "init" THEN <<"temp", i>>
                                     ELSE me.replicaId]]
    IN  /\ Current(i)
        /\ Spend("edits")
        /\ inst' = [inst EXCEPT
             ![i].view = @ \cup {op},
             ![i].outbox = {o \in @ : o.id # op.id} \cup {op}]
        /\ requests' = [requests EXCEPT !.outbox =
                          Append(@, [call |-> "put", op |-> op])]
        /\ socks' = send(socks, me, [type |-> "op", ops |-> {op}])
        /\ made' = made \cup {op}
        /\ blind' = IF torn /\ ~me.synced THEN blind \cup {op} ELSE blind
        /\ UNCHANGED <<db, registered, log, stored, torn>>

\* handleServerMessage, what it makes of the instance's own state.
\* Mutant: the cursor is the seq of the first operation that is missed.
onSyncBefore(me, m) ==
    [me EXCEPT !.view = applyAll(@, m.ops), !.lastAckedSeq = m.seq - 1,
               !.synced = TRUE]

onSync(me, m) ==
    [me EXCEPT !.view = applyAll(@, m.ops), !.lastAckedSeq = m.seq,
               !.synced = TRUE]

\* Mutant: the rebuilt document is the server's alone.
onSnapshotBare(me, m) ==
    [me EXCEPT !.view = m.state, !.lastAckedSeq = m.seq, !.synced = TRUE]

onSnapshot(me, m) ==
    [me EXCEPT !.view = applyAll(m.state, me.outbox), !.lastAckedSeq = m.seq,
               !.synced = TRUE]

onBroadcastOp(me, m) == [me EXCEPT !.view = applyAll(@, m.ops)]

onAck(me, m) ==
    [me EXCEPT !.outbox = {op \in @ : op.id \notin m.opIds},
               !.lastAckedSeq = m.seq]

handleServerMessage(me, m) ==
    CASE ~parseServerMessage(m) -> me
      [] m.type = "sync" -> onSync(me, m)
      [] m.type = "snapshot" -> onSnapshot(me, m)
      [] m.type = "broadcast-op" -> onBroadcastOp(me, m)
      [] m.type = "ack" -> onAck(me, m)

\* Mutant: the outbox's records go when they are resent, before any ack.
persistResent(rq, m, me) ==
    LET removed == {[call |-> "delete", key |-> id] :
                      id \in IF m.type = "ack" THEN m.opIds ELSE Ids(me.outbox)}
        record == [lastAckedSeq |-> me.lastAckedSeq, state |-> me.view]
    IN  [rq EXCEPT
           !.outbox = @ \o SetToSeq(removed),
           !.documents = Append(@, [call |-> "put", record |-> record])]

\* What is asked of IndexedDB afterwards: the records of acked operations go,
\* and persistDocumentState takes the state as it is now.
persist(rq, m, me) ==
    LET removed == IF m.type # "ack" THEN {}
                   ELSE {[call |-> "delete", key |-> id] : id \in m.opIds}
        record == [lastAckedSeq |-> me.lastAckedSeq, state |-> me.view]
    IN  [rq EXCEPT
           !.outbox = @ \o SetToSeq(removed),
           !.documents = Append(@, [call |-> "put", record |-> record])]

flushOutbox(sk, me) ==
    IF me.outbox = {} THEN sk
    ELSE send(sk, me, [type |-> "op", ops |-> me.outbox])

Reaches(s) == s # None /\ socks[s].state = "open"

\* The message m reaches the instance behind s, if its link is up; in and sk
\* are the instances and sockets by then.
Deliver(sk, in, s, m) ==
    LET i == socks[s].owner
        me == handleServerMessage(in[i], m)
    IN  IF Reaches(s)
        THEN /\ inst' = [in EXCEPT ![i] = me]
             /\ requests' = persist(requests, m, me)
             /\ socks' = IF m.type = "ack" THEN sk ELSE flushOutbox(sk, me)
        ELSE /\ inst' = in
             /\ socks' = sk
             /\ UNCHANGED requests

-----------------------------------------------------------------------------
(* The server *)

\* dispatchMessage: what does not parse, an operation before the join and a
\* second join are refused, with an error that the client only shows.
Refuse(s, m, rest) ==
    /\ parseClientMessage(m) =>
         (m.type = "join" <=> socks[s].joined # None)
    /\ socks' = rest
    /\ UNCHANGED <<inst, requests, registered, log>>

\* A join replaces the replica's socket, which is closed with 4000.  The reply
\* is a sync, or a snapshot when the room's log does not reach back.
Join(s, m, rest) ==
    LET previous == registered[m.replicaId]
        joined == [rest EXCEPT ![s].joined = m.replicaId]
        replaced == IF previous = s THEN joined ELSE close(joined, previous)
        missed == {log[k] : k \in (m.sinceSeq + 1)..Len(log)}
    IN  /\ parseClientMessage(m) /\ m.type = "join"
        /\ socks[s].joined = None
        /\ registered' = [registered EXCEPT ![m.replicaId] = s]
        /\ \/ Deliver(replaced, inst, s,
                [type |-> "sync", seq |-> Len(log), ops |-> missed])
           \/ /\ m.sinceSeq < Len(log)
              /\ Deliver(replaced, inst, s,
                   [type |-> "snapshot", seq |-> Len(log), state |-> Saved])
        /\ UNCHANGED log

\* The instances whose replica is not the sender get the operations.
broadcast(ops, sender) ==
    [i \in Instances |->
       IF \E r \in RecordIds \ {sender} :
            Reaches(registered[r]) /\ socks[registered[r]].owner = i
       THEN handleServerMessage(inst[i],
              [type |-> "broadcast-op", seq |-> Len(log'), ops |-> ops])
       ELSE inst[i]]

\* The operations whose id is new are saved; all of them are acked.
ApplyClientOp(s, m, rest) ==
    LET r == socks[s].joined
        fresh == {op \in m.ops : op.id \notin Ids(Saved)}
    IN  /\ parseClientMessage(m) /\ m.type = "op"
        /\ r # None
        /\ log' = log \o SetToSeq(fresh)
        /\ Deliver(rest, broadcast(m.ops, r), registered[r],
             [type |-> "ack", seq |-> Len(log'), opIds |-> Ids(m.ops)])
        /\ UNCHANGED registered

DispatchMessage(s) ==
    LET m == Head(socks[s].toServer)
        rest == [socks EXCEPT ![s].toServer = Tail(@)]
    IN  /\ socks[s].server = "open"
        /\ socks[s].toServer # <<>>
        /\ \/ Refuse(s, m, rest)
           \/ Join(s, m, rest)
           \/ ApplyClientOp(s, m, rest)
        /\ UNCHANGED <<db, histVars, left>>

\* The server's close event: the room forgets the socket if it still has it.
ServerClose(s) ==
    LET r == socks[s].joined IN
    /\ socks[s].server = "open"
    /\ socks[s].state \in {"closing", "free"}
    /\ socks[s].toServer = <<>>
    /\ socks' = [socks EXCEPT ![s] =
                   IF @.state = "free" THEN FreeSocket
                   ELSE [@ EXCEPT !.server = "none", !.joined = None]]
    /\ registered' = IF r # None /\ registered[r] = s
                     THEN [registered EXCEPT ![r] = None] ELSE registered
    /\ UNCHANGED <<db, requests, inst, log, histVars, left>>

\* Somebody else types a character.
RemoteEdit ==
    LET n == Cardinality({op \in Saved : op.id.replicaId = Elsewhere}) + 1
        op == [type |-> "insert", value |-> 0,
               id |-> [counter |-> n, replicaId |-> Elsewhere]]
    IN  /\ Spend("remoteEdits")
        /\ log' = Append(log, op)
        /\ inst' = broadcast({op}, None)
        /\ UNCHANGED <<db, requests, socks, registered, histVars>>

-----------------------------------------------------------------------------
Next ==
    \/ Mount
    \/ ClosePage
    \/ ServeDocuments
    \/ ServeOutbox
    \/ ServeReplica
    \/ RemoteEdit
    \/ \E i \in Instances :
         \/ Dispose(i)
         \/ FinishInit(i)
         \/ Reconnect(i)
         \/ GoOffline(i)
         \/ GoOnline(i)
         \/ Edit(i)
    \/ \E s \in Sockets :
         \/ Open(s)
         \/ Break(s)
         \/ CloseEvent(s)
         \/ DispatchMessage(s)
         \/ ServerClose(s)

Spec == Init /\ [][Next]_vars

\* IndexedDB, the network, the timers and the server go on; the user need not.
Fairness ==
    /\ WF_vars(ServeDocuments) /\ WF_vars(ServeOutbox) /\ WF_vars(ServeReplica)
    /\ \A i \in Instances : WF_vars(FinishInit(i)) /\ WF_vars(Reconnect(i))
    /\ \A s \in Sockets :
         /\ WF_vars(Open(s)) /\ WF_vars(CloseEvent(s))
         /\ WF_vars(DispatchMessage(s)) /\ WF_vars(ServerClose(s))

FairSpec == Spec /\ Fairness

-----------------------------------------------------------------------------
(* Properties *)

TypeOK ==
    /\ left \in Budget
    /\ db.replica \in RecordIds \cup {None}
    /\ db.document.lastAckedSeq \in Nat
    /\ \A op \in made \cup stored \cup blind \cup db.outbox \cup Saved :
         op \in insertOpSchema
    /\ \A s \in Sockets :
         /\ socks[s].owner \in Instances \cup {None}
         /\ socks[s].state \in {"free", "connecting", "open", "closing"}
         /\ socks[s].state # "free" => Alive(socks[s].owner)
    /\ \A i \in Instances : Alive(i) =>
         /\ inst[i].view \subseteq insertOpSchema
         /\ inst[i].lastAckedSeq \in Nat
         /\ inst[i].ws \in Sockets \cup {None}
         /\ inst[i].ws # None => socks[inst[i].ws].owner = i

Early(ops) == {op \in ops : op.id.replicaId \in TempIds}

\* Two characters that are kept never share an id, although every page starts
\* to count from what IndexedDB gives it, except for one that is typed after
\* writes were lost with a page and before a join has caught up.
IdsUnique ==
    \A o, q \in Saved \cup stored :
        o.id = q.id /\ o # q => {o, q} \cap blind # {}

\* A character whose outbox record is committed is never lost, whenever the
\* page is closed: it stays in the outbox until the server has saved it.
StoredSurvives == stored \ blind \subseteq Saved \cup db.outbox

\* An operation leaves the outbox only when the server has saved it ("the server
\* durably saved it", documentClient.ts:218).  It fails: acks and outbox records
\* go by id, and a blind one may have the id of an operation that was saved.
AckedSaved == stored \subseteq Saved \cup db.outbox

\* A cursor never claims an id that its holder does not have, in an instance or
\* in the record that outlives it: a join asks only for what comes after the
\* cursor, and would never bring it.  Characters typed before init resolved are
\* the exception: their ack moves the cursor past them.
CursorHonest ==
    LET Has(n, ops) ==
          {log[k].id : k \in 1..n} \subseteq Ids(ops \cup Early(made))
    IN  /\ Has(db.document.lastAckedSeq, db.document.state)
        /\ \A i \in Instances : inst[i].phase = "ready" =>
             Has(inst[i].lastAckedSeq, inst[i].view)

\* The client's own operations that are not acked are in its Rga, by their ids,
\* also after a snapshot has replaced its document.
UnackedShown ==
    \A i \in Instances : inst[i].phase = "ready" =>
        Ids(inst[i].outbox) \subseteq Ids(inst[i].view \cup Early(made))

\* They are shown as the characters they are ("offline edits need to show up",
\* documentClient.ts:103), if no id was used blindly.  It fails: the document's
\* record may keep an operation whose outbox record was lost, and hide another
\* that gets its id after a snapshot has dropped it.
OutboxShown ==
    \A i \in Instances : inst[i].phase = "ready" /\ blind = {} =>
        inst[i].outbox \subseteq inst[i].view \cup Early(made)

Settled(i) ==
    LET s == inst[i].ws IN
    /\ inst[i].phase = "ready"
    /\ inst[i].connectionState = "open" /\ inst[i].heartbeat
    /\ s # None
    /\ registered[inst[i].replicaId] = s
    /\ inst[i].outbox = {} \/ Cardinality(made) > MaxOpsPerMessage
    /\ requests = NoRequests

\* However often connections break, pages are reloaded and the user goes
\* offline: a client that is left online ends up connected, with its outbox
\* delivered and its heartbeat running.  Once more characters are typed than one
\* message may have, the outbox is the exception: it may be refused as a whole.
Settles ==
    \A i \in Instances :
        <>[](Current(i) /\ ~inst[i].offline) => <>[]Settled(i)

\* A client that its component has disposed of lets go of its socket.
DisposedLetsGo ==
    \A i \in Instances :
        Alive(i) /\ ~Current(i) ~> \A s \in Sockets : socks[s].owner # i
=============================================================================
