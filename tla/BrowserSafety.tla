--------------------------- MODULE BrowserSafety ---------------------------
(***************************************************************************)
(* The inductive invariant behind the safety properties of Browser.tla and *)
(* their proofs, for any number of instances, sockets and characters.  It  *)
(* has layers, each kept with the help of those before it:                 *)
(*   Connected    which socket and which instance belong together          *)
(*   Covered      where an operation of this browser may be                *)
(*   Informed     what an instance knows of what the server has saved      *)
(*   Identified   why an id is used once                                   *)
(*   Aware        what the next page reads from the object stores          *)
(* The hypothesis ~QuickReturn is the timing assumption that Browser.tla   *)
(* names: with it, an instance never has two sockets.                      *)
(***************************************************************************)
EXTENDS BrowserProofs

-----------------------------------------------------------------------------
(* The connection *)

\* The page has one instance that is not disposed of.
OneCurrent == \A i, j \in Instances : Current(i) /\ Current(j) => i = j

\* Before init resolves there is no connection.
Starting == \A i \in Instances : inst[i].phase = "init" =>
    /\ inst[i].ws = None /\ ~inst[i].timer /\ ~inst[i].synced
    /\ \A s \in Sockets : socks[s].owner # i

\* Who waits to reconnect has no socket, and who wants none does not wait.
Timers == \A i \in Instances : Alive(i) =>
    /\ inst[i].timer => \A s \in Sockets : socks[s].owner # i
    /\ inst[i].offline \/ inst[i].closedByUser => ~inst[i].timer

OneSocket == \A s, t \in Sockets :
    socks[s].owner = socks[t].owner /\ socks[s].owner # None => s = t

\* A socket that is not being closed is the current one of its owner.
Linked == \A s \in Sockets : socks[s].state \in {"connecting", "open"} =>
    /\ inst[socks[s].owner].ws = s
    /\ ~inst[socks[s].owner].closedByUser

\* What the server's side knows of a socket.
ServerEnds == \A s \in Sockets :
    /\ socks[s].server = "none" =>
         socks[s].joined = None /\ DOMAIN socks[s].toServer = {}
    /\ socks[s].state = "connecting" => socks[s].server = "none"
    /\ socks[s].state = "open" => socks[s].server = "open"

Registry == \A r \in RecordIds :
    registered[r] # None => socks[registered[r]].joined = r

\* A socket joined as the replica of its owner, and will.
IsReplica(i, r) == inst[i].phase = "ready" /\ inst[i].replicaId = r

JoinedAs == \A s \in Sockets :
    socks[s].joined # None /\ socks[s].owner # None =>
      IsReplica(socks[s].owner, socks[s].joined)

JoinsAs == \A s \in Sockets : \A k \in DOMAIN socks[s].toServer :
    socks[s].toServer[k].type = "join" =>
      /\ socks[s].toServer[k].replicaId # None
      /\ socks[s].owner # None =>
           IsReplica(socks[s].owner, socks[s].toServer[k].replicaId)

\* Who is reached by the server has been answered.
Answered == \A r \in RecordIds : Reaches(registered[r]) =>
    inst[socks[registered[r]].owner].synced

Connected ==
    /\ OneCurrent /\ Starting /\ Timers /\ OneSocket /\ Linked /\ ServerEnds
    /\ Registry /\ JoinedAs /\ JoinsAs /\ Answered

\* No replica, instance or socket is None.
LEMMA NoneOutside ==
    None \notin Instances /\ None \notin Sockets /\ None \notin RecordIds
BY BrowserAssumption DEF Instances, Sockets, RecordIds

\* The instances keep their part of the connection.
InstancesKeep ==
    \A i \in Instances :
      /\ Alive(i)' <=> Alive(i)
      /\ Alive(i) =>
           /\ inst'[i].phase = inst[i].phase
           /\ inst'[i].replicaId = inst[i].replicaId
           /\ inst'[i].ws = inst[i].ws /\ inst'[i].timer = inst[i].timer
           /\ inst'[i].offline = inst[i].offline
           /\ inst'[i].closedByUser = inst[i].closedByUser
           /\ inst[i].synced => inst'[i].synced
           /\ inst[i].phase = "init" => inst'[i].synced = inst[i].synced

\* The sockets keep theirs, but may be closed, and send nothing but operations.
SocketsKeep ==
    \A s \in Sockets :
      /\ socks'[s].owner = socks[s].owner /\ socks'[s].server = socks[s].server
      /\ socks'[s].joined = socks[s].joined
      /\ socks'[s].state \in {"connecting", "open"} =>
           socks'[s].state = socks[s].state
      /\ \A k \in DOMAIN socks'[s].toServer :
           /\ socks[s].server # "none"
           /\ socks'[s].toServer[k].type = "join" =>
                \E l \in DOMAIN socks[s].toServer :
                  socks'[s].toServer[k] = socks[s].toServer[l]

\* A step keeps the connection's invariant if no instance and no socket changes
\* sides and no message is a new join.
LEMMA ConnectionKept ==
    ASSUME Typed, Connected, InstancesKeep, SocketsKeep, registered' = registered
    PROVE  Connected'
<1>1. /\ OneCurrent /\ Starting /\ Timers /\ OneSocket /\ Linked /\ ServerEnds
      /\ Registry /\ JoinedAs /\ JoinsAs /\ Answered /\ Owned /\ Types
  BY DEF Connected, Typed
<1>2. \A i \in Instances : Current(i)' <=> Current(i)
  BY DEF InstancesKeep, Current
<1>3. \A s \in Sockets : socks[s].owner # None =>
        socks[s].owner \in Instances /\ Alive(socks[s].owner)
  BY <1>1 DEF Owned
<1>4. OneCurrent'
  BY <1>1, <1>2 DEF OneCurrent
<1>5. \A i \in Instances : inst'[i].phase = "init" =>
        Alive(i) /\ inst[i].phase = "init"
  BY DEF InstancesKeep, Alive
<1>6. Starting'
  BY <1>1, <1>5 DEF Starting, InstancesKeep, SocketsKeep
<1>7. Timers'
  BY <1>1 DEF Timers, InstancesKeep, SocketsKeep
<1>8. OneSocket'
  BY <1>1 DEF OneSocket, SocketsKeep
<1>9. Linked'
  BY <1>1, <1>3, NoneOutside DEF Linked, InstancesKeep, SocketsKeep, Owned
<1>10. ServerEnds'
  BY <1>1 DEF ServerEnds, SocketsKeep
<1>11. \A r \in RecordIds : registered[r] # None => registered[r] \in Sockets
  BY <1>1 DEF Types
<1>12. Registry'
  BY <1>1, <1>11 DEF Registry, SocketsKeep
<1>13. JoinedAs'
  BY <1>1, <1>3 DEF JoinedAs, IsReplica, InstancesKeep, SocketsKeep
<1>14. JoinsAs'
  BY <1>1, <1>3 DEF JoinsAs, IsReplica, InstancesKeep, SocketsKeep
<1>15. Answered'
  <2> SUFFICES ASSUME NEW r \in RecordIds, registered[r] # None,
                      socks'[registered[r]].state = "open"
               PROVE  inst'[socks'[registered[r]].owner].synced
    BY DEF Answered, Reaches
  <2>1. registered[r] \in Sockets /\ socks[registered[r]].state = "open"
    BY <1>11 DEF SocketsKeep
  <2>2. inst[socks[registered[r]].owner].synced
    BY <1>1, <2>1 DEF Answered, Reaches
  <2>3. /\ socks[registered[r]].owner \in Instances
        /\ Alive(socks[registered[r]].owner)
    BY <1>1, <2>1 DEF Owned
  <2> QED
    BY <2>1, <2>2, <2>3 DEF InstancesKeep, SocketsKeep
<1> QED
  BY <1>4, <1>6, <1>7, <1>8, <1>9, <1>10, <1>12, <1>13, <1>14, <1>15
     DEF Connected

\* IndexedDB serves a request.
LEMMA ServeConnected ==
    ASSUME Typed, Connected, ServeDocuments \/ ServeOutbox \/ ServeReplica
    PROVE  Connected'
<1>1. Types /\ Asked
  BY DEF Typed
<1>2. ASSUME NEW i, NEW store, NEW record, ReadOf(i, store, record)
      PROVE  InstancesKeep
  BY <1>2 DEF ReadOf, InstancesKeep
<1>3. inst' = inst => InstancesKeep
  BY DEF InstancesKeep, Alive
<1>4. InstancesKeep
  <2>1. CASE ServeDocuments
    BY <1>1, <1>2, <1>3, <2>1, ServeDocumentsSteps
  <2>2. CASE ServeOutbox
    BY <1>1, <1>2, <1>3, <2>2, ServeOutboxSteps
  <2>3. CASE ServeReplica
    BY <1>1, <1>2, <1>3, <2>3, ServeReplicaSteps
  <2> QED
    BY <2>1, <2>2, <2>3
<1>5. socks' = socks /\ registered' = registered
  BY DEF ServeDocuments, ServeOutbox, ServeReplica
<1>6. SocketsKeep
  BY <1>5 DEF SocketsKeep, Connected, ServerEnds
<1> QED
  BY <1>4, <1>5, <1>6, ConnectionKept

\* An edit is the operation that EditSteps describes.
LEMMA EditIs ==
    ASSUME Typed, NEW i \in Instances, Edit(i)
    PROVE  \E op \in insertOpSchema :
             /\ Edited(i, op)
             /\ db' = db /\ registered' = registered /\ log' = log
             /\ stored' = stored /\ torn' = torn
<1>1. PICK rid : rid = IF inst[i].phase = "init" THEN <<"temp", i>>
                       ELSE inst[i].replicaId
  OBVIOUS
<1>2. PICK op : op = [type |-> "insert", value |-> Cardinality(made) + 1,
                      id |-> [counter |-> nextCounter(inst[i].view),
                              replicaId |-> rid]]
  OBVIOUS
<1>3. Edited(i, op)
  BY <1>1, <1>2, EditSteps DEF Typed
<1>4. op \in insertOpSchema
  BY <1>3 DEF Edited
<1>5. /\ db' = db /\ registered' = registered /\ log' = log
      /\ stored' = stored /\ torn' = torn
  BY DEF Edit
<1> QED
  BY <1>3, <1>4, <1>5

\* An edit sends operations and no join.
LEMMA EditConnected ==
    ASSUME Typed, Connected, NEW i \in Instances, Edit(i)
    PROVE  Connected'
<1>1. PICK op \in insertOpSchema : Edited(i, op) /\ registered' = registered
  BY EditIs
<1> DEFINE message == [type |-> "op", ops |-> {op}]
<1>2. message.type # "join"
  OBVIOUS
<1> HIDE DEF message
<1>3. InstancesKeep
  BY <1>1 DEF Edited, Learned, SameConnection, InstancesKeep
<1>4. SocketsKeep
  <2> SUFFICES ASSUME NEW s \in Sockets
               PROVE  /\ socks'[s].owner = socks[s].owner
                      /\ socks'[s].server = socks[s].server
                      /\ socks'[s].joined = socks[s].joined
                      /\ socks'[s].state = socks[s].state
                      /\ \A k \in DOMAIN socks'[s].toServer :
                           /\ socks[s].server # "none"
                           /\ socks'[s].toServer[k].type = "join" =>
                                \E l \in DOMAIN socks[s].toServer :
                                  socks'[s].toServer[k] = socks[s].toServer[l]
    BY DEF SocketsKeep
  <2>1. /\ socks'[s].owner = socks[s].owner /\ socks'[s].server = socks[s].server
        /\ socks'[s].joined = socks[s].joined /\ socks'[s].state = socks[s].state
        /\ \/ socks'[s].toServer = socks[s].toServer
           \/ /\ socks[s].state = "open"
              /\ socks'[s].toServer = Append(socks[s].toServer, message)
    BY <1>1 DEF Edited, message
  <2>2. socks[s].toServer \in Seq(MessageType)
    BY DEF Typed, Types, SocksType, SocketType
  <2>3. \A k \in DOMAIN socks'[s].toServer :
          \/ /\ k \in DOMAIN socks[s].toServer
             /\ socks'[s].toServer[k] = socks[s].toServer[k]
          \/ socks[s].state = "open" /\ socks'[s].toServer[k] = message
    BY <2>1, <2>2
  <2> QED
    BY <1>2, <2>1, <2>3 DEF Connected, ServerEnds
<1> QED
  BY <1>1, <1>3, <1>4, ConnectionKept

\* Somebody else's edit reaches views and leaves the connections alone.
LEMMA RemoteEditConnected ==
    ASSUME Typed, Connected, RemoteEdit
    PROVE  Connected'
<1>1. Types /\ Owned
  BY DEF Typed
<1>2. PICK n : n = Cardinality({o \in Saved : o.id.replicaId = Elsewhere}) + 1
  OBVIOUS
<1>3. PICK op : op = [type |-> "insert", value |-> 0,
                      id |-> [counter |-> n, replicaId |-> Elsewhere]]
  OBVIOUS
<1>4. \A i \in Instances :
        /\ Alive(i)' <=> Alive(i)
        /\ Heard(i, None) =>
             Learned(inst'[i], inst[i], applyAll(inst[i].view, {op}),
                     inst[i].outbox, inst[i].lastAckedSeq, inst[i].synced)
        /\ ~Heard(i, None) => inst'[i] = inst[i]
  BY <1>1, <1>2, <1>3, RemoteEditSteps
<1>5. InstancesKeep
  BY <1>4 DEF InstancesKeep, Learned, SameConnection
<1>6. socks' = socks /\ registered' = registered
  BY DEF RemoteEdit
<1>7. SocketsKeep
  BY <1>6 DEF SocketsKeep, Connected, ServerEnds
<1> QED
  BY <1>5, <1>6, <1>7, ConnectionKept

\* A connection breaks: the client's end is closing, what was sent may be lost.
LEMMA BreakConnected ==
    ASSUME Typed, Connected, NEW s \in Sockets, Break(s)
    PROVE  Connected'
<1>1. /\ inst' = inst
      /\ \A t \in Sockets :
           /\ socks'[t].owner = socks[t].owner
           /\ socks'[t].server = socks[t].server
           /\ socks'[t].joined = socks[t].joined
           /\ socks'[t].state = IF t = s THEN "closing" ELSE socks[t].state
           /\ t # s => socks'[t].toServer = socks[t].toServer
      /\ \A k \in DOMAIN socks'[s].toServer :
           /\ k \in DOMAIN socks[s].toServer
           /\ socks'[s].toServer[k] = socks[s].toServer[k]
  BY BreakSteps DEF Typed
<1>2. registered' = registered
  BY DEF Break
<1>3. InstancesKeep
  BY <1>1 DEF InstancesKeep, Alive
<1>4. SocketsKeep
  BY <1>1 DEF SocketsKeep, Connected, ServerEnds
<1> QED
  BY <1>2, <1>3, <1>4, ConnectionKept

\* Messages that are taken are no new ones.
LEMMA TakenKept ==
    ASSUME Types, NEW s \in Sockets, socks[s].toServer # <<>>, NEW t \in Sockets
    PROVE  /\ Taken(s, t) \in Seq(MessageType)
           /\ \A k \in DOMAIN Taken(s, t) : \E l \in DOMAIN socks[t].toServer :
                Taken(s, t)[k] = socks[t].toServer[l]
<1>1. socks[t].toServer \in Seq(MessageType)
  BY DEF Types, SocksType, SocketType
<1> QED
  BY <1>1, TailKept DEF Taken

\* The server takes one message off a socket.
LEMMA OneTakenKeeps ==
    ASSUME Typed, Connected, NEW s \in Sockets, socks[s].toServer # <<>>,
           OneTaken(socks', s)
    PROVE  SocketsKeep
<1>1. Types
  BY DEF Typed
<1> SUFFICES ASSUME NEW t \in Sockets
             PROVE  /\ socks'[t].owner = socks[t].owner
                    /\ socks'[t].server = socks[t].server
                    /\ socks'[t].joined = socks[t].joined
                    /\ socks'[t].state = socks[t].state
                    /\ \A k \in DOMAIN socks'[t].toServer :
                         /\ socks[t].server # "none"
                         /\ \E l \in DOMAIN socks[t].toServer :
                              socks'[t].toServer[k] = socks[t].toServer[l]
  BY DEF SocketsKeep
<1>2. /\ socks'[t].owner = socks[t].owner /\ socks'[t].server = socks[t].server
      /\ socks'[t].joined = socks[t].joined /\ socks'[t].state = socks[t].state
      /\ socks'[t].toServer = Taken(s, t)
  BY DEF OneTaken
<1> QED
  BY <1>1, <1>2, TakenKept DEF Connected, ServerEnds

\* A refused message is only taken off its socket.
LEMMA RefuseConnected ==
    ASSUME Typed, Connected, NEW s \in Sockets, socks[s].toServer # <<>>, NEW m,
           Refuse(s, m, [socks EXCEPT ![s].toServer = Tail(@)])
    PROVE  Connected'
<1>1. /\ socks' = [socks EXCEPT ![s].toServer = Tail(@)]
      /\ inst' = inst /\ registered' = registered
  BY DEF Refuse
<1>2. OneTaken(socks', s)
  BY <1>1, RestSteps DEF Typed
<1>3. InstancesKeep
  BY <1>1 DEF InstancesKeep, Alive
<1> QED
  BY <1>1, <1>2, <1>3, OneTakenKeeps, ConnectionKept

\* The operations of message m, sent on socket s, are applied.
Applied(s, m, fresh) ==
    LET r == socks[s].joined
        w == registered[r]
    IN  /\ m = Head(socks[s].toServer) /\ m \in MessageType
        /\ m = socks[s].toServer[1] /\ 1 \in DOMAIN socks[s].toServer
        /\ fresh = {op \in m.ops : op.id \notin Ids(Saved)}
        /\ m.type = "op" /\ m.ops \in Ops /\ r \in RecordIds
        /\ Grown(fresh) /\ registered' = registered /\ OneTaken(socks', s)
        /\ inst' \in InstType /\ requests' \in RequestsType
        /\ \A j \in Instances : Alive(j)' <=> Alive(j)
        /\ \A j \in Instances : AfterOps(j, m.ops, r, w)
        /\ IF Reaches(w)
           THEN /\ socks[w].owner \in Instances
                /\ Persisted(inst'[socks[w].owner], Ids(m.ops))
           ELSE requests' = requests

\* What applyClientOp does is described by Applied.
LEMMA ApplyIs ==
    ASSUME Typed, NEW s \in Sockets, socks[s].toServer # <<>>,
           NEW m, m = Head(socks[s].toServer),
           ApplyClientOp(s, m, [socks EXCEPT ![s].toServer = Tail(@)])
    PROVE  \E fresh \in Ops : Applied(s, m, fresh)
<1>1. PICK r : r = socks[s].joined
  OBVIOUS
<1>2. PICK w : w = registered[r]
  OBVIOUS
<1>3. PICK fresh : fresh = {op \in m.ops : op.id \notin Ids(Saved)}
  OBVIOUS
<1>4. Types /\ Owned
  BY DEF Typed
<1>5. m \in MessageType /\ m = socks[s].toServer[1] /\ 1 \in DOMAIN socks[s].toServer
  BY <1>4, RestSteps
<1>6. /\ m.type = "op" /\ m.ops \in Ops /\ r \in RecordIds
      /\ fresh \in Ops /\ Grown(fresh) /\ registered' = registered
      /\ OneTaken(socks', s)
      /\ inst' \in InstType /\ requests' \in RequestsType
      /\ \A j \in Instances : Alive(j)' <=> Alive(j)
      /\ \A j \in Instances : AfterOps(j, m.ops, r, w)
      /\ IF Reaches(w)
         THEN /\ socks[w].owner \in Instances
              /\ Persisted(inst'[socks[w].owner], Ids(m.ops))
         ELSE requests' = requests
  BY <1>1, <1>2, <1>3, <1>4, ApplySteps
<1> QED
  BY <1>1, <1>2, <1>3, <1>5, <1>6 DEF Applied

\* Applying operations changes views, the log and an outbox.
LEMMA ApplyConnected ==
    ASSUME Typed, Connected, NEW s \in Sockets, socks[s].toServer # <<>>, NEW m,
           NEW fresh, Applied(s, m, fresh)
    PROVE  Connected'
<1>1. /\ OneTaken(socks', s) /\ registered' = registered
      /\ \A j \in Instances : Alive(j)' <=> Alive(j)
      /\ \A j \in Instances :
           AfterOps(j, m.ops, socks[s].joined, registered[socks[s].joined])
  BY DEF Applied
<1>2. InstancesKeep
  BY <1>1 DEF InstancesKeep, AfterOps, Learned, SameConnection
<1> QED
  BY <1>1, <1>2, OneTakenKeeps, ConnectionKept

\* The page opens with an instance that has no socket.
LEMMA MountConnected ==
    ASSUME Typed, Connected, Mount
    PROVE  Connected'
<1>1. PICK i : i = MaxInstances - left.mounts + 1
  OBVIOUS
<1>2. /\ i \in Instances /\ ~Alive(i) /\ inst'[i] = NewInstance
      /\ \A j \in Instances : j # i => inst'[j] = inst[j]
  BY <1>1, MountSteps DEF Typed
<1>3. socks' = socks /\ registered' = registered
  BY DEF Mount
<1>4. \A j \in Instances : ~Current(j)
  BY DEF Mount
<1>5. /\ OneCurrent /\ Starting /\ Timers /\ OneSocket /\ Linked /\ ServerEnds
      /\ Registry /\ JoinedAs /\ JoinsAs /\ Answered /\ Owned /\ Types
  BY DEF Connected, Typed
<1>6. /\ inst'[i].phase = "init" /\ inst'[i].ws = None /\ ~inst'[i].timer
      /\ ~inst'[i].synced
  BY <1>2 DEF NewInstance
<1>7. \A s \in Sockets : socks[s].owner # i
  BY <1>2, <1>5, NoneOutside DEF Owned
<1>8. \A s \in Sockets : socks[s].owner # None =>
        inst'[socks[s].owner] = inst[socks[s].owner]
  BY <1>2, <1>5, <1>7 DEF Owned
<1>9. OneCurrent'
  BY <1>2, <1>4 DEF OneCurrent, Current, Alive
<1>10. Starting'
  BY <1>2, <1>3, <1>5, <1>6, <1>7 DEF Starting
<1>11. Timers'
  BY <1>2, <1>3, <1>5, <1>6 DEF Timers, Alive
<1>12. OneSocket' /\ ServerEnds' /\ Registry'
  BY <1>3, <1>5 DEF OneSocket, ServerEnds, Registry
<1>13. Linked'
  BY <1>3, <1>5, <1>8, NoneOutside DEF Linked, Owned
<1>14. JoinedAs' /\ JoinsAs'
  BY <1>3, <1>5, <1>8 DEF JoinedAs, JoinsAs, IsReplica
<1>15. Answered'
  <2> SUFFICES ASSUME NEW r \in RecordIds, Reaches(registered[r])
               PROVE  inst'[socks[registered[r]].owner].synced
    BY <1>3 DEF Answered, Reaches
  <2>1. registered[r] \in Sockets \cup {None}
    BY <1>5 DEF Types
  <2>2. socks[registered[r]].owner \in Instances /\ registered[r] \in Sockets
    BY <1>5, <2>1, ReachedAlive
  <2> QED
    BY <1>5, <1>8, <2>2, NoneOutside DEF Answered
<1> QED
  BY <1>9, <1>10, <1>11, <1>12, <1>13, <1>14, <1>15 DEF Connected

\* The page closes: no instance is left, and no socket has an owner.
LEMMA ClosePageConnected ==
    ASSUME Typed, Connected, ClosePage
    PROVE  Connected'
<1>1. /\ \A i \in Instances : inst'[i].phase = "none"
      /\ \A t \in Sockets :
           /\ socks'[t].owner = None /\ socks'[t].state = "free"
           /\ IF socks[t].server = "none" THEN socks'[t] = FreeSocket
              ELSE /\ socks'[t].server = socks[t].server
                   /\ socks'[t].joined = socks[t].joined
                   /\ socks'[t].toServer = socks[t].toServer
  BY ClosePageSteps DEF Typed
<1>2. registered' = registered
  BY DEF ClosePage
<1>3. /\ ServerEnds /\ Registry /\ JoinsAs /\ Types
  BY DEF Connected, Typed
<1>4. OneCurrent' /\ Starting' /\ Timers' /\ OneSocket' /\ Linked' /\ JoinedAs'
  BY <1>1 DEF OneCurrent, Current, Alive, Starting, Timers, OneSocket, Linked,
              JoinedAs
<1>5. ServerEnds'
  BY <1>1, <1>3 DEF ServerEnds, FreeSocket
<1>6. Registry'
  <2> SUFFICES ASSUME NEW r \in RecordIds, registered[r] # None
               PROVE  socks'[registered[r]].joined = r
    BY <1>2 DEF Registry
  <2>1. registered[r] \in Sockets /\ socks[registered[r]].joined = r
    BY <1>3 DEF Types, Registry
  <2>2. socks[registered[r]].server # "none"
    BY <1>3, <2>1, NoneOutside DEF ServerEnds
  <2> QED
    BY <1>1, <2>1, <2>2
<1>7. JoinsAs'
  <2> SUFFICES ASSUME NEW s \in Sockets, NEW k \in DOMAIN socks'[s].toServer,
                      socks'[s].toServer[k].type = "join"
               PROVE  socks'[s].toServer[k].replicaId # None
    BY <1>1 DEF JoinsAs
  <2>1. CASE socks[s].server = "none"
    <3>1. socks'[s].toServer = <<>>
      BY <1>1, <2>1 DEF FreeSocket
    <3> QED
      BY <3>1
  <2>2. CASE socks[s].server # "none"
    BY <1>1, <1>3, <2>2 DEF JoinsAs
  <2> QED
    BY <2>1, <2>2
<1>8. Answered'
  BY <1>1, <1>2, <1>3 DEF Answered, Reaches, Types
<1> QED
  BY <1>4, <1>5, <1>6, <1>7, <1>8 DEF Connected

\* dispose and setSimulatedOffline(true)
LEMMA ClosingConnected ==
    ASSUME Typed, Connected, NEW i \in Instances, Dispose(i) \/ GoOffline(i)
    PROVE  Connected'
<1>1. /\ inst[i] \in ClientType /\ inst'[i] \in ClientType
      /\ ClosedAt(inst[i].ws)
      /\ \A j \in Instances : j # i => inst'[j] = inst[j]
      /\ SameKnowledge(inst'[i], inst[i])
      /\ inst'[i].ws \in {inst[i].ws, None} /\ ~inst'[i].timer
      /\ inst[i].closedByUser => inst'[i].closedByUser
  BY DisposeSteps, GoOfflineSteps DEF Typed
<1>2. registered' = registered
  BY DEF Dispose, GoOffline
<1>3. /\ OneCurrent /\ Starting /\ Timers /\ OneSocket /\ Linked /\ ServerEnds
      /\ Registry /\ JoinedAs /\ JoinsAs /\ Answered /\ Owned /\ Types
  BY DEF Connected, Typed
<1>4. \A t \in Sockets :
        /\ socks'[t].owner = socks[t].owner /\ socks'[t].server = socks[t].server
        /\ socks'[t].joined = socks[t].joined
        /\ socks'[t].toServer = socks[t].toServer
        /\ socks'[t].state \in {"connecting", "open"} =>
             socks'[t].state = socks[t].state /\ socks[t].owner # i
  <2> SUFFICES ASSUME NEW t \in Sockets,
                      socks'[t].state \in {"connecting", "open"}
               PROVE  socks'[t].state = socks[t].state /\ socks[t].owner # i
    BY <1>1 DEF ClosedAt
  <2>1. socks'[t].state = socks[t].state /\ ~(t = inst[i].ws)
    BY <1>1, NoneOutside DEF ClosedAt
  <2> QED
    BY <1>3, <2>1 DEF Linked
<1>5. \A j \in Instances : Current(j)' => Current(j)
  BY <1>1 DEF Current, Alive, SameKnowledge
<1>6. OneCurrent'
  BY <1>3, <1>5 DEF OneCurrent
<1>7. Starting'
  BY <1>1, <1>3, <1>4 DEF Starting, SameKnowledge
<1>8. Timers'
  BY <1>1, <1>3, <1>4 DEF Timers, Alive
<1>9. OneSocket' /\ ServerEnds'
  BY <1>3, <1>4 DEF OneSocket, ServerEnds
<1>10. Registry'
  BY <1>2, <1>3, <1>4 DEF Registry, Types
<1>11. Linked'
  BY <1>1, <1>3, <1>4 DEF Linked, Owned
<1>12. JoinedAs' /\ JoinsAs'
  BY <1>1, <1>3, <1>4 DEF JoinedAs, JoinsAs, IsReplica, SameKnowledge, Owned
<1>13. Answered'
  <2> SUFFICES ASSUME NEW r \in RecordIds, registered[r] # None,
                      socks'[registered[r]].state = "open"
               PROVE  inst'[socks'[registered[r]].owner].synced
    BY <1>2 DEF Answered, Reaches
  <2>1. registered[r] \in Sockets /\ socks[registered[r]].state = "open"
    BY <1>3, <1>4 DEF Types
  <2>2. inst[socks[registered[r]].owner].synced
    BY <1>3, <2>1 DEF Answered, Reaches
  <2> QED
    BY <1>1, <1>3, <1>4, <2>1, <2>2 DEF Owned
<1> QED
  BY <1>6, <1>7, <1>8, <1>9, <1>10, <1>11, <1>12, <1>13 DEF Connected

\* The actions that connect do so only for an instance without a socket: this
\* is where the timing assumption is needed.
LEMMA NoSocketYet ==
    ASSUME Typed, Connected, ~QuickReturn, NEW i \in Instances,
           FinishInit(i) \/ Reconnect(i) \/ GoOnline(i), NEW s \in Sockets
    PROVE  socks[s].owner # i
BY DEF Connected, Starting, Timers, FinishInit, Reconnect, GoOnline

\* An instance that had no socket opens one.
LEMMA ConnectingConnected ==
    ASSUME Typed, Connected, ~QuickReturn, NEW i \in Instances,
           FinishInit(i) \/ Reconnect(i) \/ GoOnline(i)
    PROVE  Connected'
<1>1. /\ inst[i] \in ClientType /\ inst'[i] \in ClientType
      /\ \A j \in Instances : j # i => inst'[j] = inst[j]
      /\ \/ socks' = socks
         \/ /\ inst'[i].ws \in Sockets /\ ConnectedAt(inst'[i].ws, i)
            /\ ~inst'[i].closedByUser
      /\ inst'[i].closedByUser = inst[i].closedByUser
      /\ inst'[i].synced = inst[i].synced
      /\ inst'[i].phase # "none"
  <2>1. CASE FinishInit(i)
    BY <2>1, FinishInitSteps DEF Typed
  <2>2. CASE Reconnect(i) \/ GoOnline(i)
    <3>1. /\ inst[i] \in ClientType /\ inst'[i] \in ClientType
          /\ \A j \in Instances : j # i => inst'[j] = inst[j]
          /\ SameKnowledge(inst'[i], inst[i])
          /\ inst'[i].closedByUser = inst[i].closedByUser
          /\ \/ socks' = socks
             \/ /\ ~inst'[i].closedByUser
                /\ inst'[i].ws \in Sockets /\ ConnectedAt(inst'[i].ws, i)
      BY <2>2, ConnectAgainSteps DEF Typed
    <3> QED
      BY <3>1 DEF SameKnowledge, ClientType
  <2> QED
    BY <2>1, <2>2 DEF ClientType
<1>2. inst'[i].phase = "ready" /\ ~inst'[i].timer
  <2>1. /\ Starting /\ Timers
    BY DEF Connected
  <2>2. CASE FinishInit(i)
    BY <2>1, <2>2, FinishInitSteps DEF Typed, Starting
  <2>3. CASE Reconnect(i)
    <3>1. inst[i].timer /\ Alive(i)
      BY <2>3 DEF Reconnect
    <3>2. ~inst'[i].timer /\ inst'[i].phase = inst[i].phase
      BY <2>3, ConnectAgainSteps DEF Typed, SameKnowledge
    <3> QED
      BY <1>1, <2>1, <3>1, <3>2 DEF Starting, ClientType
  <2>4. CASE GoOnline(i) /\ ~Reconnect(i)
    <3>1. inst[i].offline /\ Alive(i) /\ inst[i].phase = "ready"
      BY <2>4 DEF GoOnline, Current
    <3>2. inst'[i].timer = inst[i].timer /\ inst'[i].phase = inst[i].phase
      BY <2>4, ConnectAgainSteps DEF Typed, SameKnowledge
    <3> QED
      BY <2>1, <3>1, <3>2 DEF Timers
  <2> QED
    BY <2>2, <2>3, <2>4
<1>3. \A s \in Sockets : socks[s].owner # i
  BY NoSocketYet
<1>4. registered' = registered
  BY DEF FinishInit, Reconnect, GoOnline
<1>5. /\ OneCurrent /\ Starting /\ Timers /\ OneSocket /\ Linked /\ ServerEnds
      /\ Registry /\ JoinedAs /\ JoinsAs /\ Answered /\ Owned /\ Types
  BY DEF Connected, Typed
<1>6. PICK n \in Sockets \cup {None} :
        /\ \A s \in Sockets : s # n => socks'[s] = socks[s]
        /\ n # None =>
             /\ socks[n] = FreeSocket /\ inst'[i].ws = n
             /\ socks'[n].owner = i /\ socks'[n].state = "connecting"
             /\ socks'[n].server = "none" /\ socks'[n].joined = None
             /\ socks'[n].toServer = <<>> /\ ~inst'[i].closedByUser
  BY <1>1 DEF ConnectedAt
<1>7. n # None => socks[n].owner = None /\ socks[n].joined = None
  BY <1>6 DEF FreeSocket
<1>8. \A s \in Sockets : s # n => socks'[s].owner # i
  BY <1>3, <1>6
<1>9. \A s \in Sockets : s # n /\ socks[s].owner # None =>
        inst'[socks[s].owner] = inst[socks[s].owner]
  BY <1>1, <1>3, <1>5 DEF Owned
<1>10. OneCurrent'
  <2>1. \A j \in Instances : Current(j)' => Current(j)
    BY <1>1 DEF Current, Alive, ClientType
  <2> QED
    BY <1>5, <2>1 DEF OneCurrent
<1>11. Starting' /\ Timers'
  <2>1. ASSUME NEW j \in Instances, j # i, NEW s \in Sockets, socks[s].owner # j
        PROVE  socks'[s].owner # j
    BY <1>6, <2>1, NoneOutside
  <2>2. Starting'
    BY <1>1, <1>2, <1>5, <2>1 DEF Starting
  <2>3. Timers'
    BY <1>1, <1>2, <1>5, <2>1 DEF Timers, Alive
  <2> QED
    BY <2>2, <2>3
<1>12. OneSocket'
  BY <1>5, <1>6, <1>8, NoneOutside DEF OneSocket
<1>13. Linked'
  BY <1>5, <1>6, <1>9, NoneOutside DEF Linked, Owned
<1>14. ServerEnds'
  <2> SUFFICES ASSUME NEW s \in Sockets
               PROVE  /\ socks'[s].server = "none" =>
                           /\ socks'[s].joined = None
                           /\ DOMAIN socks'[s].toServer = {}
                      /\ socks'[s].state = "connecting" =>
                           socks'[s].server = "none"
                      /\ socks'[s].state = "open" => socks'[s].server = "open"
    BY DEF ServerEnds
  <2>1. CASE s = n
    BY <1>6, <2>1, NoneOutside
  <2>2. CASE s # n
    BY <1>5, <1>6, <2>2 DEF ServerEnds
  <2> QED
    BY <2>1, <2>2
<1>15. \A r \in RecordIds : registered[r] # None =>
         registered[r] \in Sockets /\ registered[r] # n
  BY <1>5, <1>7, NoneOutside DEF Registry, Types
<1>16. Registry'
  BY <1>4, <1>5, <1>6, <1>15 DEF Registry
<1>17. JoinedAs' /\ JoinsAs'
  <2>1. \A s \in Sockets : s # n \/ /\ socks'[s].joined = None
                                    /\ DOMAIN socks'[s].toServer = {}
    BY <1>6, NoneOutside
  <2> QED
    BY <1>5, <1>6, <1>9, <2>1 DEF JoinedAs, JoinsAs, IsReplica
<1>18. Answered'
  <2> SUFFICES ASSUME NEW r \in RecordIds, registered[r] # None,
                      socks'[registered[r]].state = "open"
               PROVE  inst'[socks'[registered[r]].owner].synced
    BY <1>4 DEF Answered, Reaches
  <2>1. registered[r] \in Sockets /\ socks'[registered[r]] = socks[registered[r]]
    BY <1>6, <1>15
  <2>2. inst[socks[registered[r]].owner].synced
    BY <1>5, <2>1 DEF Answered, Reaches
  <2>3. socks[registered[r]].owner # None
    BY <1>5, <2>1, NoneOutside DEF Owned
  <2> QED
    BY <1>9, <1>15, <2>1, <2>2, <2>3
<1> QED
  BY <1>10, <1>11, <1>12, <1>13, <1>14, <1>16, <1>17, <1>18 DEF Connected

\* The open event sends the join of the socket's owner.
LEMMA OpenConnected ==
    ASSUME Typed, Connected, NEW s \in Sockets, Open(s)
    PROVE  Connected'
<1>1. PICK i : i = socks[s].owner
  OBVIOUS
<1>2. /\ OneCurrent /\ Starting /\ Timers /\ OneSocket /\ Linked /\ ServerEnds
      /\ Registry /\ JoinedAs /\ JoinsAs /\ Answered /\ Owned /\ Types /\ Named
  BY DEF Connected, Typed
<1>3. /\ i \in Instances /\ inst[i] \in ClientType
      /\ \A j \in Instances : j # i => inst'[j] = inst[j]
      /\ \A j \in Instances : Alive(j)' <=> Alive(j)
      /\ SameKnowledge(inst'[i], inst[i]) /\ SameConnection(inst'[i], inst[i])
      /\ socks[s].state = "connecting" /\ JoinOf(inst[i]) \in MessageType
      /\ \A t \in Sockets :
           /\ socks'[t].owner = socks[t].owner
           /\ socks'[t].joined = socks[t].joined
           /\ socks'[t].state = IF t = s THEN "open" ELSE socks[t].state
           /\ socks'[t].server = IF t = s THEN "open" ELSE socks[t].server
           /\ socks'[t].toServer =
                IF /\ inst[i].ws # None /\ t = inst[i].ws
                   /\ t = s \/ socks[t].state = "open"
                THEN Append(socks[t].toServer, JoinOf(inst[i]))
                ELSE socks[t].toServer
  BY <1>1, <1>2, OpenSteps
<1>4. registered' = registered
  BY DEF Open
<1>5. inst[i].ws = s
  BY <1>1, <1>2, <1>3 DEF Linked
<1>6. inst[i].phase = "ready" /\ inst[i].replicaId # None
  BY <1>1, <1>2, <1>3 DEF Starting, ClientType, Named
<1> DEFINE join == JoinOf(inst[i])
<1>7. join.replicaId = inst[i].replicaId
  BY DEF JoinOf
<1> HIDE DEF join
<1>8. \A j \in Instances :
        /\ inst'[j].phase = inst[j].phase /\ inst'[j].synced = inst[j].synced
        /\ inst'[j].replicaId = inst[j].replicaId /\ inst'[j].ws = inst[j].ws
        /\ inst'[j].timer = inst[j].timer
        /\ inst'[j].offline = inst[j].offline
        /\ inst'[j].closedByUser = inst[j].closedByUser
  BY <1>3 DEF SameKnowledge, SameConnection
<1>9. /\ \A t \in Sockets : t # s => socks'[t].toServer = socks[t].toServer
      /\ socks'[s].toServer = Append(socks[s].toServer, join)
  BY <1>3, <1>5, NoneOutside DEF join
<1>10. OneCurrent'
  BY <1>2, <1>8 DEF OneCurrent, Current, Alive
<1>11. Starting' /\ Timers'
  BY <1>2, <1>3, <1>8 DEF Starting, Timers, Alive
<1>12. OneSocket'
  BY <1>2, <1>3 DEF OneSocket
<1>13. Linked'
  BY <1>2, <1>3, <1>8 DEF Linked, Owned
<1>14. ServerEnds'
  BY <1>2, <1>3, <1>9 DEF ServerEnds
<1>15. Registry'
  BY <1>2, <1>3, <1>4 DEF Registry, Types
<1>16. \A t \in Sockets : socks[t].owner # None =>
         \A r : IsReplica(socks[t].owner, r) => IsReplica(socks[t].owner, r)'
  <2> SUFFICES ASSUME NEW t \in Sockets, socks[t].owner # None, NEW r,
                      IsReplica(socks[t].owner, r)
               PROVE  inst'[socks'[t].owner].phase = "ready"
                      /\ inst'[socks'[t].owner].replicaId = r
    BY DEF IsReplica
  <2>1. socks[t].owner \in Instances /\ socks'[t].owner = socks[t].owner
    BY <1>2, <1>3 DEF Owned
  <2> QED
    BY <1>8, <2>1 DEF IsReplica
<1>17. JoinedAs'
  BY <1>2, <1>3, <1>16 DEF JoinedAs
<1>18. JoinsAs'
  <2> SUFFICES ASSUME NEW t \in Sockets, NEW k \in DOMAIN socks'[t].toServer,
                      socks'[t].toServer[k].type = "join"
               PROVE  /\ socks'[t].toServer[k].replicaId # None
                      /\ socks'[t].owner # None =>
                           /\ inst'[socks'[t].owner].phase = "ready"
                           /\ inst'[socks'[t].owner].replicaId =
                                socks'[t].toServer[k].replicaId
    BY DEF JoinsAs, IsReplica
  <2>1. socks[t].toServer \in Seq(MessageType)
    BY <1>2 DEF Types, SocksType, SocketType
  <2>2. \/ /\ k \in DOMAIN socks[t].toServer
           /\ socks'[t].toServer[k] = socks[t].toServer[k]
        \/ t = s /\ socks'[t].toServer[k] = join
    <3>1. CASE t # s
      BY <1>9, <3>1
    <3>2. CASE t = s
      <4>1. socks'[t].toServer = Append(socks[t].toServer, join)
        BY <1>9, <3>2
      <4>2. \/ k \in 1..Len(socks[t].toServer)
            \/ k = Len(socks[t].toServer) + 1
        BY <2>1, <4>1
      <4> QED
        BY <2>1, <3>2, <4>1, <4>2
    <3> QED
      BY <3>1, <3>2
  <2>3. CASE /\ k \in DOMAIN socks[t].toServer
             /\ socks'[t].toServer[k] = socks[t].toServer[k]
    <3>1. /\ socks[t].toServer[k].replicaId # None
          /\ socks[t].owner # None =>
               /\ inst[socks[t].owner].phase = "ready"
               /\ inst[socks[t].owner].replicaId = socks[t].toServer[k].replicaId
      BY <1>2, <2>3 DEF JoinsAs, IsReplica
    <3> QED
      BY <1>2, <1>3, <1>8, <2>3, <3>1 DEF Owned
  <2>4. CASE t = s /\ socks'[t].toServer[k] = join
    BY <1>1, <1>3, <1>6, <1>7, <1>8, <2>4
  <2> QED
    BY <2>2, <2>3, <2>4
<1>19. Answered'
  <2> SUFFICES ASSUME NEW r \in RecordIds, registered[r] # None,
                      socks'[registered[r]].state = "open"
               PROVE  inst'[socks'[registered[r]].owner].synced
    BY <1>4 DEF Answered, Reaches
  <2>1. registered[r] \in Sockets /\ socks[registered[r]].joined = r
    BY <1>2 DEF Types, Registry
  <2>2. registered[r] # s
    BY <1>2, <1>3, <2>1, NoneOutside DEF ServerEnds
  <2>3. socks[registered[r]].state = "open"
    BY <1>3, <2>1, <2>2
  <2>4. inst[socks[registered[r]].owner].synced
    BY <1>2, <2>3 DEF Answered, Reaches
  <2> QED
    BY <1>2, <1>3, <1>8, <2>1, <2>3, <2>4 DEF Owned
<1> QED
  BY <1>10, <1>11, <1>12, <1>13, <1>14, <1>15, <1>17, <1>18, <1>19 DEF Connected

\* The close event frees the one socket of its owner.
LEMMA CloseEventConnected ==
    ASSUME Typed, Connected, NEW s \in Sockets, CloseEvent(s)
    PROVE  Connected'
<1>1. PICK i : i = socks[s].owner
  OBVIOUS
<1>2. /\ OneCurrent /\ Starting /\ Timers /\ OneSocket /\ Linked /\ ServerEnds
      /\ Registry /\ JoinedAs /\ JoinsAs /\ Answered /\ Owned /\ Types
  BY DEF Connected, Typed
<1>3. /\ i \in Instances /\ inst[i] \in ClientType
      /\ \A j \in Instances : j # i => inst'[j] = inst[j]
      /\ \A j \in Instances : Alive(j)' <=> Alive(j)
      /\ SameKnowledge(inst'[i], inst[i])
      /\ inst'[i].offline = inst[i].offline
      /\ inst'[i].closedByUser = inst[i].closedByUser
      /\ inst'[i].timer <=>
           inst[i].timer \/ ~(inst[i].closedByUser \/ inst[i].offline)
      /\ socks[s].state = "closing"
      /\ \A t \in Sockets : t # s => socks'[t] = socks[t]
      /\ socks'[s].owner = None /\ socks'[s].state = "free"
      /\ IF socks[s].server = "none" THEN socks'[s] = FreeSocket
         ELSE /\ socks'[s].server = socks[s].server
              /\ socks'[s].joined = socks[s].joined
              /\ socks'[s].toServer = socks[s].toServer
  BY <1>1, <1>2, CloseEventSteps
<1>4. registered' = registered
  BY DEF CloseEvent
<1>5. \A t \in Sockets : t # s => socks[t].owner # i
  BY <1>1, <1>2, <1>3, NoneOutside DEF OneSocket
<1>6. inst[i].phase = "ready" /\ inst'[i].phase = "ready"
  BY <1>1, <1>2, <1>3 DEF Starting, ClientType, SameKnowledge, Owned, Alive
<1>7. \A t \in Sockets : t # s /\ socks[t].owner # None =>
        inst'[socks[t].owner] = inst[socks[t].owner]
  BY <1>2, <1>3, <1>5 DEF Owned
<1>8. OneCurrent'
  <2>1. \A j \in Instances : Current(j)' <=> Current(j)
    BY <1>3 DEF Current, Alive
  <2> QED
    BY <1>2, <2>1 DEF OneCurrent
<1>9. \A j \in Instances, t \in Sockets : socks'[t].owner = j => socks[t].owner = j
  BY <1>3, NoneOutside
<1>10. Starting'
  BY <1>2, <1>3, <1>6, <1>9 DEF Starting
<1>11. \A t \in Sockets : socks'[t].owner # i
  BY <1>3, <1>5, NoneOutside
<1>12. Timers'
  BY <1>2, <1>3, <1>9, <1>11 DEF Timers, Alive
<1>13. OneSocket'
  BY <1>2, <1>3 DEF OneSocket
<1>14. Linked'
  BY <1>2, <1>3, <1>7, NoneOutside DEF Linked, Owned
<1>15. ServerEnds'
  BY <1>2, <1>3 DEF ServerEnds, FreeSocket
<1>16. Registry'
  <2> SUFFICES ASSUME NEW r \in RecordIds, registered[r] # None
               PROVE  socks'[registered[r]].joined = r
    BY <1>4 DEF Registry
  <2>1. registered[r] \in Sockets /\ socks[registered[r]].joined = r
    BY <1>2 DEF Types, Registry
  <2>2. socks[registered[r]].server # "none"
    BY <1>2, <2>1, NoneOutside DEF ServerEnds
  <2> QED
    BY <1>3, <2>1, <2>2
<1>17. JoinedAs'
  BY <1>2, <1>3, <1>7 DEF JoinedAs, IsReplica
<1>18. JoinsAs'
  <2> SUFFICES ASSUME NEW t \in Sockets, NEW k \in DOMAIN socks'[t].toServer,
                      socks'[t].toServer[k].type = "join"
               PROVE  /\ socks'[t].toServer[k].replicaId # None
                      /\ socks'[t].owner # None =>
                           /\ inst'[socks'[t].owner].phase = "ready"
                           /\ inst'[socks'[t].owner].replicaId =
                                socks'[t].toServer[k].replicaId
    BY DEF JoinsAs, IsReplica
  <2>1. CASE t # s
    BY <1>2, <1>3, <1>7, <2>1 DEF JoinsAs, IsReplica
  <2>2. CASE t = s /\ socks[s].server = "none"
    BY <1>3, <2>2 DEF FreeSocket
  <2>3. CASE t = s /\ socks[s].server # "none"
    BY <1>2, <1>3, <2>3 DEF JoinsAs
  <2> QED
    BY <2>1, <2>2, <2>3
<1>19. Answered'
  <2> SUFFICES ASSUME NEW r \in RecordIds, registered[r] # None,
                      socks'[registered[r]].state = "open"
               PROVE  inst'[socks'[registered[r]].owner].synced
    BY <1>4 DEF Answered, Reaches
  <2>1. /\ registered[r] \in Sockets /\ registered[r] # s
        /\ socks'[registered[r]] = socks[registered[r]]
    BY <1>2, <1>3 DEF Types
  <2>2. inst[socks[registered[r]].owner].synced
    BY <1>2, <2>1 DEF Answered, Reaches
  <2>3. socks[registered[r]].owner # None
    BY <1>2, <2>1, NoneOutside DEF Owned
  <2> QED
    BY <1>7, <2>1, <2>2, <2>3
<1> QED
  BY <1>8, <1>10, <1>12, <1>13, <1>14, <1>15, <1>16, <1>17, <1>18, <1>19
     DEF Connected

\* The server's close event takes the socket off the registry.
LEMMA ServerCloseConnected ==
    ASSUME Typed, Connected, NEW s \in Sockets, ServerClose(s)
    PROVE  Connected'
<1>1. /\ OneCurrent /\ Starting /\ Timers /\ OneSocket /\ Linked /\ ServerEnds
      /\ Registry /\ JoinedAs /\ JoinsAs /\ Answered /\ Owned /\ Types
  BY DEF Connected, Typed
<1>2. /\ inst' = inst
      /\ \A t \in Sockets : t # s => socks'[t] = socks[t]
      /\ socks[s].state \in {"closing", "free"}
      /\ socks'[s].server = "none" /\ socks'[s].joined = None
      /\ socks'[s].toServer = <<>> /\ socks'[s].state = socks[s].state
      /\ IF socks[s].state = "free" THEN socks'[s].owner = None
         ELSE socks'[s].owner = socks[s].owner
      /\ \A r \in RecordIds :
           registered'[r] = IF r = socks[s].joined /\ registered[r] = s
                            THEN None ELSE registered[r]
  BY <1>1, ServerCloseSteps
<1>3. \A t \in Sockets : socks'[t].owner = socks[t].owner
                         /\ socks'[t].state = socks[t].state
  BY <1>1, <1>2 DEF Owned
<1>4. DOMAIN socks'[s].toServer = {}
  BY <1>2
<1>5. OneCurrent'
  BY <1>1, <1>2 DEF OneCurrent, Current, Alive
<1>6. Starting' /\ Timers' /\ OneSocket'
  BY <1>1, <1>2, <1>3 DEF Starting, Timers, OneSocket, Alive
<1>7. Linked'
  BY <1>1, <1>2, <1>3 DEF Linked
<1>8. ServerEnds'
  BY <1>1, <1>2, <1>4 DEF ServerEnds
<1>9. \A r \in RecordIds : registered'[r] # None =>
        /\ registered'[r] = registered[r] /\ registered[r] \in Sockets
        /\ registered[r] # s
  BY <1>1, <1>2 DEF Registry, Types
<1>10. Registry'
  BY <1>1, <1>2, <1>9 DEF Registry
<1>11. JoinedAs' /\ JoinsAs'
  BY <1>1, <1>2, <1>3, <1>4 DEF JoinedAs, JoinsAs, IsReplica
<1>12. Answered'
  BY <1>1, <1>2, <1>9 DEF Answered, Reaches
<1> QED
  BY <1>5, <1>6, <1>7, <1>8, <1>10, <1>11, <1>12 DEF Connected

\* A join of message m on socket s.
Joined(s, m) ==
    LET i == socks[s].owner IN
    /\ m = Head(socks[s].toServer) /\ m \in MessageType
    /\ m = socks[s].toServer[1] /\ 1 \in DOMAIN socks[s].toServer
    /\ m.type = "join" /\ m.replicaId \in RecordIds /\ m.sinceSeq \in Nat
    /\ socks[s].joined = None /\ log' = log
    /\ registered' \in [RecordIds -> Sockets \cup {None}]
    /\ \A r \in RecordIds :
         registered'[r] = IF r = m.replicaId THEN s ELSE registered[r]
    /\ inst' \in InstType /\ requests' \in RequestsType
    /\ AfterJoin(s, m.replicaId, Reaches(s), inst'[i])
    /\ \A j \in Instances : Alive(j)' <=> Alive(j)
    /\ IF Reaches(s)
       THEN /\ i \in Instances /\ inst[i] \in ClientType
            /\ CaughtUp(inst'[i], inst[i], m.sinceSeq)
            /\ \A j \in Instances : j # i => inst'[j] = inst[j]
            /\ Persisted(inst'[i], {})
       ELSE inst' = inst /\ requests' = requests

\* What a join does is described by Joined.
LEMMA JoinIs ==
    ASSUME Typed, NEW s \in Sockets, socks[s].toServer # <<>>,
           NEW m, m = Head(socks[s].toServer),
           Join(s, m, [socks EXCEPT ![s].toServer = Tail(@)])
    PROVE  Joined(s, m)
<1>1. PICK i : i = socks[s].owner
  OBVIOUS
<1>2. Types /\ Owned
  BY DEF Typed
<1>3. m \in MessageType /\ m = socks[s].toServer[1] /\ 1 \in DOMAIN socks[s].toServer
  BY <1>2, RestSteps
<1>4. /\ m.type = "join" /\ m.replicaId \in RecordIds /\ m.sinceSeq \in Nat
      /\ socks[s].joined = None /\ log' = log
      /\ registered' \in [RecordIds -> Sockets \cup {None}]
      /\ \A r \in RecordIds :
           registered'[r] = IF r = m.replicaId THEN s ELSE registered[r]
      /\ inst' \in InstType /\ requests' \in RequestsType
      /\ AfterJoin(s, m.replicaId, Reaches(s), inst'[i])
      /\ \A j \in Instances : Alive(j)' <=> Alive(j)
      /\ IF Reaches(s)
         THEN /\ i \in Instances /\ inst[i] \in ClientType
              /\ CaughtUp(inst'[i], inst[i], m.sinceSeq)
              /\ \A j \in Instances : j # i => inst'[j] = inst[j]
              /\ Persisted(inst'[i], {})
         ELSE inst' = inst /\ requests' = requests
  BY <1>1, <1>2, JoinSteps
<1> QED
  BY <1>1, <1>3, <1>4 DEF Joined

\* What a join leaves of the instances and of the messages on their way.
LEMMA JoinKeeps ==
    ASSUME Typed, Connected, NEW s \in Sockets, socks[s].toServer # <<>>, NEW m,
           Joined(s, m)
    PROVE  /\ InstancesKeep
           /\ \A t \in Sockets :
                /\ socks'[t].toServer \in Seq(MessageType)
                /\ \A k \in DOMAIN socks'[t].toServer :
                     \/ \E l \in DOMAIN socks[t].toServer :
                          socks'[t].toServer[k] = socks[t].toServer[l]
                     \/ /\ Reaches(s) /\ t = inst[socks[s].owner].ws
                        /\ socks'[t].state = "open"
                        /\ socks'[t].toServer[k] =
                             [type |-> "op", ops |-> inst[socks[s].owner].outbox]
<1>1. PICK i : i = socks[s].owner
  OBVIOUS
<1>2. Types /\ Starting
  BY DEF Typed, Connected
<1>3. IF Reaches(s)
      THEN /\ i \in Instances /\ inst[i] \in ClientType
           /\ SameConnection(inst'[i], inst[i])
           /\ inst'[i].outbox = inst[i].outbox /\ inst'[i].synced
           /\ \A j \in Instances : j # i => inst'[j] = inst[j]
      ELSE inst' = inst
  BY <1>1 DEF Joined, CaughtUp, Learned
<1>4. \A j \in Instances : Alive(j)' <=> Alive(j)
  BY DEF Joined
<1>5. Reaches(s) => inst[i].phase # "init"
  BY <1>1, <1>2, <1>3 DEF Starting
<1>6. InstancesKeep
  BY <1>3, <1>4, <1>5 DEF InstancesKeep, SameConnection
<1> DEFINE flush == [type |-> "op", ops |-> inst'[i].outbox]
<1>7. \A t \in Sockets :
        /\ socks'[t].toServer \in Seq(MessageType)
        /\ \/ socks'[t].toServer = Taken(s, t)
           \/ /\ Reaches(s) /\ t = inst'[i].ws /\ socks'[t].state = "open"
              /\ socks'[t].toServer = Append(Taken(s, t), flush)
  BY <1>1 DEF Joined, AfterJoin, SocksType, SocketType
<1> HIDE DEF flush
<1>8. ASSUME NEW t \in Sockets, NEW k \in DOMAIN socks'[t].toServer
      PROVE  \/ \E l \in DOMAIN socks[t].toServer :
                  socks'[t].toServer[k] = socks[t].toServer[l]
             \/ /\ Reaches(s) /\ t = inst'[i].ws /\ socks'[t].state = "open"
                /\ socks'[t].toServer[k] = flush
  <2>1. /\ Taken(s, t) \in Seq(MessageType)
        /\ \A n \in DOMAIN Taken(s, t) : \E l \in DOMAIN socks[t].toServer :
             Taken(s, t)[n] = socks[t].toServer[l]
    BY <1>2, TakenKept
  <2>2. CASE socks'[t].toServer = Taken(s, t)
    BY <1>8, <2>1, <2>2
  <2>3. CASE /\ Reaches(s) /\ t = inst'[i].ws /\ socks'[t].state = "open"
             /\ socks'[t].toServer = Append(Taken(s, t), flush)
    <3>1. \/ /\ k \in DOMAIN Taken(s, t)
             /\ socks'[t].toServer[k] = Taken(s, t)[k]
          \/ socks'[t].toServer[k] = flush
      BY <2>1, <2>3, <1>8
    <3> QED
      BY <2>1, <2>3, <3>1
  <2> QED
    BY <1>7, <2>2, <2>3
<1>9. Reaches(s) => /\ inst'[i].ws = inst[i].ws
                    /\ flush = [type |-> "op", ops |-> inst[i].outbox]
  BY <1>3 DEF SameConnection, flush
<1> QED
  BY <1>1, <1>6, <1>7, <1>8, <1>9

\* The server takes the join of a socket.
LEMMA JoinConnected ==
    ASSUME Typed, Connected, NEW s \in Sockets, socks[s].toServer # <<>>, NEW m,
           Joined(s, m)
    PROVE  Connected'
<1>1. /\ OneCurrent /\ Starting /\ Timers /\ OneSocket /\ Linked /\ ServerEnds
      /\ Registry /\ JoinedAs /\ JoinsAs /\ Answered /\ Owned /\ Types
  BY DEF Connected, Typed
<1>2. InstancesKeep
  BY JoinKeeps
<1>3. /\ m = socks[s].toServer[1] /\ 1 \in DOMAIN socks[s].toServer
      /\ m.type = "join" /\ m.replicaId \in RecordIds /\ socks[s].joined = None
      /\ \A r \in RecordIds :
           registered'[r] = IF r = m.replicaId THEN s ELSE registered[r]
      /\ Reaches(s) => inst'[socks[s].owner].synced
  BY DEF Joined, CaughtUp, Learned
<1>4. \A t \in Sockets :
        /\ socks'[t].owner = socks[t].owner /\ socks'[t].server = socks[t].server
        /\ socks'[t].joined = (IF t = s THEN m.replicaId ELSE socks[t].joined)
        /\ socks'[t].state \in {"connecting", "open"} =>
             socks'[t].state = socks[t].state
  BY DEF Joined, AfterJoin
<1>5. socks[s].server # "none"
  BY <1>1, <1>3 DEF ServerEnds
<1>6. \A t \in Sockets : \A k \in DOMAIN socks'[t].toServer :
        \/ \E l \in DOMAIN socks[t].toServer :
             socks'[t].toServer[k] = socks[t].toServer[l]
        \/ socks'[t].state = "open" /\ socks'[t].toServer[k].type # "join"
  <2> SUFFICES ASSUME NEW t \in Sockets, NEW k \in DOMAIN socks'[t].toServer
               PROVE  \/ \E l \in DOMAIN socks[t].toServer :
                           socks'[t].toServer[k] = socks[t].toServer[l]
                      \/ /\ socks'[t].state = "open"
                         /\ socks'[t].toServer[k].type # "join"
    OBVIOUS
  <2>1. \/ \E l \in DOMAIN socks[t].toServer :
             socks'[t].toServer[k] = socks[t].toServer[l]
        \/ /\ socks'[t].state = "open"
           /\ socks'[t].toServer[k] =
                [type |-> "op", ops |-> inst[socks[s].owner].outbox]
    BY JoinKeeps
  <2> QED
    BY <2>1
<1>7. \A t \in Sockets : socks[t].owner # None =>
        socks[t].owner \in Instances /\ Alive(socks[t].owner)
  BY <1>1 DEF Owned
<1>8. OneCurrent'
  BY <1>1, <1>2 DEF OneCurrent, InstancesKeep, Current
<1>9. \A i \in Instances : inst'[i].phase = "init" =>
        Alive(i) /\ inst[i].phase = "init"
  BY <1>2 DEF InstancesKeep, Alive
<1>10. Starting' /\ Timers'
  BY <1>1, <1>2, <1>4, <1>9 DEF Starting, Timers, InstancesKeep
<1>11. OneSocket'
  BY <1>1, <1>4 DEF OneSocket
<1>12. Linked'
  BY <1>1, <1>2, <1>4, <1>7, NoneOutside DEF Linked, InstancesKeep, Owned
<1>13. ServerEnds'
  <2> SUFFICES ASSUME NEW t \in Sockets
               PROVE  /\ socks[t].server = "none" =>
                           /\ socks'[t].joined = None
                           /\ DOMAIN socks'[t].toServer = {}
                      /\ socks'[t].state = "connecting" =>
                           socks[t].server = "none"
                      /\ socks'[t].state = "open" => socks[t].server = "open"
    BY <1>4 DEF ServerEnds
  <2>1. /\ socks'[t].state = "connecting" => socks[t].server = "none"
        /\ socks'[t].state = "open" => socks[t].server = "open"
    BY <1>1, <1>4 DEF ServerEnds
  <2>2. ASSUME socks[t].server = "none"
        PROVE  socks'[t].joined = None /\ DOMAIN socks'[t].toServer = {}
    <3>1. t # s /\ socks[t].joined = None /\ DOMAIN socks[t].toServer = {}
      BY <1>1, <1>5, <2>2 DEF ServerEnds
    <3>2. socks'[t].state # "open"
      BY <2>1, <2>2
    <3> QED
      BY <1>4, <1>6, <3>1, <3>2
  <2> QED
    BY <2>1, <2>2
<1>14. \A r \in RecordIds : r # m.replicaId /\ registered[r] # None =>
         registered[r] \in Sockets /\ registered[r] # s
  BY <1>1, <1>3, NoneOutside DEF Registry, Types
<1>15. Registry'
  BY <1>1, <1>3, <1>4, <1>14 DEF Registry
<1>17. socks[s].owner # None => IsReplica(socks[s].owner, m.replicaId)
  BY <1>1, <1>3 DEF JoinsAs
<1>18. JoinedAs'
  <2> SUFFICES ASSUME NEW t \in Sockets, socks'[t].joined # None,
                      socks[t].owner # None
               PROVE  /\ inst'[socks[t].owner].phase = "ready"
                      /\ inst'[socks[t].owner].replicaId = socks'[t].joined
    BY <1>4 DEF JoinedAs, IsReplica
  <2>1. /\ inst[socks[t].owner].phase = "ready"
        /\ inst[socks[t].owner].replicaId = socks'[t].joined
    BY <1>1, <1>4, <1>17 DEF JoinedAs, IsReplica
  <2> QED
    BY <1>2, <1>7, <2>1 DEF InstancesKeep
<1>19. JoinsAs'
  <2> SUFFICES ASSUME NEW t \in Sockets, NEW k \in DOMAIN socks'[t].toServer,
                      socks'[t].toServer[k].type = "join"
               PROVE  /\ socks'[t].toServer[k].replicaId # None
                      /\ socks'[t].owner # None =>
                           /\ inst'[socks'[t].owner].phase = "ready"
                           /\ inst'[socks'[t].owner].replicaId =
                                socks'[t].toServer[k].replicaId
    BY DEF JoinsAs, IsReplica
  <2>1. PICK l \in DOMAIN socks[t].toServer :
          socks'[t].toServer[k] = socks[t].toServer[l]
    BY <1>6
  <2>2. /\ socks[t].toServer[l].replicaId # None
        /\ socks[t].owner # None =>
             /\ inst[socks[t].owner].phase = "ready"
             /\ inst[socks[t].owner].replicaId = socks[t].toServer[l].replicaId
    BY <1>1, <2>1 DEF JoinsAs, IsReplica
  <2> QED
    BY <1>2, <1>4, <1>7, <2>1, <2>2 DEF InstancesKeep
<1>20. Answered'
  <2> SUFFICES ASSUME NEW r \in RecordIds, registered'[r] # None,
                      socks'[registered'[r]].state = "open"
               PROVE  inst'[socks'[registered'[r]].owner].synced
    BY DEF Answered, Reaches
  <2>1. CASE r = m.replicaId
    <3>1. registered'[r] = s /\ Reaches(s)
      BY <1>3, <1>4, <2>1, NoneOutside DEF Reaches
    <3> QED
      BY <1>3, <1>4, <3>1
  <2>2. CASE r # m.replicaId
    <3>1. /\ registered'[r] = registered[r] /\ registered[r] \in Sockets
          /\ socks[registered[r]].state = "open"
      BY <1>3, <1>4, <1>14, <2>2
    <3>2. inst[socks[registered[r]].owner].synced
      BY <1>1, <3>1, NoneOutside DEF Answered, Reaches
    <3>3. /\ socks[registered[r]].owner \in Instances
          /\ Alive(socks[registered[r]].owner)
      BY <1>1, <3>1 DEF Owned
    <3> QED
      BY <1>2, <1>4, <3>1, <3>2, <3>3 DEF InstancesKeep
  <2> QED
    BY <2>1, <2>2
<1> QED
  BY <1>8, <1>10, <1>11, <1>12, <1>13, <1>15, <1>18, <1>19, <1>20 DEF Connected

\* At first there are no instances and no sockets.
LEMMA InitConnected == Init => Connected
<1> SUFFICES ASSUME Init PROVE Connected
  OBVIOUS
<1>1. /\ \A i \in Instances : inst[i].phase = "none"
      /\ \A s \in Sockets : socks[s] = FreeSocket
      /\ \A r \in RecordIds : registered[r] = None
  BY DEF Init, NoInstance
<1>2. \A s \in Sockets : /\ socks[s].owner = None /\ socks[s].state = "free"
                         /\ socks[s].server = "none" /\ socks[s].joined = None
                         /\ DOMAIN socks[s].toServer = {}
  BY <1>1 DEF FreeSocket
<1>3. OneCurrent /\ Starting /\ Timers
  BY <1>1 DEF OneCurrent, Starting, Timers, Current, Alive
<1>4. OneSocket /\ Linked /\ ServerEnds /\ JoinedAs /\ JoinsAs
  BY <1>2 DEF OneSocket, Linked, ServerEnds, JoinedAs, JoinsAs
<1>5. Registry /\ Answered
  BY <1>1 DEF Registry, Answered, Reaches
<1> QED
  BY <1>3, <1>4, <1>5 DEF Connected

\* A message that the server takes is refused, a join or one of operations.
LEMMA DispatchIs ==
    ASSUME Typed, NEW s \in Sockets, DispatchMessage(s)
    PROVE  /\ socks[s].toServer # <<>>
           /\ \E m : \/ Refuse(s, m, [socks EXCEPT ![s].toServer = Tail(@)])
                     \/ Joined(s, m)
                     \/ \E fresh \in Ops : Applied(s, m, fresh)
<1>1. PICK m : m = Head(socks[s].toServer)
  OBVIOUS
<1>2. /\ socks[s].toServer # <<>>
      /\ \/ Refuse(s, m, [socks EXCEPT ![s].toServer = Tail(@)])
         \/ Join(s, m, [socks EXCEPT ![s].toServer = Tail(@)])
         \/ ApplyClientOp(s, m, [socks EXCEPT ![s].toServer = Tail(@)])
  BY <1>1 DEF DispatchMessage
<1>3. CASE Refuse(s, m, [socks EXCEPT ![s].toServer = Tail(@)])
  BY <1>2, <1>3
<1>4. CASE Join(s, m, [socks EXCEPT ![s].toServer = Tail(@)])
  <2>1. Joined(s, m)
    BY <1>1, <1>2, <1>4, JoinIs
  <2> QED
    BY <1>2, <2>1
<1>5. CASE ApplyClientOp(s, m, [socks EXCEPT ![s].toServer = Tail(@)])
  <2>1. \E fresh \in Ops : Applied(s, m, fresh)
    BY <1>1, <1>2, <1>5, ApplyIs
  <2> QED
    BY <1>2, <2>1
<1> QED
  BY <1>2, <1>3, <1>4, <1>5

\* Every step keeps the connection invariant.
LEMMA NextConnected ==
    ASSUME Typed, Connected, ~QuickReturn, [Next]_vars
    PROVE  Connected'
<1>1. CASE UNCHANGED vars
  <2>1. inst' = inst /\ socks' = socks /\ registered' = registered
    BY <1>1 DEF vars
  <2>2. InstancesKeep /\ SocketsKeep
    BY <2>1 DEF InstancesKeep, Alive, SocketsKeep, Connected, ServerEnds
  <2> QED
    BY <2>1, <2>2, ConnectionKept
<1>2. CASE Mount
  BY <1>2, MountConnected
<1>3. CASE ClosePage
  BY <1>3, ClosePageConnected
<1>4. CASE ServeDocuments \/ ServeOutbox \/ ServeReplica
  BY <1>4, ServeConnected
<1>5. CASE RemoteEdit
  BY <1>5, RemoteEditConnected
<1>6. ASSUME NEW i \in Instances, Dispose(i) \/ GoOffline(i)
      PROVE  Connected'
  BY <1>6, ClosingConnected
<1>7. ASSUME NEW i \in Instances, FinishInit(i) \/ Reconnect(i) \/ GoOnline(i)
      PROVE  Connected'
  BY <1>7, ConnectingConnected
<1>8. ASSUME NEW i \in Instances, Edit(i)
      PROVE  Connected'
  BY <1>8, EditConnected
<1>9. ASSUME NEW s \in Sockets, Open(s)
      PROVE  Connected'
  BY <1>9, OpenConnected
<1>10. ASSUME NEW s \in Sockets, Break(s)
       PROVE  Connected'
  BY <1>10, BreakConnected
<1>11. ASSUME NEW s \in Sockets, CloseEvent(s)
       PROVE  Connected'
  BY <1>11, CloseEventConnected
<1>12. ASSUME NEW s \in Sockets, ServerClose(s)
       PROVE  Connected'
  BY <1>12, ServerCloseConnected
<1>13. ASSUME NEW s \in Sockets, DispatchMessage(s)
       PROVE  Connected'
  BY <1>13, DispatchIs, RefuseConnected, JoinConnected, ApplyConnected
<1> QED
  BY <1>1, <1>2, <1>3, <1>4, <1>5, <1>6, <1>7, <1>8, <1>9, <1>10, <1>11, <1>12,
     <1>13 DEF Next

-----------------------------------------------------------------------------
(* Where an operation of this browser is *)

\* Those whose outbox record is asked for, and those on their way to the server.
Pending == {requests.outbox[k].op :
              k \in {n \in DOMAIN requests.outbox :
                       requests.outbox[n].call = "put"}}

SentOn(s) == UNION {socks[s].toServer[k].ops :
                      k \in {n \in DOMAIN socks[s].toServer :
                               socks[s].toServer[n].type = "op"}}
Wire == UNION {SentOn(s) : s \in Sockets}

PageOpen == \E i \in Instances : Alive(i)

\* All of them were made here, but for what the author elsewhere has saved.
FromHere ==
    /\ stored \subseteq made /\ Pending \subseteq made /\ Wire \subseteq made
    /\ db.outbox \subseteq stored /\ blind \subseteq made
    /\ \A op \in Saved : op.id.replicaId = Elsewhere \/ op \in made

\* What an instance holds is recorded or will be, and so is what it has sent.
Held == \A i \in Instances : Alive(i) =>
    /\ inst[i].outbox \subseteq stored \cup Pending
    /\ inst[i].read.outbox # None => inst[i].read.outbox \subseteq stored

SentKept == PageOpen \/ ~torn => Wire \subseteq stored \cup Pending

\* A record goes only when the server has saved an operation of its id.
Deletes == \A k \in DOMAIN requests.outbox :
    requests.outbox[k].call = "delete" => requests.outbox[k].key \in Ids(Saved)

StoredIds == Ids(stored) \subseteq Ids(Saved) \cup Ids(db.outbox)

\* Before init resolves an instance has what it made itself, which are the only
\* records that are asked for after its own request to read them.
TempsOnly == \A i \in Instances : inst[i].phase = "init" =>
    \A op \in inst[i].outbox : op.id.replicaId = <<"temp", i>>

AfterGet == \A i \in Instances : inst[i].phase = "init" /\ Current(i) =>
    \A p, q \in DOMAIN requests.outbox :
      /\ p < q /\ requests.outbox[p].call = "get" /\ requests.outbox[p].by = i
      /\ requests.outbox[q].call = "put"
      => requests.outbox[q].op.id \in Ids(inst[i].outbox)

\* The current instance has every id that is recorded and not saved.
HasRead == \A i \in Instances :
    inst[i].phase = "init" /\ Current(i) /\ inst[i].read.outbox # None =>
      Ids(stored \cup Pending) \subseteq
        Ids(Saved) \cup Ids(inst[i].outbox) \cup Ids(inst[i].read.outbox)

Remembers == \A i \in Instances : inst[i].phase = "ready" /\ Current(i) =>
    Ids(stored \cup Pending) \subseteq Ids(Saved) \cup Ids(inst[i].outbox)

Covered ==
    /\ FromHere /\ Held /\ SentKept /\ Deletes /\ StoredIds /\ TempsOnly
    /\ AfterGet /\ HasRead /\ Remembers

\* The instances keep what they hold, but for what is saved.
HoldingsKeep ==
    \A i \in Instances :
      /\ Alive(i)' <=> Alive(i)
      /\ Current(i)' => Current(i)
      /\ Alive(i) =>
           /\ inst'[i].phase = inst[i].phase
           /\ inst'[i].read.outbox = inst[i].read.outbox
           /\ inst'[i].outbox \subseteq inst[i].outbox
           /\ Ids(inst[i].outbox) \subseteq Ids(inst'[i].outbox) \cup Ids(Saved')
           /\ inst[i].phase = "init" => inst'[i].outbox = inst[i].outbox

\* Nothing but removals of what is saved is asked of the outbox.
RequestsKeep ==
    /\ \A k \in DOMAIN requests.outbox :
         /\ k \in DOMAIN requests'.outbox
         /\ requests'.outbox[k] = requests.outbox[k]
    /\ \A k \in DOMAIN requests'.outbox :
         \/ k \in DOMAIN requests.outbox
         \/ /\ requests'.outbox[k].call = "delete"
            /\ requests'.outbox[k].key \in Ids(Saved')

\* What is sent is what an instance holds, and saved is what was sent.
WireKeeps == \A op \in Wire' : \/ op \in Wire
                               \/ \E i \in Instances :
                                    Alive(i) /\ op \in inst[i].outbox
SavedKeeps ==
    /\ Saved \subseteq Saved'
    /\ \A op \in Saved' : \/ op \in Saved \/ op \in Wire
                          \/ op.id.replicaId = Elsewhere

RecordsKeep ==
    /\ db'.outbox = db.outbox /\ made' = made /\ stored' = stored
    /\ blind' = blind /\ torn' = torn

\* The ids of more operations are more ids.
LEMMA IdsMonotone ==
    ASSUME NEW S, NEW T, S \subseteq T
    PROVE  Ids(S) \subseteq Ids(T)
BY DEF Ids

\* The ids of a union.
LEMMA IdsUnion ==
    ASSUME NEW S, NEW T
    PROVE  Ids(S \cup T) = Ids(S) \cup Ids(T)
BY DEF Ids

\* What is pending, by the requests.
LEMMA PendingIs ==
    \A op : op \in Pending <=>
      \E k \in DOMAIN requests.outbox :
        requests.outbox[k].call = "put" /\ requests.outbox[k].op = op
BY DEF Pending

\* What is on the wire, by the messages.
LEMMA WireIs ==
    \A op : op \in Wire <=>
      \E s \in Sockets : \E k \in DOMAIN socks[s].toServer :
        socks[s].toServer[k].type = "op" /\ op \in socks[s].toServer[k].ops
BY DEF Wire, SentOn

\* A step that leaves the records, keeps the coverage.
LEMMA CoverageKept ==
    ASSUME Covered, HoldingsKeep, RequestsKeep, WireKeeps, SavedKeeps, RecordsKeep
    PROVE  Covered'
<1>1. /\ FromHere /\ Held /\ SentKept /\ Deletes /\ StoredIds /\ TempsOnly
      /\ AfterGet /\ HasRead /\ Remembers
  BY DEF Covered
<1>2. Pending' = Pending
  <2>1. \A k \in DOMAIN requests'.outbox : requests'.outbox[k].call = "put" =>
          k \in DOMAIN requests.outbox
    BY DEF RequestsKeep
  <2> QED
    BY <2>1 DEF Pending, RequestsKeep
<1>3. Ids(Saved) \subseteq Ids(Saved')
  BY IdsMonotone DEF SavedKeeps
<1>4. PageOpen' <=> PageOpen
  BY DEF PageOpen, HoldingsKeep
<1>5. \A op \in Wire' : op \in Wire \/ (PageOpen /\ op \in stored \cup Pending)
  BY <1>1 DEF WireKeeps, Held, PageOpen
<1>6. FromHere'
  BY <1>1, <1>2, <1>5 DEF FromHere, RecordsKeep, SavedKeeps
<1>7. Held'
  BY <1>1, <1>2 DEF Held, RecordsKeep, HoldingsKeep
<1>8. SentKept'
  BY <1>1, <1>2, <1>4, <1>5 DEF SentKept, RecordsKeep
<1>9. Deletes'
  BY <1>1, <1>3 DEF Deletes, RequestsKeep
<1>10. StoredIds'
  BY <1>1, <1>3 DEF StoredIds, RecordsKeep
<1>11. \A i \in Instances : inst'[i].phase = "init" =>
         /\ Alive(i) /\ inst[i].phase = "init" /\ inst'[i].outbox = inst[i].outbox
         /\ inst'[i].read.outbox = inst[i].read.outbox
  BY DEF HoldingsKeep, Alive
<1>12. TempsOnly'
  BY <1>1, <1>11 DEF TempsOnly
<1>13. AfterGet'
  <2> SUFFICES ASSUME NEW i \in Instances, inst'[i].phase = "init", Current(i)',
                      NEW p \in DOMAIN requests'.outbox,
                      NEW q \in DOMAIN requests'.outbox, p < q,
                      requests'.outbox[p].call = "get",
                      requests'.outbox[p].by = i, requests'.outbox[q].call = "put"
               PROVE  requests'.outbox[q].op.id \in Ids(inst'[i].outbox)
    BY DEF AfterGet
  <2>1. p \in DOMAIN requests.outbox /\ q \in DOMAIN requests.outbox
    BY DEF RequestsKeep
  <2>2. Current(i) /\ inst[i].phase = "init" /\ inst'[i].outbox = inst[i].outbox
    BY <1>11 DEF HoldingsKeep
  <2> QED
    BY <1>1, <2>1, <2>2 DEF AfterGet, RequestsKeep
<1>14. HasRead'
  <2> SUFFICES ASSUME NEW i \in Instances, inst'[i].phase = "init", Current(i)',
                      inst'[i].read.outbox # None
               PROVE  Ids(stored \cup Pending) \subseteq
                        Ids(Saved') \cup Ids(inst'[i].outbox)
                          \cup Ids(inst'[i].read.outbox)
    BY <1>2 DEF HasRead, RecordsKeep
  <2>1. Current(i)
    BY DEF HoldingsKeep
  <2> QED
    BY <1>1, <1>3, <1>11, <2>1 DEF HasRead
<1>15. Remembers'
  <2> SUFFICES ASSUME NEW i \in Instances, inst'[i].phase = "ready", Current(i)'
               PROVE  Ids(stored \cup Pending) \subseteq
                        Ids(Saved') \cup Ids(inst'[i].outbox)
    BY <1>2 DEF Remembers, RecordsKeep
  <2>1. Current(i) /\ Alive(i) /\ inst[i].phase = "ready"
    BY DEF HoldingsKeep, Current
  <2> QED
    BY <1>1, <1>3, <2>1 DEF Remembers, HoldingsKeep
<1> QED
  BY <1>6, <1>7, <1>8, <1>9, <1>10, <1>12, <1>13, <1>14, <1>15 DEF Covered

\* A step of the connection: it leaves what is recorded, saved and known.
SameRecords ==
    /\ db' = db /\ requests' = requests /\ log' = log /\ made' = made
    /\ stored' = stored /\ blind' = blind /\ torn' = torn

SameInstances ==
    \A i \in Instances :
      /\ Alive(i)' <=> Alive(i)
      /\ Current(i)' => Current(i)
      /\ Alive(i) => SameKnowledge(inst'[i], inst[i])

SameMessages ==
    \A s \in Sockets : \A k \in DOMAIN socks'[s].toServer :
      /\ socks'[s].owner \in {socks[s].owner, None}
      /\ \/ \E l \in DOMAIN socks[s].toServer :
              socks'[s].toServer[k] = socks[s].toServer[l]
         \/ /\ socks[s].owner \in Instances
            /\ inst[socks[s].owner].phase = "ready"
            /\ socks'[s].toServer[k] = JoinOf(inst[socks[s].owner])

SameReached ==
    \A r \in RecordIds :
      registered'[r] # None /\ socks'[registered'[r]].state = "open" =>
        /\ registered'[r] = registered[r] /\ registered[r] \in Sockets
        /\ socks[registered[r]].state = "open"
        /\ socks'[registered[r]].owner = socks[registered[r]].owner

Quiet == SameRecords /\ SameInstances /\ SameMessages /\ SameReached

\* The client lets go of its socket.
LEMMA ClosingQuiet ==
    ASSUME Typed, Connected, NEW i \in Instances, Dispose(i) \/ GoOffline(i)
    PROVE  Quiet
<1>1. /\ inst[i] \in ClientType /\ ClosedAt(inst[i].ws)
      /\ \A j \in Instances : j # i => inst'[j] = inst[j]
      /\ \A j \in Instances : Alive(j)' <=> Alive(j)
      /\ SameKnowledge(inst'[i], inst[i])
      /\ inst[i].closedByUser => inst'[i].closedByUser
  BY DisposeSteps, GoOfflineSteps DEF Typed
<1>2. registered' = registered /\ Types
  BY DEF Dispose, GoOffline, Typed
<1>3. SameRecords
  BY DEF Dispose, GoOffline, SameRecords, histVars
<1>4. SameInstances
  BY <1>1 DEF SameInstances, Current, SameKnowledge
<1>5. SameMessages
  BY <1>1 DEF SameMessages, ClosedAt
<1>6. SameReached
  BY <1>1, <1>2 DEF SameReached, ClosedAt, Types
<1> QED
  BY <1>3, <1>4, <1>5, <1>6 DEF Quiet

\* The client connects again.
LEMMA ConnectingQuiet ==
    ASSUME Typed, Connected, NEW i \in Instances, Reconnect(i) \/ GoOnline(i)
    PROVE  Quiet
<1>1. /\ \A j \in Instances : j # i => inst'[j] = inst[j]
      /\ \A j \in Instances : Alive(j)' <=> Alive(j)
      /\ SameKnowledge(inst'[i], inst[i])
      /\ inst'[i].closedByUser = inst[i].closedByUser
      /\ \/ socks' = socks
         \/ inst'[i].ws \in Sockets /\ ConnectedAt(inst'[i].ws, i)
  BY ConnectAgainSteps DEF Typed
<1>2. registered' = registered /\ Types
  BY DEF Reconnect, GoOnline, Typed
<1>3. SameRecords
  BY DEF Reconnect, GoOnline, SameRecords, histVars
<1>4. SameInstances
  BY <1>1 DEF SameInstances, Current, SameKnowledge
<1>5. \A s \in Sockets : \/ socks'[s] = socks[s]
                         \/ /\ DOMAIN socks'[s].toServer = {}
                            /\ socks'[s].state = "connecting"
  BY <1>1 DEF ConnectedAt
<1>6. SameMessages
  BY <1>5 DEF SameMessages
<1>7. SameReached
  BY <1>2, <1>5 DEF SameReached, Types
<1> QED
  BY <1>3, <1>4, <1>6, <1>7 DEF Quiet

\* The open event.
LEMMA OpenQuiet ==
    ASSUME Typed, Connected, NEW s \in Sockets, Open(s)
    PROVE  Quiet
<1>1. PICK i : i = socks[s].owner
  OBVIOUS
<1>2. Types /\ Owned /\ Starting /\ Registry /\ ServerEnds
  BY DEF Typed, Connected
<1>3. /\ i \in Instances /\ inst[i] \in ClientType
      /\ \A j \in Instances : j # i => inst'[j] = inst[j]
      /\ \A j \in Instances : Alive(j)' <=> Alive(j)
      /\ SameKnowledge(inst'[i], inst[i]) /\ SameConnection(inst'[i], inst[i])
      /\ socks[s].state = "connecting"
      /\ \A t \in Sockets :
           /\ socks'[t].owner = socks[t].owner
           /\ socks'[t].state = IF t = s THEN "open" ELSE socks[t].state
           /\ socks'[t].toServer =
                IF /\ inst[i].ws # None /\ t = inst[i].ws
                   /\ t = s \/ socks[t].state = "open"
                THEN Append(socks[t].toServer, JoinOf(inst[i]))
                ELSE socks[t].toServer
  BY <1>1, <1>2, OpenSteps
<1>4. registered' = registered
  BY DEF Open
<1>5. SameRecords
  BY DEF Open, SameRecords, histVars
<1>6. SameInstances
  BY <1>3 DEF SameInstances, Current, SameKnowledge, SameConnection
<1>7. inst[i].phase = "ready"
  BY <1>1, <1>2, <1>3 DEF Starting, ClientType
<1> DEFINE join == JoinOf(inst[i])
<1>8. \A t \in Sockets :
        \/ socks'[t].toServer = socks[t].toServer
        \/ t = inst[i].ws /\ socks'[t].toServer = Append(socks[t].toServer, join)
  BY <1>3
<1> HIDE DEF join
<1>9. SameMessages
  <2> SUFFICES ASSUME NEW t \in Sockets, NEW k \in DOMAIN socks'[t].toServer
               PROVE  \/ \E l \in DOMAIN socks[t].toServer :
                           socks'[t].toServer[k] = socks[t].toServer[l]
                      \/ /\ socks[t].owner = i
                         /\ socks'[t].toServer[k] = join
    BY <1>3, <1>7 DEF SameMessages, join
  <2>1. socks[t].toServer \in Seq(MessageType)
    BY <1>2 DEF Types, SocksType, SocketType
  <2>2. CASE socks'[t].toServer = socks[t].toServer
    BY <2>2
  <2>3. CASE /\ t = inst[i].ws
             /\ socks'[t].toServer = Append(socks[t].toServer, join)
    <3>1. k \in 1..Len(socks[t].toServer) \/ k = Len(socks[t].toServer) + 1
      BY <2>1, <2>3
    <3>2. socks[t].owner = i
      BY <1>2, <1>3, <1>7, <2>3, NoneOutside DEF Owned, Alive
    <3> QED
      BY <2>1, <2>3, <3>1, <3>2
  <2> QED
    BY <1>8, <2>2, <2>3
<1>10. SameReached
  <2> SUFFICES ASSUME NEW r \in RecordIds, registered[r] # None,
                      socks'[registered[r]].state = "open"
               PROVE  registered[r] \in Sockets /\ registered[r] # s
    BY <1>3, <1>4 DEF SameReached
  <2>1. registered[r] \in Sockets /\ socks[registered[r]].joined = r
    BY <1>2 DEF Types, Registry
  <2> QED
    BY <1>2, <1>3, <2>1, NoneOutside DEF ServerEnds
<1> QED
  BY <1>5, <1>6, <1>9, <1>10 DEF Quiet

\* A connection breaks, or one of its ends has been told.
LEMMA EndingQuiet ==
    ASSUME Typed, Connected, NEW s \in Sockets,
           Break(s) \/ CloseEvent(s) \/ ServerClose(s)
    PROVE  Quiet
<1>1. Types /\ Owned /\ Registry
  BY DEF Typed, Connected
<1>2. CASE Break(s)
  <2>1. /\ inst' = inst
        /\ \A t \in Sockets :
             /\ socks'[t].owner = socks[t].owner
             /\ socks'[t].state = IF t = s THEN "closing" ELSE socks[t].state
             /\ t # s => socks'[t].toServer = socks[t].toServer
        /\ \A k \in DOMAIN socks'[s].toServer :
             /\ k \in DOMAIN socks[s].toServer
             /\ socks'[s].toServer[k] = socks[s].toServer[k]
    BY <1>1, <1>2, BreakSteps
  <2>2. SameRecords /\ registered' = registered
    BY <1>2 DEF Break, SameRecords, histVars
  <2>3. SameInstances
    BY <2>1 DEF SameInstances, Alive, Current, SameKnowledge
  <2>4. SameMessages
    BY <2>1 DEF SameMessages
  <2>5. SameReached
    BY <1>1, <2>1, <2>2 DEF SameReached, Types
  <2> QED
    BY <2>2, <2>3, <2>4, <2>5 DEF Quiet
<1>3. CASE CloseEvent(s)
  <2>1. PICK i : i = socks[s].owner
    OBVIOUS
  <2>2. /\ i \in Instances
        /\ \A j \in Instances : j # i => inst'[j] = inst[j]
        /\ \A j \in Instances : Alive(j)' <=> Alive(j)
        /\ SameKnowledge(inst'[i], inst[i])
        /\ inst'[i].closedByUser = inst[i].closedByUser
        /\ \A t \in Sockets : t # s => socks'[t] = socks[t]
        /\ socks'[s].owner = None /\ socks'[s].state = "free"
        /\ IF socks[s].server = "none" THEN socks'[s] = FreeSocket
           ELSE socks'[s].toServer = socks[s].toServer
    BY <1>1, <1>3, <2>1, CloseEventSteps
  <2>3. SameRecords /\ registered' = registered
    BY <1>3 DEF CloseEvent, SameRecords, histVars
  <2>4. SameInstances
    BY <2>2 DEF SameInstances, Current, SameKnowledge
  <2>5. DOMAIN socks'[s].toServer = {} \/ socks'[s].toServer = socks[s].toServer
    BY <2>2 DEF FreeSocket
  <2>6. SameMessages
    BY <2>2, <2>5 DEF SameMessages
  <2>7. SameReached
    BY <1>1, <2>2, <2>3 DEF SameReached, Types
  <2> QED
    BY <2>3, <2>4, <2>6, <2>7 DEF Quiet
<1>4. CASE ServerClose(s)
  <2>1. /\ inst' = inst
        /\ \A t \in Sockets : t # s => socks'[t] = socks[t]
        /\ socks'[s].toServer = <<>> /\ socks'[s].state = socks[s].state
        /\ socks[s].state \in {"closing", "free"}
        /\ \A r \in RecordIds :
             registered'[r] = IF r = socks[s].joined /\ registered[r] = s
                              THEN None ELSE registered[r]
    BY <1>1, <1>4, ServerCloseSteps
  <2>2. DOMAIN socks'[s].toServer = {}
    BY <2>1
  <2>3. SameRecords
    BY <1>4 DEF ServerClose, SameRecords, histVars
  <2>4. SameInstances
    BY <2>1 DEF SameInstances, Alive, Current, SameKnowledge
  <2>5. SameMessages
    BY <2>1, <2>2 DEF SameMessages
  <2>6. SameReached
    BY <1>1, <2>1 DEF SameReached, Types
  <2> QED
    BY <2>3, <2>4, <2>5, <2>6 DEF Quiet
<1> QED
  BY <1>2, <1>3, <1>4

\* A message is refused.
LEMMA RefuseQuiet ==
    ASSUME Typed, NEW s \in Sockets, socks[s].toServer # <<>>, NEW m,
           Refuse(s, m, [socks EXCEPT ![s].toServer = Tail(@)]),
           UNCHANGED <<db, histVars>>
    PROVE  Quiet
<1>1. /\ socks' = [socks EXCEPT ![s].toServer = Tail(@)]
      /\ inst' = inst /\ registered' = registered /\ Types
  BY DEF Refuse, Typed
<1>2. OneTaken(socks', s)
  BY <1>1, RestSteps
<1>3. SameRecords
  BY DEF Refuse, SameRecords, histVars
<1>4. SameInstances
  BY <1>1 DEF SameInstances, Alive, Current, SameKnowledge
<1>5. SameMessages
  BY <1>1, <1>2, TakenKept DEF SameMessages, OneTaken
<1>6. SameReached
  BY <1>1, <1>2 DEF SameReached, OneTaken, Types
<1> QED
  BY <1>3, <1>4, <1>5, <1>6 DEF Quiet

\* A step of the connection sends no operation.
LEMMA QuietWire ==
    ASSUME SameMessages
    PROVE  Wire' \subseteq Wire
<1> SUFFICES ASSUME NEW op, NEW s \in Sockets,
                    NEW k \in DOMAIN socks'[s].toServer,
                    socks'[s].toServer[k].type = "op",
                    op \in socks'[s].toServer[k].ops
             PROVE  op \in Wire
  BY DEF Wire, SentOn
<1>1. JoinOf(inst[socks[s].owner]).type = "join"
  BY DEF JoinOf
<1>2. PICK l \in DOMAIN socks[s].toServer :
        socks'[s].toServer[k] = socks[s].toServer[l]
  BY <1>1 DEF SameMessages
<1> QED
  BY <1>2, WireIs

\* A step of the connection keeps the coverage.
LEMMA QuietCovered ==
    ASSUME Typed, Covered, Quiet
    PROVE  Covered'
<1>1. SameRecords /\ SameInstances /\ SameMessages
  BY DEF Quiet
<1>2. Saved' = Saved
  BY <1>1 DEF Saved, SameRecords
<1>3. HoldingsKeep
  BY <1>1 DEF HoldingsKeep, SameInstances, SameKnowledge
<1>4. RequestsKeep /\ RecordsKeep /\ SavedKeeps
  BY <1>1, <1>2 DEF RequestsKeep, RecordsKeep, SavedKeeps, SameRecords
<1>5. WireKeeps
  BY <1>1, QuietWire DEF WireKeeps
<1> QED
  BY <1>3, <1>4, <1>5, CoverageKept

\* The other stores say nothing of the outbox.
LEMMA OtherStoresCovered ==
    ASSUME Typed, Covered, ServeDocuments \/ ServeReplica
    PROVE  Covered'
<1>1. /\ requests'.outbox = requests.outbox /\ db'.outbox = db.outbox
      /\ \/ inst' = inst
         \/ \E i, record : \E store \in {"replica", "document"} :
              ReadOf(i, store, record)
  <2>1. CASE ServeDocuments
    <3>1. /\ requests'.outbox = requests.outbox /\ db \in DbType
          /\ \/ \E i : ReadOf(i, "document", db.document) /\ db' = db
             \/ inst' = inst
      BY <2>1, ServeDocumentsSteps DEF Typed, Types
    <3>2. db'.outbox = db.outbox
      BY <2>1 DEF ServeDocuments, Typed, Types, DbType
    <3> QED
      BY <3>1, <3>2
  <2>2. CASE ServeReplica
    BY <2>2, ServeReplicaSteps DEF Typed
  <2> QED
    BY <2>1, <2>2
<1>2. HoldingsKeep
  <2>1. CASE inst' = inst
    BY <2>1 DEF HoldingsKeep, Alive, Current
  <2>2. ASSUME NEW i, NEW record, NEW store \in {"replica", "document"},
               ReadOf(i, store, record)
        PROVE  HoldingsKeep
    BY <2>2 DEF HoldingsKeep, ReadOf, Current
  <2> QED
    BY <1>1, <2>1, <2>2
<1>3. /\ socks' = socks /\ log' = log /\ made' = made /\ stored' = stored
      /\ blind' = blind /\ torn' = torn
  BY DEF ServeDocuments, ServeReplica, histVars
<1>4. Saved' = Saved /\ Wire' = Wire
  BY <1>3 DEF Saved, Wire, SentOn
<1>5. RequestsKeep /\ WireKeeps /\ SavedKeeps /\ RecordsKeep
  BY <1>1, <1>3, <1>4 DEF RequestsKeep, WireKeeps, SavedKeeps, RecordsKeep
<1> QED
  BY <1>2, <1>5, CoverageKept

\* What the author elsewhere types changes views only.
LEMMA RemoteEditIs ==
    ASSUME Typed, RemoteEdit
    PROVE  \E op \in insertOpSchema :
             /\ op.id.replicaId = Elsewhere /\ {op} \in Ops
             /\ Grown({op}) /\ log' = Append(log, op)
             /\ op.id.counter =
                  Cardinality({q \in Saved : q.id.replicaId = Elsewhere}) + 1
             /\ \A i \in Instances :
                  /\ Alive(i)' <=> Alive(i)
                  /\ Heard(i, None) =>
                       /\ inst[i] \in ClientType
                       /\ Learned(inst'[i], inst[i], applyAll(inst[i].view, {op}),
                                  inst[i].outbox, inst[i].lastAckedSeq,
                                  inst[i].synced)
                  /\ ~Heard(i, None) => inst'[i] = inst[i]
<1>1. Types /\ Owned
  BY DEF Typed
<1>2. PICK n : n = Cardinality({q \in Saved : q.id.replicaId = Elsewhere}) + 1
  OBVIOUS
<1>3. PICK op : op = [type |-> "insert", value |-> 0,
                      id |-> [counter |-> n, replicaId |-> Elsewhere]]
  OBVIOUS
<1>4. /\ op \in insertOpSchema /\ {op} \in Ops /\ Grown({op})
      /\ log' = Append(log, op)
      /\ \A i \in Instances :
           /\ Alive(i)' <=> Alive(i)
           /\ Heard(i, None) =>
                /\ inst[i] \in ClientType
                /\ Learned(inst'[i], inst[i], applyAll(inst[i].view, {op}),
                           inst[i].outbox, inst[i].lastAckedSeq, inst[i].synced)
           /\ ~Heard(i, None) => inst'[i] = inst[i]
  BY <1>1, <1>2, <1>3, RemoteEditSteps
<1>5. op.id.replicaId = Elsewhere /\ op.id.counter = n
  BY <1>3
<1> QED
  BY <1>2, <1>4, <1>5

\* Somebody else types.
LEMMA RemoteEditCovered ==
    ASSUME Typed, Covered, RemoteEdit
    PROVE  Covered'
<1>1. PICK op \in insertOpSchema :
        /\ op.id.replicaId = Elsewhere /\ Grown({op})
        /\ \A i \in Instances :
             /\ Alive(i)' <=> Alive(i)
             /\ Heard(i, None) =>
                  Learned(inst'[i], inst[i], applyAll(inst[i].view, {op}),
                          inst[i].outbox, inst[i].lastAckedSeq, inst[i].synced)
             /\ ~Heard(i, None) => inst'[i] = inst[i]
  BY RemoteEditIs
<1>2. HoldingsKeep
  BY <1>1 DEF HoldingsKeep, Learned, SameConnection, Current
<1>3. SavedKeeps
  BY <1>1 DEF SavedKeeps, Grown
<1>4. /\ socks' = socks /\ requests' = requests /\ db' = db /\ made' = made
      /\ stored' = stored /\ blind' = blind /\ torn' = torn
  BY DEF RemoteEdit, histVars
<1>5. RequestsKeep /\ WireKeeps /\ RecordsKeep
  BY <1>4 DEF RequestsKeep, WireKeeps, Wire, SentOn, RecordsKeep
<1> QED
  BY <1>2, <1>3, <1>5, CoverageKept

\* What is sent after a join is an outbox.
LEMMA JoinWire ==
    ASSUME Typed, Connected, NEW s \in Sockets, socks[s].toServer # <<>>,
           NEW m, Joined(s, m)
    PROVE  WireKeeps
<1>1. PICK i : i = socks[s].owner
  OBVIOUS
<1>2. Reaches(s) => i \in Instances /\ inst[i] \in ClientType
  BY <1>1 DEF Joined
<1> SUFFICES ASSUME NEW op, NEW t \in Sockets,
                    NEW k \in DOMAIN socks'[t].toServer,
                    socks'[t].toServer[k].type = "op",
                    op \in socks'[t].toServer[k].ops
             PROVE  op \in Wire \/ \E j \in Instances :
                                     Alive(j) /\ op \in inst[j].outbox
  BY DEF WireKeeps, Wire, SentOn
<1>3. \/ \E l \in DOMAIN socks[t].toServer :
           socks'[t].toServer[k] = socks[t].toServer[l]
      \/ /\ Reaches(s)
         /\ socks'[t].toServer[k] = [type |-> "op", ops |-> inst[i].outbox]
  BY <1>1, JoinKeeps
<1>4. CASE \E l \in DOMAIN socks[t].toServer :
             socks'[t].toServer[k] = socks[t].toServer[l]
  BY <1>4, WireIs
<1>5. CASE /\ Reaches(s)
           /\ socks'[t].toServer[k] = [type |-> "op", ops |-> inst[i].outbox]
  BY <1>2, <1>5, AliveTyped DEF Typed
<1> QED
  BY <1>3, <1>4, <1>5

\* The server takes a join: the instance sends its outbox.
LEMMA JoinCovered ==
    ASSUME Typed, Connected, Covered, NEW s \in Sockets,
           socks[s].toServer # <<>>, NEW m, Joined(s, m),
           UNCHANGED <<db, histVars>>
    PROVE  Covered'
<1>1. PICK i : i = socks[s].owner
  OBVIOUS
<1>2. /\ log' = log /\ \A j \in Instances : Alive(j)' <=> Alive(j)
      /\ IF Reaches(s)
         THEN /\ i \in Instances /\ inst[i] \in ClientType
              /\ SameConnection(inst'[i], inst[i])
              /\ inst'[i].outbox = inst[i].outbox
              /\ \A j \in Instances : j # i => inst'[j] = inst[j]
              /\ Persisted(inst'[i], {})
         ELSE inst' = inst /\ requests' = requests
  BY <1>1 DEF Joined, CaughtUp, Learned
<1>3. Saved' = Saved
  BY <1>2 DEF Saved
<1>4. HoldingsKeep
  BY <1>2 DEF HoldingsKeep, SameConnection, Current
<1>5. RequestsKeep
  <2>1. CASE requests' = requests
    BY <2>1 DEF RequestsKeep
  <2>2. CASE Reaches(s)
    <3>1. /\ requests.outbox \in Seq(OutboxCalls)
          /\ requests'.outbox \in Seq(OutboxCalls)
      BY <1>2, <2>2 DEF Typed, Types, Persisted, RequestsType
    <3>2. /\ Len(requests.outbox) <= Len(requests'.outbox)
          /\ \A k \in 1..Len(requests.outbox) :
               requests'.outbox[k] = requests.outbox[k]
          /\ \A k \in 1..Len(requests'.outbox) : k \in 1..Len(requests.outbox)
      BY <1>2, <2>2 DEF Persisted
    <3> QED
      BY <3>1, <3>2 DEF RequestsKeep
  <2> QED
    BY <1>2, <2>1, <2>2
<1>6. WireKeeps
  BY JoinWire
<1>7. SavedKeeps /\ RecordsKeep
  BY <1>3 DEF SavedKeeps, RecordsKeep, histVars
<1> QED
  BY <1>4, <1>5, <1>6, <1>7, CoverageKept

\* Nothing is sent when a message is taken.
LEMMA TakenWire ==
    ASSUME Typed, NEW s \in Sockets, socks[s].toServer # <<>>, OneTaken(socks', s)
    PROVE  Wire' \subseteq Wire
<1> SUFFICES ASSUME NEW op, NEW t \in Sockets,
                    NEW k \in DOMAIN socks'[t].toServer,
                    socks'[t].toServer[k].type = "op",
                    op \in socks'[t].toServer[k].ops
             PROVE  op \in Wire
  BY DEF Wire, SentOn
<1>1. \E l \in DOMAIN socks[t].toServer :
        socks'[t].toServer[k] = socks[t].toServer[l]
  BY TakenKept DEF Typed, OneTaken
<1> QED
  BY <1>1, WireIs

\* The server takes operations: they are saved and acked.
LEMMA ApplyCovered ==
    ASSUME Typed, Connected, Covered, NEW s \in Sockets,
           socks[s].toServer # <<>>, NEW m, NEW fresh, Applied(s, m, fresh),
           UNCHANGED <<db, histVars>>
    PROVE  Covered'
<1>1. PICK r : r = socks[s].joined
  OBVIOUS
<1>2. PICK w : w = registered[r]
  OBVIOUS
<1>3. /\ m = socks[s].toServer[1] /\ 1 \in DOMAIN socks[s].toServer
      /\ fresh = {op \in m.ops : op.id \notin Ids(Saved)}
      /\ m.type = "op" /\ r \in RecordIds /\ Grown(fresh) /\ OneTaken(socks', s)
      /\ requests' \in RequestsType
      /\ \A j \in Instances : Alive(j)' <=> Alive(j)
      /\ \A j \in Instances : AfterOps(j, m.ops, r, w)
      /\ IF Reaches(w)
         THEN Persisted(inst'[socks[w].owner], Ids(m.ops))
         ELSE requests' = requests
  BY <1>1, <1>2 DEF Applied
<1>4. Saved' = Saved \cup fresh /\ Ids(m.ops) \subseteq Ids(Saved')
  BY <1>3 DEF Grown, Ids
<1>5. m.ops \subseteq Wire
  BY <1>3, WireIs
<1>6. SavedKeeps
  BY <1>3, <1>4, <1>5 DEF SavedKeeps
<1>7. \A j \in Instances : Alive(j) =>
        /\ SameConnection(inst'[j], inst[j]) \/ inst'[j] = inst[j]
        /\ \/ inst'[j].outbox = inst[j].outbox
           \/ /\ inst'[j].outbox = {op \in inst[j].outbox : op.id \notin Ids(m.ops)}
              /\ Reaches(w) /\ j = socks[w].owner
  BY <1>3 DEF AfterOps, Learned
<1>8. w \in Sockets \cup {None}
  BY <1>2, <1>3 DEF Typed, Types
<1>9. Reaches(w) => inst[socks[w].owner].phase # "init"
  BY <1>8, ReachedAlive DEF Typed, Connected, Starting
<1>10. HoldingsKeep
  <2> SUFFICES ASSUME NEW j \in Instances
               PROVE  /\ Alive(j)' <=> Alive(j)
                      /\ Current(j)' => Current(j)
                      /\ Alive(j) =>
                           /\ inst'[j].phase = inst[j].phase
                           /\ inst'[j].read.outbox = inst[j].read.outbox
                           /\ inst'[j].outbox \subseteq inst[j].outbox
                           /\ Ids(inst[j].outbox) \subseteq
                                Ids(inst'[j].outbox) \cup Ids(Saved')
                           /\ inst[j].phase = "init" =>
                                inst'[j].outbox = inst[j].outbox
    BY DEF HoldingsKeep
  <2>1. Alive(j) => /\ inst'[j].phase = inst[j].phase
                    /\ inst'[j].read.outbox = inst[j].read.outbox
                    /\ inst'[j].closedByUser = inst[j].closedByUser
    BY <1>7 DEF SameConnection
  <2>2. Alive(j) => Ids(inst[j].outbox) \subseteq
                      Ids(inst'[j].outbox) \cup Ids(Saved')
    BY <1>4, <1>7 DEF Ids
  <2> QED
    BY <1>3, <1>7, <1>9, <2>1, <2>2 DEF Current
<1>11. RequestsKeep
  <2>1. CASE requests' = requests
    BY <2>1 DEF RequestsKeep
  <2>2. CASE Reaches(w)
    <3>1. /\ requests.outbox \in Seq(OutboxCalls)
          /\ requests'.outbox \in Seq(OutboxCalls)
      BY <1>3 DEF Typed, Types, RequestsType
    <3>2. /\ Len(requests.outbox) <= Len(requests'.outbox)
          /\ \A k \in 1..Len(requests.outbox) :
               requests'.outbox[k] = requests.outbox[k]
          /\ \A k \in (Len(requests.outbox) + 1)..Len(requests'.outbox) :
               /\ requests'.outbox[k].call = "delete"
               /\ requests'.outbox[k].key \in Ids(m.ops)
      BY <1>3, <2>2 DEF Persisted
    <3>3. /\ DOMAIN requests.outbox = 1..Len(requests.outbox)
          /\ DOMAIN requests'.outbox = 1..Len(requests'.outbox)
          /\ Len(requests.outbox) \in Nat /\ Len(requests'.outbox) \in Nat
      BY <3>1
    <3>4. \A k \in DOMAIN requests'.outbox :
            \/ k \in DOMAIN requests.outbox
            \/ k \in (Len(requests.outbox) + 1)..Len(requests'.outbox)
      BY <3>3
    <3>5. \A k \in DOMAIN requests.outbox :
            /\ k \in DOMAIN requests'.outbox
            /\ requests'.outbox[k] = requests.outbox[k]
      BY <3>2, <3>3
    <3> QED
      BY <1>4, <3>2, <3>4, <3>5 DEF RequestsKeep
  <2> QED
    BY <1>3, <2>1, <2>2
<1>12. Wire' \subseteq Wire
  BY <1>3, TakenWire
<1>13. WireKeeps /\ RecordsKeep
  BY <1>12 DEF WireKeeps, RecordsKeep, histVars
<1> QED
  BY <1>6, <1>10, <1>11, <1>13, CoverageKept

\* A new page, or a new instance of it, has recorded nothing yet.
LEMMA MountCovered ==
    ASSUME Typed, Covered, Mount
    PROVE  Covered'
<1>1. PICK i : i = MaxInstances - left.mounts + 1
  OBVIOUS
<1> DEFINE get == [call |-> "get", by |-> i]
<1>2. /\ i \in Instances /\ ~Alive(i) /\ inst'[i] = NewInstance
      /\ \A j \in Instances : j # i => inst'[j] = inst[j]
      /\ requests'.outbox = Append(requests.outbox, get)
  BY <1>1, MountSteps DEF Typed
<1>3. /\ db' = db /\ socks' = socks /\ log' = log /\ made' = made
      /\ stored' = stored /\ blind' = blind /\ torn' = torn
      /\ \A j \in Instances : ~Current(j)
      /\ PageOpen \/ \A s \in Sockets : socks[s].toServer = <<>>
  BY DEF Mount, histVars, PageOpen
<1>4. /\ FromHere /\ Held /\ SentKept /\ Deletes /\ StoredIds /\ TempsOnly
      /\ AfterGet /\ HasRead /\ Remembers /\ Asked
  BY DEF Covered, Typed
<1>5. requests.outbox \in Seq(OutboxCalls)
  BY RequestFields DEF Typed
<1>6. get.call = "get" /\ get.by = i
  OBVIOUS
<1> HIDE DEF get
<1>7. \A k \in DOMAIN requests'.outbox :
        \/ /\ k \in DOMAIN requests.outbox
           /\ requests'.outbox[k] = requests.outbox[k]
        \/ k = Len(requests.outbox) + 1 /\ requests'.outbox[k] = get
  BY <1>2, <1>5, QueueOps
<1>8. \A k \in DOMAIN requests.outbox :
        /\ k \in DOMAIN requests'.outbox /\ requests'.outbox[k] = requests.outbox[k]
        /\ k <= Len(requests.outbox) /\ k \in Nat /\ Len(requests.outbox) \in Nat
  BY <1>2, <1>5, QueueOps
<1>9. Pending' = Pending
  BY <1>6, <1>7, <1>8 DEF Pending
<1>10. Saved' = Saved /\ Wire' = Wire
  BY <1>3 DEF Saved, Wire, SentOn
<1>11. FromHere' /\ StoredIds'
  BY <1>3, <1>4, <1>9, <1>10 DEF FromHere, StoredIds
<1>12. /\ inst'[i].phase = "init" /\ inst'[i].outbox = {}
       /\ inst'[i].read.outbox = None
  BY <1>2 DEF NewInstance, NothingRead
<1>13. Held'
  BY <1>2, <1>3, <1>4, <1>9, <1>12 DEF Held, Alive
<1>14. Wire \subseteq stored \cup Pending
  <2>1. CASE PageOpen
    BY <1>4, <2>1 DEF SentKept
  <2>2. CASE \A s \in Sockets : socks[s].toServer = <<>>
    <3>1. \A s \in Sockets : DOMAIN socks[s].toServer = {}
      BY <2>2
    <3> QED
      BY <3>1, WireIs
  <2> QED
    BY <1>3, <2>1, <2>2
<1>15. SentKept'
  BY <1>3, <1>9, <1>10, <1>14 DEF SentKept
<1>16. Deletes'
  BY <1>4, <1>6, <1>7, <1>10 DEF Deletes
<1>17. TempsOnly'
  BY <1>2, <1>4, <1>12 DEF TempsOnly
<1>18. \A j \in Instances : Current(j)' => j = i
  BY <1>2, <1>3 DEF Current, Alive
<1>19. AfterGet'
  <2> SUFFICES ASSUME NEW p \in DOMAIN requests'.outbox,
                      NEW q \in DOMAIN requests'.outbox, p < q,
                      requests'.outbox[p].call = "get",
                      requests'.outbox[p].by = i, requests'.outbox[q].call = "put"
               PROVE  FALSE
    BY <1>18 DEF AfterGet
  <2>1. q \in DOMAIN requests.outbox
    BY <1>6, <1>7
  <2>2. p \in DOMAIN requests.outbox /\ requests'.outbox[p] = requests.outbox[p]
    BY <1>7, <1>8, <2>1
  <2> QED
    BY <1>2, <1>4, <2>2 DEF Asked
<1>20. HasRead' /\ Remembers'
  BY <1>12, <1>18 DEF HasRead, Remembers
<1> QED
  BY <1>11, <1>13, <1>15, <1>16, <1>17, <1>19, <1>20 DEF Covered

\* What is on the wire stays there.
LEMMA ClosePageWire ==
    ASSUME Typed, ClosePage
    PROVE  Wire' \subseteq Wire
<1>1. \A t \in Sockets :
        IF socks[t].server = "none" THEN socks'[t] = FreeSocket
        ELSE socks'[t].toServer = socks[t].toServer
  BY ClosePageSteps DEF Typed
<1> SUFFICES ASSUME NEW op, NEW t \in Sockets,
                    NEW k \in DOMAIN socks'[t].toServer,
                    socks'[t].toServer[k].type = "op",
                    op \in socks'[t].toServer[k].ops
             PROVE  op \in Wire
  BY DEF Wire, SentOn
<1>2. DOMAIN FreeSocket.toServer = {}
  BY DEF FreeSocket
<1>3. socks'[t].toServer = socks[t].toServer
  BY <1>1, <1>2
<1> QED
  BY <1>3, WireIs

\* What was asked for is lost with the page.
LEMMA ClosePageCovered ==
    ASSUME Typed, Covered, ClosePage
    PROVE  Covered'
<1>1. /\ \A i \in Instances : ~Alive(i)' /\ inst'[i].phase = "none"
      /\ requests'.outbox = <<>>
      /\ ~torn' => ~torn /\ requests = NoRequests
      /\ \A t \in Sockets :
           IF socks[t].server = "none" THEN socks'[t] = FreeSocket
           ELSE socks'[t].toServer = socks[t].toServer
  BY ClosePageSteps DEF Typed
<1>2. /\ db' = db /\ log' = log /\ made' = made /\ stored' = stored
      /\ blind' = blind
  BY DEF ClosePage
<1>3. FromHere /\ SentKept /\ StoredIds
  BY DEF Covered
<1>4. DOMAIN requests'.outbox = {}
  BY <1>1
<1>5. Pending' = {}
  BY <1>4 DEF Pending
<1>6. Saved' = Saved
  BY <1>2 DEF Saved
<1>7. Wire' \subseteq Wire
  BY ClosePageWire
<1>8. FromHere' /\ StoredIds'
  BY <1>2, <1>3, <1>5, <1>6, <1>7 DEF FromHere, StoredIds
<1>9. SentKept'
  <2> SUFFICES ASSUME ~torn' PROVE Wire' \subseteq stored
    BY <1>1, <1>2 DEF SentKept, PageOpen
  <2>1. ~torn /\ requests.outbox = <<>>
    BY <1>1 DEF NoRequests
  <2>2. DOMAIN requests.outbox = {}
    BY <2>1
  <2>3. Pending = {}
    BY <2>2 DEF Pending
  <2> QED
    BY <1>3, <1>7, <2>1, <2>3 DEF SentKept
<1>10. /\ Held' /\ Deletes' /\ TempsOnly' /\ AfterGet' /\ HasRead' /\ Remembers'
  BY <1>1, <1>4 DEF Held, Deletes, TempsOnly, AfterGet, HasRead, Remembers
<1> QED
  BY <1>8, <1>9, <1>10 DEF Covered

\* What a request served leaves of those that follow.
LEMMA ServedPending ==
    ASSUME Typed, ServeOutbox, NEW r, r = Head(requests.outbox)
    PROVE  /\ requests.outbox # <<>> /\ r = requests.outbox[1]
           /\ 1 \in DOMAIN requests.outbox
           /\ \A k \in DOMAIN requests'.outbox :
                /\ k + 1 \in DOMAIN requests.outbox /\ k \in Nat \ {0}
                /\ requests'.outbox[k] = requests.outbox[k + 1]
           /\ \A k \in DOMAIN requests.outbox : k # 1 =>
                /\ k - 1 \in DOMAIN requests'.outbox
                /\ requests'.outbox[k - 1] = requests.outbox[k]
           /\ Pending' \subseteq Pending
           /\ \A op \in Pending : \/ op \in Pending'
                                  \/ r.call = "put" /\ op = r.op
<1>1. requests.outbox \in Seq(OutboxCalls)
  BY RequestFields DEF Typed
<1>2. /\ requests.outbox # <<>> /\ r = requests.outbox[1]
      /\ requests'.outbox = Tail(requests.outbox)
  BY ServeOutboxSteps DEF Typed
<1>3. /\ DOMAIN requests.outbox = 1..Len(requests.outbox)
      /\ DOMAIN requests'.outbox = 1..(Len(requests.outbox) - 1)
      /\ Len(requests.outbox) \in Nat /\ Len(requests.outbox) > 0
      /\ \A k \in 1..(Len(requests.outbox) - 1) :
           requests'.outbox[k] = requests.outbox[k + 1]
  BY <1>1, <1>2, QueueOps
<1>4. \A k \in DOMAIN requests'.outbox :
        /\ k + 1 \in DOMAIN requests.outbox /\ k \in Nat \ {0}
        /\ requests'.outbox[k] = requests.outbox[k + 1]
  BY <1>3
<1>5. \A k \in DOMAIN requests.outbox : k # 1 =>
        /\ k - 1 \in DOMAIN requests'.outbox
        /\ requests'.outbox[k - 1] = requests.outbox[k]
  <2> SUFFICES ASSUME NEW k \in DOMAIN requests.outbox, k # 1
               PROVE  /\ k - 1 \in DOMAIN requests'.outbox
                      /\ requests'.outbox[k - 1] = requests.outbox[k]
    OBVIOUS
  <2>1. k \in Nat /\ k - 1 \in 1..(Len(requests.outbox) - 1) /\ (k - 1) + 1 = k
    BY <1>3
  <2> QED
    BY <1>3, <2>1
<1>6. Pending' \subseteq Pending
  BY <1>4 DEF Pending
<1>7. ASSUME NEW op \in Pending
      PROVE  op \in Pending' \/ (r.call = "put" /\ op = r.op)
  <2>1. PICK k \in DOMAIN requests.outbox :
          requests.outbox[k].call = "put" /\ requests.outbox[k].op = op
    BY PendingIs
  <2> QED
    BY <1>2, <1>5, <2>1 DEF Pending
<1> QED
  BY <1>2, <1>3, <1>4, <1>5, <1>6, <1>7

\* A request to the outbox is served.
LEMMA ServeOutboxCovered ==
    ASSUME Typed, Covered, ServeOutbox
    PROVE  Covered'
<1>1. PICK r : r = Head(requests.outbox)
  OBVIOUS
<1>2. /\ FromHere /\ Held /\ SentKept /\ Deletes /\ StoredIds /\ TempsOnly
      /\ AfterGet /\ HasRead /\ Remembers
  BY DEF Covered
<1>3. /\ r = requests.outbox[1] /\ 1 \in DOMAIN requests.outbox
      /\ \A k \in DOMAIN requests'.outbox :
           /\ k + 1 \in DOMAIN requests.outbox /\ k \in Nat \ {0}
           /\ requests'.outbox[k] = requests.outbox[k + 1]
      /\ Pending' \subseteq Pending
      /\ \A op \in Pending : op \in Pending' \/ (r.call = "put" /\ op = r.op)
  BY <1>1, ServedPending
<1>4. \/ /\ r.call = "get" /\ r.by \in Instances /\ Alive(r.by)
         /\ ReadOf(r.by, "outbox", db.outbox) /\ db' = db /\ stored' = stored
      \/ /\ r.call = "put" /\ inst' = inst
         /\ db'.outbox = {op \in db.outbox : op.id # r.op.id} \cup {r.op}
         /\ stored' = stored \cup {r.op}
      \/ /\ r.call = "delete" /\ inst' = inst
         /\ db'.outbox = {op \in db.outbox : op.id # r.key}
         /\ stored' = stored
  BY <1>1, ServeOutboxSteps DEF Typed
<1>5. /\ socks' = socks /\ log' = log /\ made' = made /\ blind' = blind
      /\ torn' = torn
  BY DEF ServeOutbox
<1>6. Saved' = Saved /\ Wire' = Wire
  BY <1>5 DEF Saved, Wire, SentOn
<1>7. r.call = "put" => r.op \in Pending
  BY <1>3 DEF Pending
<1>8. stored' \cup Pending' = stored \cup Pending
  BY <1>3, <1>4, <1>7
<1>9. /\ \A i \in Instances :
           /\ Alive(i)' <=> Alive(i)
           /\ Current(i)' <=> Current(i)
           /\ inst'[i].phase = inst[i].phase
           /\ Alive(i) => inst'[i].outbox = inst[i].outbox
           /\ \/ inst'[i].read.outbox = inst[i].read.outbox
              \/ /\ r.call = "get" /\ r.by = i
                 /\ inst'[i].read.outbox = db.outbox /\ db'.outbox = db.outbox
  <2>1. CASE inst' = inst
    BY <2>1 DEF Alive, Current
  <2>2. CASE r.call = "get" /\ ReadOf(r.by, "outbox", db.outbox) /\ db' = db
    BY <2>2 DEF ReadOf, Current
  <2> QED
    BY <1>4, <2>1, <2>2
<1>10. FromHere'
  <2>1. stored' \subseteq made /\ db'.outbox \subseteq stored'
    BY <1>2, <1>4, <1>7 DEF FromHere
  <2> QED
    BY <1>2, <1>3, <1>5, <1>6, <2>1 DEF FromHere
<1>11. Held'
  <2> SUFFICES ASSUME NEW i \in Instances, Alive(i)
               PROVE  /\ inst'[i].outbox \subseteq stored' \cup Pending'
                      /\ inst'[i].read.outbox # None =>
                           inst'[i].read.outbox \subseteq stored'
    BY <1>9 DEF Held
  <2>1. stored \subseteq stored' /\ db.outbox \subseteq stored
    BY <1>2, <1>4 DEF FromHere
  <2> QED
    BY <1>2, <1>8, <1>9, <2>1 DEF Held
<1>12. SentKept'
  BY <1>2, <1>5, <1>6, <1>8, <1>9 DEF SentKept, PageOpen
<1>13. Deletes'
  BY <1>2, <1>3, <1>6 DEF Deletes
<1>14. StoredIds'
  <2>1. CASE r.call = "get" /\ db' = db /\ stored' = stored
    BY <1>2, <1>6, <2>1 DEF StoredIds
  <2>2. CASE /\ db'.outbox = {op \in db.outbox : op.id # r.op.id} \cup {r.op}
             /\ stored' = stored \cup {r.op}
    <3>1. Ids(db.outbox) \cup {r.op.id} \subseteq Ids(db'.outbox)
      BY <2>2 DEF Ids
    <3>2. Ids(stored') = Ids(stored) \cup {r.op.id}
      BY <2>2 DEF Ids
    <3> QED
      BY <1>2, <1>6, <3>1, <3>2 DEF StoredIds
  <2>3. CASE /\ r.call = "delete" /\ stored' = stored
             /\ db'.outbox = {op \in db.outbox : op.id # r.key}
    <3>1. r.key \in Ids(Saved)
      BY <1>2, <1>3, <2>3 DEF Deletes
    <3>2. Ids(db.outbox) \subseteq Ids(db'.outbox) \cup {r.key}
      BY <2>3 DEF Ids
    <3> QED
      BY <1>2, <1>6, <2>3, <3>1, <3>2 DEF StoredIds
  <2> QED
    BY <1>4, <2>1, <2>2, <2>3
<1>15. \A i \in Instances : inst'[i].phase \in {"init", "ready"} =>
         Alive(i) /\ inst'[i].outbox = inst[i].outbox
  BY <1>9 DEF Alive
<1>16. TempsOnly'
  BY <1>2, <1>9, <1>15 DEF TempsOnly
<1>17. AfterGet'
  <2> SUFFICES ASSUME NEW i \in Instances, inst[i].phase = "init", Current(i),
                      NEW p \in DOMAIN requests'.outbox,
                      NEW q \in DOMAIN requests'.outbox, p < q,
                      requests'.outbox[p].call = "get",
                      requests'.outbox[p].by = i, requests'.outbox[q].call = "put"
               PROVE  requests'.outbox[q].op.id \in Ids(inst[i].outbox)
    BY <1>9, <1>15 DEF AfterGet
  <2>1. /\ p + 1 \in DOMAIN requests.outbox /\ q + 1 \in DOMAIN requests.outbox
        /\ p + 1 < q + 1
        /\ requests'.outbox[p] = requests.outbox[p + 1]
        /\ requests'.outbox[q] = requests.outbox[q + 1]
    BY <1>3
  <2> QED
    BY <1>2, <2>1 DEF AfterGet
<1>18. HasRead'
  <2> SUFFICES ASSUME NEW i \in Instances, inst[i].phase = "init", Current(i),
                      inst'[i].read.outbox # None
               PROVE  Ids(stored \cup Pending) \subseteq
                        Ids(Saved) \cup Ids(inst[i].outbox)
                          \cup Ids(inst'[i].read.outbox)
    BY <1>6, <1>8, <1>9, <1>15 DEF HasRead
  <2>1. CASE inst'[i].read.outbox = inst[i].read.outbox
    BY <1>2, <2>1 DEF HasRead
  <2>2. CASE r.call = "get" /\ r.by = i /\ inst'[i].read.outbox = db.outbox
    <3>1. ASSUME NEW op \in Pending
          PROVE  op.id \in Ids(inst[i].outbox)
      <4>1. PICK q \in DOMAIN requests.outbox :
              requests.outbox[q].call = "put" /\ requests.outbox[q].op = op
        BY PendingIs
      <4>2. 1 < q
        <5>1. requests.outbox \in Seq(OutboxCalls)
          BY RequestFields DEF Typed
        <5> QED
          BY <1>3, <2>2, <4>1, <5>1
      <4> QED
        BY <1>2, <1>3, <2>2, <4>1, <4>2 DEF AfterGet
    <3>2. Ids(Pending) \subseteq Ids(inst[i].outbox)
      BY <3>1 DEF Ids
    <3>3. Ids(stored \cup Pending) = Ids(stored) \cup Ids(Pending)
      BY IdsUnion
    <3> QED
      BY <1>2, <2>2, <3>2, <3>3 DEF StoredIds
  <2> QED
    BY <1>9, <2>1, <2>2
<1>19. Remembers'
  <2> SUFFICES ASSUME NEW i \in Instances, inst[i].phase = "ready", Current(i)
               PROVE  Ids(stored \cup Pending) \subseteq
                        Ids(Saved) \cup Ids(inst[i].outbox)
    BY <1>6, <1>8, <1>9, <1>15 DEF Remembers
  <2> QED
    BY <1>2 DEF Remembers
<1> QED
  BY <1>10, <1>11, <1>12, <1>13, <1>14, <1>16, <1>17, <1>18, <1>19 DEF Covered

\* Nothing is sent on a socket that is not open yet.
LEMMA FinishInitWire ==
    ASSUME Typed, NEW i \in Instances, FinishInit(i)
    PROVE  Wire' \subseteq Wire
<1>1. \/ socks' = socks
      \/ inst'[i].ws \in Sockets /\ ConnectedAt(inst'[i].ws, i)
  BY FinishInitSteps DEF Typed
<1>2. \A s \in Sockets : \/ socks'[s] = socks[s]
                         \/ DOMAIN socks'[s].toServer = {}
  BY <1>1 DEF ConnectedAt
<1> QED
  BY <1>2 DEF Wire, SentOn

\* The rest of init: what was read is remembered.
LEMMA FinishInitCovered ==
    ASSUME Typed, Covered, NEW i \in Instances, FinishInit(i)
    PROVE  Covered'
<1>1. /\ \A j \in Instances : j # i => inst'[j] = inst[j]
      /\ \A j \in Instances : Alive(j)' <=> Alive(j)
      /\ inst[i].phase = "init" /\ inst'[i].phase = "ready"
      /\ inst[i].read.outbox # None /\ inst'[i].read = NothingRead
      /\ inst'[i].outbox = inst[i].outbox \cup inst[i].read.outbox
      /\ inst'[i].closedByUser = inst[i].closedByUser
      /\ \/ socks' = socks
         \/ inst'[i].ws \in Sockets /\ ConnectedAt(inst'[i].ws, i)
  BY FinishInitSteps DEF Typed
<1>2. /\ db' = db /\ requests' = requests /\ log' = log /\ made' = made
      /\ stored' = stored /\ blind' = blind /\ torn' = torn
  BY DEF FinishInit, histVars
<1>3. /\ FromHere /\ Held /\ SentKept /\ Deletes /\ StoredIds /\ TempsOnly
      /\ AfterGet /\ HasRead /\ Remembers
  BY DEF Covered
<1>4. Saved' = Saved /\ Pending' = Pending
  BY <1>2 DEF Saved, Pending
<1>5. Wire' \subseteq Wire
  BY FinishInitWire
<1>6. Alive(i)
  BY <1>1 DEF Alive
<1>7. FromHere' /\ StoredIds' /\ Deletes'
  BY <1>2, <1>3, <1>4, <1>5 DEF FromHere, StoredIds, Deletes
<1>8. Held'
  <2>1. inst'[i].outbox \subseteq stored \cup Pending
    BY <1>1, <1>3, <1>6 DEF Held
  <2>2. inst'[i].read.outbox = None
    BY <1>1 DEF NothingRead
  <2> QED
    BY <1>1, <1>2, <1>3, <1>4, <2>1, <2>2 DEF Held
<1>9. SentKept'
  BY <1>1, <1>2, <1>3, <1>4, <1>5 DEF SentKept, PageOpen
<1>10. \A j \in Instances : inst'[j].phase = "init" => j # i /\ inst'[j] = inst[j]
  BY <1>1
<1>11. \A j \in Instances : Current(j)' <=> Current(j)
  BY <1>1 DEF Current
<1>12. TempsOnly' /\ AfterGet' /\ HasRead'
  <2>1. TempsOnly'
    BY <1>3, <1>10 DEF TempsOnly
  <2>2. AfterGet'
    BY <1>2, <1>3, <1>10, <1>11 DEF AfterGet
  <2>3. HasRead'
    BY <1>2, <1>3, <1>4, <1>10, <1>11 DEF HasRead
  <2> QED
    BY <2>1, <2>2, <2>3
<1>13. Remembers'
  <2> SUFFICES ASSUME NEW j \in Instances, inst'[j].phase = "ready", Current(j)
               PROVE  Ids(stored \cup Pending) \subseteq
                        Ids(Saved) \cup Ids(inst'[j].outbox)
    BY <1>2, <1>4, <1>11 DEF Remembers
  <2>1. CASE j # i
    BY <1>1, <1>3, <2>1 DEF Remembers
  <2>2. CASE j = i
    <3>1. Ids(stored \cup Pending) \subseteq
            Ids(Saved) \cup Ids(inst[i].outbox) \cup Ids(inst[i].read.outbox)
      BY <1>1, <1>3, <2>2 DEF HasRead
    <3>2. Ids(inst'[i].outbox) = Ids(inst[i].outbox) \cup Ids(inst[i].read.outbox)
      BY <1>1, IdsUnion
    <3> QED
      BY <2>2, <3>1, <3>2
  <2> QED
    BY <2>1, <2>2
<1> QED
  BY <1>7, <1>8, <1>9, <1>12, <1>13 DEF Covered

\* What is typed becomes pending and may be sent, and nothing else does.
LEMMA EditSent ==
    ASSUME Typed, NEW i \in Instances, NEW op, Edited(i, op)
    PROVE  Pending' = Pending \cup {op} /\ Wire' \subseteq Wire \cup {op}
<1> DEFINE put == [call |-> "put", op |-> op]
           message == [type |-> "op", ops |-> {op}]
<1>1. /\ put.call = "put" /\ put.op = op
      /\ message.type = "op" /\ message.ops = {op}
  OBVIOUS
<1> HIDE DEF put, message
<1>2. /\ requests'.outbox = Append(requests.outbox, put)
      /\ \A t \in Sockets :
           \/ socks'[t].toServer = socks[t].toServer
           \/ socks'[t].toServer = Append(socks[t].toServer, message)
  BY DEF Edited, put, message
<1>3. requests.outbox \in Seq(OutboxCalls)
  BY RequestFields DEF Typed
<1>4. /\ \A k \in DOMAIN requests'.outbox :
           \/ /\ k \in DOMAIN requests.outbox
              /\ requests'.outbox[k] = requests.outbox[k]
           \/ requests'.outbox[k] = put
      /\ \A k \in DOMAIN requests.outbox :
           /\ k \in DOMAIN requests'.outbox
           /\ requests'.outbox[k] = requests.outbox[k]
      /\ Len(requests.outbox) + 1 \in DOMAIN requests'.outbox
      /\ requests'.outbox[Len(requests.outbox) + 1] = put
  BY <1>2, <1>3, QueueOps
<1>5. Pending' = Pending \cup {op}
  BY <1>1, <1>4 DEF Pending
<1>6. Wire' \subseteq Wire \cup {op}
  <2> SUFFICES ASSUME NEW o, NEW t \in Sockets,
                      NEW k \in DOMAIN socks'[t].toServer,
                      socks'[t].toServer[k].type = "op",
                      o \in socks'[t].toServer[k].ops
               PROVE  o \in Wire \/ o = op
    BY DEF Wire, SentOn
  <2>1. socks[t].toServer \in Seq(MessageType)
    BY DEF Typed, Types, SocksType, SocketType
  <2>2. \/ k \in DOMAIN socks[t].toServer
           /\ socks'[t].toServer[k] = socks[t].toServer[k]
        \/ socks'[t].toServer[k] = message
    <3>1. CASE socks'[t].toServer = socks[t].toServer
      BY <3>1
    <3>2. CASE socks'[t].toServer = Append(socks[t].toServer, message)
      BY <2>1, <3>2, QueueOps
    <3> QED
      BY <1>2, <3>1, <3>2
  <2> QED
    BY <1>1, <2>2, WireIs
<1> QED
  BY <1>5, <1>6

\* A character is typed: its record is asked for, and it is sent.
LEMMA EditCovered ==
    ASSUME Typed, Connected, Covered, NEW i \in Instances, Edit(i)
    PROVE  Covered'
<1>1. PICK op \in insertOpSchema :
        Edited(i, op) /\ db' = db /\ log' = log /\ stored' = stored /\ torn' = torn
  BY EditIs
<1> DEFINE put == [call |-> "put", op |-> op]
<1>2. put.call = "put" /\ put.op = op
  OBVIOUS
<1> HIDE DEF put
<1>3. /\ Current(i) /\ Alive(i)
      /\ inst[i].phase = "init" => op.id.replicaId = <<"temp", i>>
      /\ \A j \in Instances : j # i => inst'[j] = inst[j]
      /\ \A j \in Instances : Alive(j)' <=> Alive(j)
      /\ SameConnection(inst'[i], inst[i])
      /\ inst'[i].outbox = {o \in inst[i].outbox : o.id # op.id} \cup {op}
      /\ requests'.outbox = Append(requests.outbox, put)
      /\ made' = made \cup {op} /\ blind \subseteq blind'
      /\ blind' \subseteq blind \cup {op}
  BY <1>1 DEF Edited, Learned, put, Current
<1>4. /\ FromHere /\ Held /\ SentKept /\ Deletes /\ StoredIds /\ TempsOnly
      /\ AfterGet /\ HasRead /\ Remembers /\ OneCurrent /\ Types
  BY DEF Covered, Connected, Typed
<1>5. requests.outbox \in Seq(OutboxCalls)
  BY RequestFields DEF Typed
<1>6. /\ \A k \in DOMAIN requests'.outbox :
           \/ /\ k \in DOMAIN requests.outbox
              /\ requests'.outbox[k] = requests.outbox[k]
           \/ requests'.outbox[k] = put /\ k = Len(requests.outbox) + 1
      /\ \A k \in DOMAIN requests.outbox :
           /\ k \in DOMAIN requests'.outbox
           /\ requests'.outbox[k] = requests.outbox[k]
           /\ k \in Nat /\ k <= Len(requests.outbox) /\ Len(requests.outbox) \in Nat
      /\ Len(requests.outbox) + 1 \in DOMAIN requests'.outbox
      /\ requests'.outbox[Len(requests.outbox) + 1] = put
  BY <1>3, <1>5, QueueOps
<1>7. Pending' = Pending \cup {op} /\ Wire' \subseteq Wire \cup {op}
  BY <1>1, EditSent
<1>8. Saved' = Saved
  BY <1>1 DEF Saved
<1>9. FromHere'
  BY <1>1, <1>3, <1>4, <1>7, <1>8 DEF FromHere
<1>10. Held'
  BY <1>1, <1>3, <1>4, <1>7 DEF Held, SameConnection
<1>11. SentKept'
  BY <1>1, <1>3, <1>4, <1>7 DEF SentKept, PageOpen
<1>12. Deletes'
  BY <1>2, <1>4, <1>6, <1>8 DEF Deletes
<1>13. StoredIds'
  BY <1>1, <1>4, <1>8 DEF StoredIds
<1>14. \A j \in Instances : Current(j)' => j = i /\ Current(j)
  BY <1>3, <1>4 DEF OneCurrent, Current, SameConnection
<1>15. TempsOnly'
  BY <1>3, <1>4 DEF TempsOnly, SameConnection
<1>16. Ids(inst'[i].outbox) = Ids(inst[i].outbox) \cup {op.id}
  BY <1>3 DEF Ids
<1>17. Ids(stored \cup Pending') = Ids(stored \cup Pending) \cup {op.id}
  BY <1>7 DEF Ids
<1>18. AfterGet'
  <2> SUFFICES ASSUME inst[i].phase = "init",
                      NEW p \in DOMAIN requests'.outbox,
                      NEW q \in DOMAIN requests'.outbox, p < q,
                      requests'.outbox[p].call = "get",
                      requests'.outbox[p].by = i, requests'.outbox[q].call = "put"
               PROVE  requests'.outbox[q].op.id \in Ids(inst'[i].outbox)
    BY <1>3, <1>14 DEF AfterGet, SameConnection
  <2>1. CASE requests'.outbox[q] = put
    BY <1>2, <1>16, <2>1
  <2>2. CASE /\ q \in DOMAIN requests.outbox
             /\ requests'.outbox[q] = requests.outbox[q]
    <3>1. p \in DOMAIN requests.outbox /\ requests'.outbox[p] = requests.outbox[p]
      BY <1>6, <2>2
    <3> QED
      BY <1>3, <1>4, <1>16, <2>2, <3>1 DEF AfterGet
  <2> QED
    BY <1>6, <2>1, <2>2
<1>19. HasRead'
  <2> SUFFICES ASSUME inst[i].phase = "init", inst[i].read.outbox # None
               PROVE  Ids(stored \cup Pending') \subseteq
                        Ids(Saved) \cup Ids(inst'[i].outbox)
                          \cup Ids(inst[i].read.outbox)
    BY <1>1, <1>3, <1>8, <1>14 DEF HasRead, SameConnection
  <2> QED
    BY <1>3, <1>4, <1>16, <1>17 DEF HasRead
<1>20. Remembers'
  <2> SUFFICES ASSUME inst[i].phase = "ready"
               PROVE  Ids(stored \cup Pending') \subseteq
                        Ids(Saved) \cup Ids(inst'[i].outbox)
    BY <1>1, <1>3, <1>8, <1>14 DEF Remembers, SameConnection
  <2> QED
    BY <1>3, <1>4, <1>16, <1>17 DEF Remembers
<1> QED
  BY <1>9, <1>10, <1>11, <1>12, <1>13, <1>15, <1>18, <1>19, <1>20 DEF Covered

\* At first there are no operations.
LEMMA InitCovered == Init => Covered
<1> SUFFICES ASSUME Init PROVE Covered
  OBVIOUS
<1>1. /\ \A i \in Instances : inst[i].phase = "none"
      /\ requests.outbox = <<>> /\ log = <<>> /\ db.outbox = {}
      /\ made = {} /\ stored = {} /\ blind = {}
      /\ \A s \in Sockets : socks[s] = FreeSocket
  BY DEF Init, NoInstance, NoRequests
<1>2. /\ DOMAIN requests.outbox = {} /\ DOMAIN log = {}
      /\ \A s \in Sockets : DOMAIN socks[s].toServer = {}
  BY <1>1 DEF FreeSocket
<1>3. Pending = {} /\ Saved = {} /\ Wire = {}
  BY <1>2 DEF Pending, Saved, Wire, SentOn
<1>4. FromHere /\ SentKept /\ StoredIds
  BY <1>1, <1>3 DEF FromHere, SentKept, StoredIds, Ids
<1>5. Held /\ Deletes /\ TempsOnly /\ AfterGet /\ HasRead /\ Remembers
  BY <1>1, <1>2 DEF Held, Deletes, TempsOnly, AfterGet, HasRead, Remembers, Alive
<1> QED
  BY <1>4, <1>5 DEF Covered

\* Every step keeps the coverage.
LEMMA NextCovered ==
    ASSUME Typed, Connected, Covered, [Next]_vars
    PROVE  Covered'
<1>1. CASE UNCHANGED vars
  <2>1. /\ inst' = inst /\ socks' = socks /\ log' = log /\ requests' = requests
        /\ db' = db /\ made' = made /\ stored' = stored /\ blind' = blind
        /\ torn' = torn
    BY <1>1 DEF vars, histVars
  <2>2. Saved' = Saved /\ Wire' = Wire
    BY <2>1 DEF Saved, Wire, SentOn
  <2>3. /\ HoldingsKeep /\ RequestsKeep /\ WireKeeps /\ SavedKeeps /\ RecordsKeep
    BY <2>1, <2>2 DEF HoldingsKeep, Alive, Current, RequestsKeep, WireKeeps,
                      SavedKeeps, RecordsKeep
  <2> QED
    BY <2>3, CoverageKept
<1>2. CASE Mount
  BY <1>2, MountCovered
<1>3. CASE ClosePage
  BY <1>3, ClosePageCovered
<1>4. CASE ServeOutbox
  BY <1>4, ServeOutboxCovered
<1>5. CASE ServeDocuments \/ ServeReplica
  BY <1>5, OtherStoresCovered
<1>6. CASE RemoteEdit
  BY <1>6, RemoteEditCovered
<1>7. ASSUME NEW i \in Instances, Dispose(i) \/ GoOffline(i)
      PROVE  Covered'
  BY <1>7, ClosingQuiet, QuietCovered
<1>8. ASSUME NEW i \in Instances, Reconnect(i) \/ GoOnline(i)
      PROVE  Covered'
  BY <1>8, ConnectingQuiet, QuietCovered
<1>9. ASSUME NEW i \in Instances, FinishInit(i)
      PROVE  Covered'
  BY <1>9, FinishInitCovered
<1>10. ASSUME NEW i \in Instances, Edit(i)
       PROVE  Covered'
  BY <1>10, EditCovered
<1>11. ASSUME NEW s \in Sockets, Open(s)
       PROVE  Covered'
  BY <1>11, OpenQuiet, QuietCovered
<1>12. ASSUME NEW s \in Sockets, Break(s) \/ CloseEvent(s) \/ ServerClose(s)
       PROVE  Covered'
  BY <1>12, EndingQuiet, QuietCovered
<1>13. ASSUME NEW s \in Sockets, DispatchMessage(s)
       PROVE  Covered'
  <2>1. UNCHANGED <<db, histVars>>
    BY <1>13 DEF DispatchMessage
  <2>2. PICK m : \/ Refuse(s, m, [socks EXCEPT ![s].toServer = Tail(@)])
                 \/ Joined(s, m)
                 \/ \E fresh \in Ops : Applied(s, m, fresh)
    BY <1>13, DispatchIs
  <2>3. socks[s].toServer # <<>>
    BY <1>13, DispatchIs
  <2>4. CASE Refuse(s, m, [socks EXCEPT ![s].toServer = Tail(@)])
    BY <2>1, <2>3, <2>4, RefuseQuiet, QuietCovered
  <2>5. CASE Joined(s, m)
    BY <2>1, <2>3, <2>5, JoinCovered
  <2>6. CASE \E fresh \in Ops : Applied(s, m, fresh)
    BY <2>1, <2>3, <2>6, ApplyCovered
  <2> QED
    BY <2>2, <2>4, <2>5, <2>6
<1> QED
  BY <1>1, <1>2, <1>3, <1>4, <1>5, <1>6, <1>7, <1>8, <1>9, <1>10, <1>11, <1>12,
     <1>13 DEF Next

-----------------------------------------------------------------------------
(* What an instance knows of what the server has saved *)

\* The first n operations of the log are among the ids, but for those made
\* before an init resolved.
Honest(saved, n, ids) ==
    /\ n <= Len(saved)
    /\ \A k \in 1..n : saved[k].id.replicaId \in TempIds \/ saved[k].id \in ids

HonestRecord(saved, d) == Honest(saved, d.lastAckedSeq, Ids(d.state))

\* All of these are.
Full(ops, view) == \A op \in ops : op.id.replicaId \in TempIds
                                   \/ op.id \in Ids(view)

\* Every cursor is honest: in a record, stored or asked for or read, in an
\* instance, and in a join that is on its way.
HonestRecords ==
    /\ HonestRecord(log, db.document)
    /\ \A k \in DOMAIN requests.documents :
         requests.documents[k].call = "put" =>
           HonestRecord(log, requests.documents[k].record)

HonestReads == \A i \in Instances :
    Alive(i) /\ inst[i].read.document # None =>
      HonestRecord(log, inst[i].read.document)

HonestCursors == \A i \in Instances : inst[i].phase = "ready" =>
    Honest(log, inst[i].lastAckedSeq, Ids(inst[i].view))

HonestJoins == \A s \in Sockets : \A k \in DOMAIN socks[s].toServer :
    socks[s].owner # None /\ socks[s].toServer[k].type = "join" =>
      Honest(log, socks[s].toServer[k].sinceSeq, Ids(inst[socks[s].owner].view))

\* Who is reached by the server has all that it has saved.
Live == \A r \in RecordIds : Reaches(registered[r]) =>
    Full(Saved, inst[socks[registered[r]].owner].view)

\* Who is ready shows what it has not been told is saved.
Shows == \A i \in Instances : inst[i].phase = "ready" =>
    Full(inst[i].outbox, inst[i].view)

Informed ==
    HonestRecords /\ HonestReads /\ HonestCursors /\ HonestJoins /\ Live /\ Shows

\* A cursor stays honest when the log and the ids grow.
LEMMA HonestGrows ==
    ASSUME NEW l, NEW m, Len(l) \in Nat, Len(m) \in Nat, Len(l) <= Len(m),
           \A k \in 1..Len(l) : m[k] = l[k],
           NEW n \in Nat, NEW S, NEW T, S \subseteq T, Honest(l, n, S)
    PROVE  Honest(m, n, T)
BY DEF Honest

\* With all that is saved, every cursor is honest.
LEMMA FullHonest ==
    ASSUME log \in Seq(insertOpSchema), NEW view, Full(Saved, view),
           NEW n \in Nat, n <= Len(log)
    PROVE  Honest(log, n, Ids(view))
<1>1. \A k \in 1..n : k \in DOMAIN log
  OBVIOUS
<1>2. \A k \in 1..n : log[k] \in Saved
  BY <1>1 DEF Saved
<1> QED
  BY <1>2 DEF Honest, Full

\* The instance i knows what it knew, and more.
Wiser(i) ==
    /\ Alive(i)
    /\ inst'[i].phase = inst[i].phase
    /\ inst'[i].read.document = inst[i].read.document
    /\ \/ Ids(inst[i].view) \subseteq Ids(inst'[i].view)
       \/ Full(Saved', inst'[i].view)
    /\ \/ inst'[i].lastAckedSeq = inst[i].lastAckedSeq
       \/ inst'[i].lastAckedSeq = Len(log') /\ Full(Saved', inst'[i].view)
    /\ inst[i].phase = "ready" =>
         \/ Full(inst'[i].outbox, inst'[i].view)
         \/ /\ inst'[i].outbox \subseteq inst[i].outbox
            /\ Ids(inst[i].view) \subseteq Ids(inst'[i].view)

LogExtends ==
    /\ log' \in Seq(insertOpSchema) /\ Len(log) \in Nat /\ Len(log') \in Nat
    /\ Len(log) <= Len(log') /\ \A k \in 1..Len(log) : log'[k] = log[k]

\* A join that is on its way was, or is the one of an instance that is ready.
JoinsKeep ==
    \A s \in Sockets : \A k \in DOMAIN socks'[s].toServer :
      socks'[s].owner # None /\ socks'[s].toServer[k].type = "join" =>
        /\ socks'[s].owner = socks[s].owner
        /\ \/ \E l \in DOMAIN socks[s].toServer :
                socks'[s].toServer[k] = socks[s].toServer[l]
           \/ /\ inst[socks[s].owner].phase = "ready"
              /\ socks'[s].toServer[k] = JoinOf(inst[socks[s].owner])

\* A record that is asked for was, or is the one of an instance that is ready.
DocumentsKeep ==
    /\ db'.document = db.document
    /\ \A k \in DOMAIN requests'.documents :
         requests'.documents[k].call = "put" =>
           \/ \E l \in DOMAIN requests.documents :
                requests'.documents[k] = requests.documents[l]
           \/ \E i \in Instances :
                /\ inst'[i].phase = "ready"
                /\ requests'.documents[k].record.lastAckedSeq =
                     inst'[i].lastAckedSeq
                /\ requests'.documents[k].record.state = inst'[i].view

\* A step that leaves the records and makes everyone wiser.
LEMMA InformedKept ==
    ASSUME Typed, Typed', Informed, LogExtends, JoinsKeep, DocumentsKeep, Live',
           \A i \in Instances : Alive(i)' => Wiser(i)
    PROVE  Informed'
<1>1. HonestRecords /\ HonestReads /\ HonestCursors /\ HonestJoins /\ Shows
  BY DEF Informed
<1>2. /\ db.document \in DocumentType /\ requests.documents \in Seq(DocumentCalls)
      /\ Types /\ Types' /\ Owned'
  BY RequestFields DEF Typed, Types, DbType
<1>3. ASSUME NEW n \in Nat, NEW S, NEW T, S \subseteq T, Honest(log, n, S)
      PROVE  Honest(log', n, T)
  BY <1>3, HonestGrows DEF LogExtends
<1>4. ASSUME NEW d \in DocumentType, HonestRecord(log, d)
      PROVE  HonestRecord(log', d)
  BY <1>3, <1>4 DEF HonestRecord, DocumentType
<1>5. ASSUME NEW n \in Nat, n <= Len(log'), NEW view, Full(Saved', view)
      PROVE  Honest(log', n, Ids(view))
  <2>1. \A k \in 1..n : k \in DOMAIN log'
    BY <1>5 DEF LogExtends
  <2>2. \A k \in 1..n : log'[k] \in Saved'
    BY <2>1 DEF Saved
  <2> QED
    BY <1>5, <2>2 DEF Honest, Full
<1>6. ASSUME NEW i \in Instances, Alive(i)'
      PROVE  inst[i] \in ClientType /\ inst'[i] \in ClientType
  BY <1>2, <1>6, AliveTyped DEF Wiser, Types, InstType, ClientType, Alive, NoInstance
<1>7. ASSUME NEW i \in Instances, Alive(i)', NEW n \in Nat,
             Honest(log, n, Ids(inst[i].view))
      PROVE  Honest(log', n, Ids(inst'[i].view))
  <2>1. Wiser(i)
    BY <1>7
  <2>2. CASE Ids(inst[i].view) \subseteq Ids(inst'[i].view)
    BY <1>3, <1>7, <2>2
  <2>3. CASE Full(Saved', inst'[i].view)
    <3>1. n <= Len(log')
      BY <1>7 DEF Honest, LogExtends
    <3> QED
      BY <1>5, <2>3, <3>1
  <2> QED
    BY <2>1, <2>2, <2>3 DEF Wiser
<1>8. HonestReads'
  <2> SUFFICES ASSUME NEW i \in Instances, Alive(i)',
                      inst'[i].read.document # None
               PROVE  HonestRecord(log', inst'[i].read.document)
    BY DEF HonestReads
  <2>1. /\ Alive(i) /\ inst'[i].read.document = inst[i].read.document
        /\ inst[i].read.document \in DocumentType
    BY <1>6 DEF Wiser, ClientType, ReadType
  <2> QED
    BY <1>1, <1>4, <2>1 DEF HonestReads
<1>9. HonestCursors'
  <2> SUFFICES ASSUME NEW i \in Instances, inst'[i].phase = "ready"
               PROVE  Honest(log', inst'[i].lastAckedSeq, Ids(inst'[i].view))
    BY DEF HonestCursors
  <2>1. Alive(i)' /\ Wiser(i)
    BY DEF Alive
  <2>2. inst[i].lastAckedSeq \in Nat /\ inst[i].phase = "ready"
    BY <1>6, <2>1 DEF ClientType, Wiser
  <2>3. CASE inst'[i].lastAckedSeq = inst[i].lastAckedSeq
    BY <1>1, <1>7, <2>1, <2>2, <2>3 DEF HonestCursors
  <2>4. CASE inst'[i].lastAckedSeq = Len(log') /\ Full(Saved', inst'[i].view)
    BY <1>5, <2>4 DEF LogExtends
  <2> QED
    BY <2>1, <2>3, <2>4 DEF Wiser
<1>10. HonestRecords'
  <2>1. HonestRecord(log', db'.document)
    BY <1>1, <1>2, <1>4 DEF HonestRecords, DocumentsKeep
  <2>2. ASSUME NEW k \in DOMAIN requests'.documents,
               requests'.documents[k].call = "put"
        PROVE  HonestRecord(log', requests'.documents[k].record)
    <3>1. ASSUME NEW l \in DOMAIN requests.documents,
                 requests'.documents[k] = requests.documents[l]
          PROVE  HonestRecord(log', requests'.documents[k].record)
      <4>1. requests.documents[l].record \in DocumentType
        BY <1>2, <2>2, <3>1 DEF DocumentCalls, Gets
      <4> QED
        BY <1>1, <1>4, <2>2, <3>1, <4>1 DEF HonestRecords
    <3>2. ASSUME NEW i \in Instances, inst'[i].phase = "ready",
                 requests'.documents[k].record.lastAckedSeq = inst'[i].lastAckedSeq,
                 requests'.documents[k].record.state = inst'[i].view
          PROVE  HonestRecord(log', requests'.documents[k].record)
      BY <1>9, <3>2 DEF HonestCursors, HonestRecord
    <3> QED
      BY <2>2, <3>1, <3>2 DEF DocumentsKeep
  <2> QED
    BY <2>1, <2>2 DEF HonestRecords
<1>11. HonestJoins'
  <2> SUFFICES ASSUME NEW s \in Sockets, NEW k \in DOMAIN socks'[s].toServer,
                      socks'[s].owner # None, socks'[s].toServer[k].type = "join"
               PROVE  Honest(log', socks'[s].toServer[k].sinceSeq,
                             Ids(inst'[socks'[s].owner].view))
    BY DEF HonestJoins
  <2>1. /\ socks'[s].owner = socks[s].owner /\ socks[s].owner \in Instances
        /\ Alive(socks[s].owner)'
    <3>1. socks'[s].owner \in Instances /\ inst'[socks'[s].owner].phase # "none"
      BY <1>2 DEF Owned, Alive
    <3> QED
      BY <3>1 DEF JoinsKeep, Alive
  <2>2. inst[socks[s].owner] \in ClientType
    BY <1>6, <2>1
  <2>3. ASSUME NEW l \in DOMAIN socks[s].toServer,
               socks'[s].toServer[k] = socks[s].toServer[l]
        PROVE  Honest(log', socks'[s].toServer[k].sinceSeq,
                      Ids(inst'[socks'[s].owner].view))
    <3>1. socks[s].toServer[l].sinceSeq \in Nat
      <4>1. socks[s].toServer \in Seq(MessageType)
        BY <1>2 DEF Types, SocksType, SocketType
      <4>2. socks[s].toServer[l] \in MessageType
        BY <4>1
      <4> QED
        BY <2>3, <4>2 DEF MessageType
    <3>2. Honest(log, socks[s].toServer[l].sinceSeq, Ids(inst[socks[s].owner].view))
      BY <1>1, <2>1, <2>3 DEF HonestJoins
    <3> QED
      BY <1>7, <2>1, <2>3, <3>1, <3>2
  <2>4. CASE /\ inst[socks[s].owner].phase = "ready"
             /\ socks'[s].toServer[k] = JoinOf(inst[socks[s].owner])
    <3>1. socks'[s].toServer[k].sinceSeq = inst[socks[s].owner].lastAckedSeq
      BY <2>4 DEF JoinOf
    <3>2. Honest(log, inst[socks[s].owner].lastAckedSeq,
                 Ids(inst[socks[s].owner].view))
      BY <1>1, <2>1, <2>4 DEF HonestCursors
    <3>3. inst[socks[s].owner].lastAckedSeq \in Nat
      BY <2>2 DEF ClientType
    <3> QED
      BY <1>7, <2>1, <3>1, <3>2, <3>3
  <2> QED
    BY <2>3, <2>4 DEF JoinsKeep
<1>12. Shows'
  <2> SUFFICES ASSUME NEW i \in Instances, inst'[i].phase = "ready"
               PROVE  Full(inst'[i].outbox, inst'[i].view)
    BY DEF Shows
  <2>1. Alive(i)' /\ Wiser(i)
    BY DEF Alive
  <2>2. CASE Full(inst'[i].outbox, inst'[i].view)
    BY <2>2
  <2>3. CASE /\ inst'[i].outbox \subseteq inst[i].outbox
             /\ Ids(inst[i].view) \subseteq Ids(inst'[i].view)
    BY <1>1, <2>1, <2>3 DEF Full, Shows, Wiser
  <2> QED
    BY <2>1, <2>2, <2>3 DEF Wiser
<1> QED
  BY <1>8, <1>9, <1>10, <1>11, <1>12 DEF Informed

\* The log is as it was.
LEMMA SameLog ==
    ASSUME Typed, log' = log
    PROVE  LogExtends /\ Saved' = Saved
<1>1. log \in Seq(insertOpSchema)
  BY DEF Typed, Types
<1> QED
  BY <1>1 DEF LogExtends, Saved

\* An instance that keeps what it knows.
LEMMA SameWiser ==
    ASSUME Typed, Informed, NEW i \in Instances, Alive(i),
           SameKnowledge(inst'[i], inst[i])
    PROVE  Wiser(i)
BY DEF SameKnowledge, Wiser

\* A step of the connection changes nobody's knowledge.
LEMMA QuietInformed ==
    ASSUME Typed, Typed', Informed, Quiet
    PROVE  Informed'
<1>1. SameRecords /\ SameInstances /\ SameMessages /\ SameReached /\ Live
      /\ Owned /\ Types
  BY DEF Quiet, Informed, Typed
<1>2. LogExtends /\ Saved' = Saved
  BY <1>1, SameLog DEF SameRecords
<1>3. \A i \in Instances : Alive(i)' => Wiser(i)
  BY <1>1, SameWiser DEF SameInstances
<1>4. JoinsKeep
  BY <1>1 DEF JoinsKeep, SameMessages
<1>5. DocumentsKeep
  BY <1>1 DEF DocumentsKeep, SameRecords
<1>6. Live'
  <2> SUFFICES ASSUME NEW r \in RecordIds, registered'[r] # None,
                      socks'[registered'[r]].state = "open"
               PROVE  Full(Saved, inst'[socks'[registered'[r]].owner].view)
    BY <1>2 DEF Live, Reaches
  <2>1. /\ registered'[r] = registered[r] /\ registered[r] \in Sockets
        /\ socks[registered[r]].state = "open"
        /\ socks'[registered[r]].owner = socks[registered[r]].owner
    BY <1>1 DEF SameReached
  <2>2. Full(Saved, inst[socks[registered[r]].owner].view)
    BY <1>1, <2>1, NoneOutside DEF Live, Reaches
  <2>3. /\ socks[registered[r]].owner \in Instances
        /\ Alive(socks[registered[r]].owner)
    BY <1>1, <2>1 DEF Owned
  <2> QED
    BY <1>1, <2>1, <2>2, <2>3 DEF SameInstances, SameKnowledge
<1> QED
  BY <1>2, <1>3, <1>4, <1>5, <1>6, InformedKept

\* IndexedDB serves a request: what is read of the document is honest.
LEMMA ServeInformed ==
    ASSUME Typed, Typed', Informed, ServeDocuments \/ ServeOutbox \/ ServeReplica
    PROVE  Informed'
<1>1. /\ socks' = socks /\ registered' = registered /\ log' = log
      /\ Types /\ Asked /\ Owned
  BY DEF ServeDocuments, ServeOutbox, ServeReplica, Typed
<1>2. LogExtends /\ Saved' = Saved
  BY <1>1, SameLog
<1>3. JoinsKeep
  BY <1>1 DEF JoinsKeep
<1>4. Live'
  <2> SUFFICES ASSUME NEW r \in RecordIds, Reaches(registered[r]),
                      \A i \in Instances : Alive(i) => inst'[i].view = inst[i].view
               PROVE  Full(Saved, inst'[socks[registered[r]].owner].view)
    <3>1. inst' = inst \/ \E i, store, record : ReadOf(i, store, record)
      BY <1>1, ServeDocumentsSteps, ServeOutboxSteps, ServeReplicaSteps
    <3>2. \A i \in Instances : Alive(i) => inst'[i].view = inst[i].view
      BY <3>1 DEF ReadOf
    <3> QED
      BY <1>1, <1>2, <3>2 DEF Live, Reaches
  <2>1. registered[r] \in Sockets \cup {None}
    BY <1>1 DEF Types
  <2>2. socks[registered[r]].owner \in Instances /\ Alive(socks[registered[r]].owner)
    BY <1>1, <2>1, ReachedAlive
  <2> QED
    BY <2>2 DEF Informed, Live
<1>5. CASE ServeOutbox \/ ServeReplica
  <2>1. /\ requests'.documents = requests.documents /\ db'.document = db.document
        /\ \/ inst' = inst
           \/ \E i, record : \E store \in {"outbox", "replica"} :
                ReadOf(i, store, record)
    BY <1>1, <1>5, ServeOutboxSteps, ServeReplicaSteps
  <2>2. DocumentsKeep
    BY <2>1 DEF DocumentsKeep
  <2>3. CASE inst' = inst
    <3>1. \A i \in Instances : Alive(i)' => Wiser(i)
      BY <2>3 DEF Wiser, Alive, Informed
    <3> QED
      BY <1>2, <1>3, <1>4, <2>2, <3>1, InformedKept
  <2>4. ASSUME NEW i, NEW record, NEW store \in {"outbox", "replica"},
               ReadOf(i, store, record)
        PROVE  \A j \in Instances : Alive(j)' => Wiser(j)
    BY <2>4 DEF ReadOf, Wiser
  <2> QED
    BY <1>2, <1>3, <1>4, <2>1, <2>2, <2>3, <2>4, InformedKept
<1>6. CASE ServeDocuments
  <2>1. PICK r : r = Head(requests.documents)
    OBVIOUS
  <2>2. /\ requests.documents # <<>> /\ r = requests.documents[1]
        /\ requests'.documents = Tail(requests.documents)
        /\ \/ ReadOf(r.by, "document", db.document) /\ db' = db
           \/ r.call = "put" /\ inst' = inst
    BY <1>1, <1>6, <2>1, ServeDocumentsSteps
  <2>3. requests.documents \in Seq(DocumentCalls)
    BY <1>1, RequestFields
  <2>4. \A k \in DOMAIN requests'.documents :
          /\ k + 1 \in DOMAIN requests.documents
          /\ requests'.documents[k] = requests.documents[k + 1]
    BY <2>2, <2>3, TailKept
  <2>5. HonestRecords /\ HonestReads /\ HonestCursors /\ HonestJoins /\ Shows
    BY DEF Informed
  <2>6. \A i \in Instances :
          /\ inst'[i].phase = inst[i].phase
          /\ Alive(i) =>
               /\ inst'[i].view = inst[i].view /\ inst'[i].outbox = inst[i].outbox
               /\ inst'[i].lastAckedSeq = inst[i].lastAckedSeq
               /\ \/ inst'[i].read.document = inst[i].read.document
                  \/ inst'[i].read.document = db.document
    BY <2>2 DEF ReadOf
  <2>7. HonestReads'
    BY <1>1, <2>5, <2>6 DEF HonestReads, HonestRecords, Alive
  <2>8. HonestCursors' /\ Shows'
    BY <1>1, <2>5, <2>6 DEF HonestCursors, Shows, Alive
  <2>9. HonestJoins'
    BY <1>1, <2>5, <2>6 DEF HonestJoins, Owned
  <2>10. HonestRecord(log, db'.document)
    <3>1. CASE db' = db
      BY <2>5, <3>1 DEF HonestRecords
    <3>2. CASE r.call = "put" /\ db'.document = r.record
      <4>1. 1 \in DOMAIN requests.documents
        BY <2>2, <2>3
      <4> QED
        BY <2>2, <2>5, <3>2, <4>1 DEF HonestRecords
    <3>3. r.call = "put" => db'.document = r.record \/ db' = db
      BY <1>1, <1>6, <2>1 DEF ServeDocuments, Types, DbType
    <3>4. r.call # "put" => db' = db
      BY <1>6, <2>1 DEF ServeDocuments
    <3> QED
      BY <3>1, <3>2, <3>3, <3>4
  <2>11. HonestRecords'
    BY <1>1, <2>4, <2>5, <2>10 DEF HonestRecords
  <2> QED
    BY <1>4, <2>7, <2>8, <2>9, <2>11 DEF Informed
<1> QED
  BY <1>5, <1>6

\* A new instance knows nothing.
LEMMA MountInformed ==
    ASSUME Typed, Informed, Mount
    PROVE  Informed'
<1>1. PICK i : i = MaxInstances - left.mounts + 1
  OBVIOUS
<1> DEFINE get == [call |-> "get", by |-> i]
<1>2. /\ i \in Instances /\ ~Alive(i) /\ inst'[i] = NewInstance
      /\ \A j \in Instances : j # i => inst'[j] = inst[j]
      /\ requests'.documents = Append(requests.documents, get)
  BY <1>1, MountSteps DEF Typed
<1>3. db' = db /\ socks' = socks /\ log' = log /\ registered' = registered
  BY DEF Mount
<1>4. /\ HonestRecords /\ HonestReads /\ HonestCursors /\ HonestJoins /\ Live
      /\ Shows /\ Owned /\ Types
  BY DEF Informed, Typed
<1>5. requests.documents \in Seq(DocumentCalls)
  BY RequestFields DEF Typed
<1>6. get.call = "get"
  OBVIOUS
<1> HIDE DEF get
<1>7. \A k \in DOMAIN requests'.documents :
        \/ /\ k \in DOMAIN requests.documents
           /\ requests'.documents[k] = requests.documents[k]
        \/ requests'.documents[k] = get
  BY <1>2, <1>5, QueueOps
<1>8. HonestRecords'
  BY <1>3, <1>4, <1>6, <1>7 DEF HonestRecords
<1>9. inst'[i].phase = "init" /\ inst'[i].read.document = None
  BY <1>2 DEF NewInstance, NothingRead
<1>10. HonestReads' /\ HonestCursors' /\ Shows'
  BY <1>2, <1>3, <1>4, <1>9 DEF HonestReads, HonestCursors, Shows, Alive
<1>11. \A s \in Sockets : socks[s].owner # None =>
         inst'[socks[s].owner] = inst[socks[s].owner]
  BY <1>2, <1>4 DEF Owned
<1>12. HonestJoins'
  BY <1>3, <1>4, <1>11 DEF HonestJoins
<1>13. Live'
  <2> SUFFICES ASSUME NEW r \in RecordIds, Reaches(registered[r])
               PROVE  Full(Saved, inst'[socks[registered[r]].owner].view)
    BY <1>3 DEF Live, Reaches, Saved
  <2>1. registered[r] \in Sockets \cup {None}
    BY <1>4 DEF Types
  <2>2. registered[r] \in Sockets /\ socks[registered[r]].owner # None
    BY <1>4, <2>1, ReachedAlive, NoneOutside
  <2> QED
    BY <1>4, <1>11, <2>2 DEF Live
<1> QED
  BY <1>8, <1>10, <1>12, <1>13 DEF Informed

\* With the page goes all but the document's record.
LEMMA ClosePageInformed ==
    ASSUME Typed, Informed, ClosePage
    PROVE  Informed'
<1>1. /\ \A i \in Instances : ~Alive(i)' /\ inst'[i].phase = "none"
      /\ requests'.documents = <<>>
      /\ \A t \in Sockets : socks'[t].owner = None /\ socks'[t].state = "free"
  BY ClosePageSteps DEF Typed
<1>2. db' = db /\ log' = log /\ registered' = registered
  BY DEF ClosePage
<1>3. DOMAIN requests'.documents = {}
  BY <1>1
<1>4. HonestRecords'
  BY <1>2, <1>3 DEF Informed, HonestRecords
<1>5. HonestReads' /\ HonestCursors' /\ HonestJoins' /\ Shows'
  BY <1>1 DEF HonestReads, HonestCursors, HonestJoins, Shows
<1>6. Live'
  BY <1>1, <1>2 DEF Live, Reaches, Typed, Types
<1> QED
  BY <1>4, <1>5, <1>6 DEF Informed

\* The rest of init: the record's cursor comes with the record's state.
LEMMA FinishInitInformed ==
    ASSUME Typed, Connected, Covered, Informed, NEW i \in Instances, FinishInit(i)
    PROVE  Informed'
<1>1. /\ \A j \in Instances : j # i => inst'[j] = inst[j]
      /\ \A j \in Instances : Alive(j)' <=> Alive(j)
      /\ inst[i] \in ClientType
      /\ inst[i].phase = "init" /\ inst'[i].phase = "ready"
      /\ inst[i].read.document \in DocumentType /\ inst[i].read.outbox \in Ops
      /\ inst[i].read.document # None /\ inst'[i].read = NothingRead
      /\ inst'[i].view =
           applyAll(inst[i].read.document.state, inst[i].read.outbox)
      /\ inst'[i].outbox = inst[i].outbox \cup inst[i].read.outbox
      /\ inst'[i].lastAckedSeq = inst[i].read.document.lastAckedSeq
      /\ \/ socks' = socks
         \/ inst'[i].ws \in Sockets /\ ConnectedAt(inst'[i].ws, i)
  BY FinishInitSteps DEF Typed
<1>2. db' = db /\ requests' = requests /\ log' = log /\ registered' = registered
  BY DEF FinishInit
<1>3. /\ HonestRecords /\ HonestReads /\ HonestCursors /\ HonestJoins /\ Live
      /\ Shows /\ Owned /\ Types /\ Starting /\ TempsOnly
  BY DEF Informed, Typed, Connected, Covered
<1>4. Ids(inst'[i].view) = Ids(inst[i].read.document.state)
                             \cup Ids(inst[i].read.outbox)
  <2>1. inst[i].read.document.state \in Ops
    BY <1>1 DEF DocumentType
  <2> QED
    BY <1>1, <2>1, ApplyAll
<1>5. HonestRecords'
  BY <1>2, <1>3 DEF HonestRecords
<1>6. HonestReads'
  <2>1. inst'[i].read.document = None
    BY <1>1 DEF NothingRead
  <2> QED
    BY <1>1, <1>2, <1>3, <2>1 DEF HonestReads
<1>7. HonestCursors'
  <2>1. HonestRecord(log, inst[i].read.document)
    BY <1>1, <1>3 DEF HonestReads, Alive
  <2>2. Honest(log, inst'[i].lastAckedSeq, Ids(inst'[i].view))
    BY <1>1, <1>4, <2>1 DEF HonestRecord, Honest
  <2> QED
    BY <1>1, <1>2, <1>3, <2>2 DEF HonestCursors
<1>8. Shows'
  <2>1. \A op \in inst[i].outbox : op.id.replicaId \in TempIds
    <3>1. <<"temp", i>> \in TempIds
      BY DEF TempIds
    <3> QED
      BY <1>1, <1>3, <3>1 DEF TempsOnly
  <2>2. \A op \in inst[i].read.outbox : op.id \in Ids(inst'[i].view)
    BY <1>4 DEF Ids
  <2>3. Full(inst'[i].outbox, inst'[i].view)
    BY <1>1, <2>1, <2>2 DEF Full
  <2> QED
    BY <1>1, <1>3, <2>3 DEF Shows
<1>9. \A s \in Sockets : \/ socks'[s] = socks[s] /\ socks[s].owner # i
                         \/ /\ DOMAIN socks'[s].toServer = {}
                            /\ socks'[s].state = "connecting"
  BY <1>1, <1>3 DEF ConnectedAt, Starting
<1>10. HonestJoins'
  BY <1>1, <1>2, <1>3, <1>9 DEF HonestJoins, Owned
<1>11. Live'
  <2> SUFFICES ASSUME NEW r \in RecordIds, registered[r] # None,
                      socks'[registered[r]].state = "open"
               PROVE  Full(Saved, inst'[socks'[registered[r]].owner].view)
    BY <1>2 DEF Live, Reaches, Saved
  <2>1. /\ registered[r] \in Sockets /\ socks'[registered[r]] = socks[registered[r]]
        /\ socks[registered[r]].owner # i
    BY <1>3, <1>9 DEF Types
  <2>2. socks[registered[r]].owner \in Instances
    BY <1>3, <2>1 DEF Owned
  <2> QED
    BY <1>1, <1>3, <2>1, <2>2 DEF Live, Reaches
<1> QED
  BY <1>5, <1>6, <1>7, <1>8, <1>10, <1>11 DEF Informed

\* Whoever is reached still is, and has all that is saved by now.
LEMMA StillLive ==
    ASSUME Typed, Live, registered' = registered,
           \A s \in Sockets : /\ socks'[s].owner = socks[s].owner
                              /\ socks'[s].state = socks[s].state,
           \A i \in Instances :
             \/ Ids(inst[i].view) \subseteq Ids(inst'[i].view)
                  /\ Full(Saved' \ Saved, inst'[i].view)
             \/ Full(Saved', inst'[i].view)
             \/ \A r \in RecordIds : Reaches(registered[r]) =>
                  socks[registered[r]].owner # i
    PROVE  Live'
<1> SUFFICES ASSUME NEW r \in RecordIds, registered[r] # None,
                    socks'[registered[r]].state = "open"
             PROVE  Full(Saved', inst'[socks'[registered[r]].owner].view)
  BY DEF Live, Reaches
<1>1. registered[r] \in Sockets /\ Owned
  BY DEF Typed, Types
<1>2. Reaches(registered[r]) /\ socks[registered[r]].owner \in Instances
  BY <1>1 DEF Reaches, Owned
<1>3. Full(Saved, inst[socks[registered[r]].owner].view)
  BY <1>2 DEF Live
<1>4. socks'[registered[r]].owner = socks[registered[r]].owner
  BY <1>1
<1> QED
  BY <1>2, <1>3, <1>4 DEF Full

\* A character is typed.
LEMMA EditInformed ==
    ASSUME Typed, Typed', Informed, NEW i \in Instances, Edit(i)
    PROVE  Informed'
<1>1. PICK op \in insertOpSchema :
        Edited(i, op) /\ db' = db /\ registered' = registered /\ log' = log
  BY EditIs
<1> DEFINE message == [type |-> "op", ops |-> {op}]
<1>2. message.type # "join"
  OBVIOUS
<1> HIDE DEF message
<1>3. /\ \A j \in Instances : j # i => inst'[j] = inst[j]
      /\ \A j \in Instances : Alive(j)' <=> Alive(j)
      /\ Alive(i) /\ SameConnection(inst'[i], inst[i])
      /\ inst'[i].view = inst[i].view \cup {op}
      /\ inst'[i].outbox = {o \in inst[i].outbox : o.id # op.id} \cup {op}
      /\ inst'[i].lastAckedSeq = inst[i].lastAckedSeq
      /\ requests'.documents = requests.documents
      /\ \A t \in Sockets :
           /\ socks'[t].owner = socks[t].owner /\ socks'[t].state = socks[t].state
           /\ \/ socks'[t].toServer = socks[t].toServer
              \/ socks'[t].toServer = Append(socks[t].toServer, message)
  BY <1>1 DEF Edited, Learned, message, Current
<1>4. LogExtends /\ Saved' = Saved
  BY <1>1, SameLog
<1>5. DocumentsKeep
  BY <1>1, <1>3 DEF DocumentsKeep
<1>6. JoinsKeep
  <2> SUFFICES ASSUME NEW t \in Sockets, NEW k \in DOMAIN socks'[t].toServer,
                      socks'[t].toServer[k].type = "join"
               PROVE  \E l \in DOMAIN socks[t].toServer :
                        socks'[t].toServer[k] = socks[t].toServer[l]
    BY <1>3 DEF JoinsKeep
  <2>1. socks[t].toServer \in Seq(MessageType)
    BY DEF Typed, Types, SocksType, SocketType
  <2>2. CASE socks'[t].toServer = socks[t].toServer
    BY <2>2
  <2>3. CASE socks'[t].toServer = Append(socks[t].toServer, message)
    <3>1. \/ /\ k \in DOMAIN socks[t].toServer
             /\ socks'[t].toServer[k] = socks[t].toServer[k]
          \/ socks'[t].toServer[k] = message
      BY <2>1, <2>3, QueueOps
    <3> QED
      BY <1>2, <3>1
  <2> QED
    BY <1>3, <2>2, <2>3
<1>7. Ids(inst'[i].view) = Ids(inst[i].view) \cup {op.id}
  BY <1>3 DEF Ids
<1>8. Live'
  BY <1>1, <1>3, <1>4, <1>7, StillLive DEF Informed, Full
<1>9. \A j \in Instances : Alive(j)' => Wiser(j)
  <2>1. Shows
    BY DEF Informed
  <2>2. inst[i].phase = "ready" => Full(inst'[i].outbox, inst'[i].view)
    BY <1>3, <2>1 DEF Full, Shows, Ids
  <2>3. Wiser(i)
    BY <1>3, <1>7, <2>2 DEF Wiser, SameConnection
  <2>4. \A j \in Instances : j # i /\ Alive(j)' => Wiser(j)
    BY <1>3 DEF Wiser
  <2> QED
    BY <2>3, <2>4
<1> QED
  BY <1>4, <1>5, <1>6, <1>8, <1>9, InformedKept

\* Somebody else types: whoever is reached is told.
LEMMA RemoteEditInformed ==
    ASSUME Typed, Typed', Informed, RemoteEdit
    PROVE  Informed'
<1>1. PICK op \in insertOpSchema :
        /\ {op} \in Ops /\ Grown({op})
        /\ \A i \in Instances :
             /\ Alive(i)' <=> Alive(i)
             /\ Heard(i, None) =>
                  /\ inst[i] \in ClientType
                  /\ Learned(inst'[i], inst[i], applyAll(inst[i].view, {op}),
                             inst[i].outbox, inst[i].lastAckedSeq, inst[i].synced)
             /\ ~Heard(i, None) => inst'[i] = inst[i]
  BY RemoteEditIs
<1>2. /\ db' = db /\ requests' = requests /\ socks' = socks
      /\ registered' = registered
  BY DEF RemoteEdit
<1>3. LogExtends /\ Saved' = Saved \cup {op}
  BY <1>1 DEF Grown, LogExtends
<1>4. \A i \in Instances : Heard(i, None) =>
        Ids(inst'[i].view) = Ids(inst[i].view) \cup {op.id}
  <2> SUFFICES ASSUME NEW i \in Instances, Heard(i, None)
               PROVE  Ids(inst'[i].view) = Ids(inst[i].view) \cup {op.id}
    OBVIOUS
  <2>1. inst[i].view \in Ops /\ inst'[i].view = applyAll(inst[i].view, {op})
    BY <1>1 DEF Learned, ClientType
  <2>2. Ids({op}) = {op.id}
    BY DEF Ids
  <2>3. {op} \in Ops
    BY <1>1
  <2>4. Ids(applyAll(inst[i].view, {op})) = Ids(inst[i].view) \cup Ids({op})
    BY <2>1, <2>3, ApplyAll
  <2> QED
    BY <2>1, <2>2, <2>4
<1>5. \A i \in Instances : Alive(i)' => Wiser(i)
  BY <1>1, <1>4 DEF Wiser, Learned, SameConnection
<1>6. JoinsKeep /\ DocumentsKeep
  BY <1>2 DEF JoinsKeep, DocumentsKeep
<1>7. ASSUME NEW i \in Instances
      PROVE  \/ Ids(inst[i].view) \subseteq Ids(inst'[i].view)
                  /\ Full(Saved' \ Saved, inst'[i].view)
             \/ \A r \in RecordIds : Reaches(registered[r]) =>
                  socks[registered[r]].owner # i
  <2>1. CASE Heard(i, None)
    BY <1>3, <1>4, <2>1 DEF Full
  <2>2. CASE ~Heard(i, None)
    BY <2>2, NoneOutside DEF Heard
  <2> QED
    BY <2>1, <2>2
<1>8. Live'
  BY <1>2, <1>7, StillLive DEF Informed
<1> QED
  BY <1>3, <1>5, <1>6, <1>8, InformedKept

\* What an instance asks of the document's record is its own.
LEMMA PersistedDocuments ==
    ASSUME Typed, NEW i \in Instances, inst'[i].phase = "ready", NEW ids,
           Persisted(inst'[i], ids), db' = db
    PROVE  DocumentsKeep
<1> DEFINE record == [lastAckedSeq |-> inst'[i].lastAckedSeq,
                      state |-> inst'[i].view]
           put == [call |-> "put", record |-> record]
<1>1. /\ put.record.lastAckedSeq = inst'[i].lastAckedSeq
      /\ put.record.state = inst'[i].view
  OBVIOUS
<1>2. requests'.documents = Append(requests.documents, put)
  BY DEF Persisted
<1> HIDE DEF put
<1>3. requests.documents \in Seq(DocumentCalls)
  BY RequestFields DEF Typed
<1>4. \A k \in DOMAIN requests'.documents :
        \/ /\ k \in DOMAIN requests.documents
           /\ requests'.documents[k] = requests.documents[k]
        \/ requests'.documents[k] = put
  BY <1>2, <1>3, QueueOps
<1> QED
  BY <1>1, <1>4 DEF DocumentsKeep

\* The answer to a join is all that is saved.
LEMMA CaughtUpFull ==
    ASSUME Typed, Informed, NEW s \in Sockets, NEW m, Joined(s, m), Reaches(s),
           NEW i, i = socks[s].owner
    PROVE  /\ Full(Saved, inst'[i].view)
           /\ \/ Ids(inst[i].view) \subseteq Ids(inst'[i].view)
              \/ Full(inst[i].outbox, inst'[i].view)
<1>1. /\ i \in Instances /\ inst[i] \in ClientType
      /\ CaughtUp(inst'[i], inst[i], m.sinceSeq)
      /\ m = socks[s].toServer[1] /\ 1 \in DOMAIN socks[s].toServer
      /\ m.type = "join" /\ m.sinceSeq \in Nat
  BY DEF Joined
<1>2. inst[i].view \in Ops /\ inst[i].outbox \in Ops
  BY <1>1 DEF ClientType
<1>3. log \in Seq(insertOpSchema) /\ Saved \in Ops
  BY SavedTyped DEF Typed, Types
<1>4. CASE inst'[i].view = applyAll(inst[i].view,
                              {log[k] : k \in (m.sinceSeq + 1)..Len(log)})
  <2> DEFINE missed == {log[k] : k \in (m.sinceSeq + 1)..Len(log)}
  <2>1. missed \in Ops
    BY <1>1, <1>3, SavedTyped
  <2>2. Honest(log, m.sinceSeq, Ids(inst[i].view))
    BY <1>1, NoneOutside DEF Informed, HonestJoins
  <2>3. \A k \in (m.sinceSeq + 1)..Len(log) : log[k].id \in Ids(missed)
    BY DEF Ids
  <2>7. inst'[i].view = applyAll(inst[i].view, missed)
    BY <1>4
  <2> HIDE DEF missed
  <2>8. Ids(applyAll(inst[i].view, missed)) = Ids(inst[i].view) \cup Ids(missed)
    BY <1>2, <2>1, ApplyAll
  <2>4. Ids(inst'[i].view) = Ids(inst[i].view) \cup Ids(missed)
    BY <2>7, <2>8
  <2>5. \A k \in DOMAIN log :
          k \in 1..m.sinceSeq \/ k \in (m.sinceSeq + 1)..Len(log)
    BY <1>1, <1>3
  <2>6. Full(Saved, inst'[i].view)
    BY <2>2, <2>3, <2>4, <2>5 DEF Full, Saved, Honest
  <2> QED
    BY <2>4, <2>6
<1>5. CASE inst'[i].view = applyAll(Saved, inst[i].outbox)
  <2>1. Ids(inst'[i].view) = Ids(Saved) \cup Ids(inst[i].outbox)
    BY <1>2, <1>3, <1>5, ApplyAll
  <2> QED
    BY <2>1 DEF Full, Ids
<1> QED
  BY <1>1, <1>4, <1>5 DEF CaughtUp, Learned

\* The server takes a join.
LEMMA JoinInformed ==
    ASSUME Typed, Typed', Connected, Informed, NEW s \in Sockets,
           socks[s].toServer # <<>>, NEW m, Joined(s, m), db' = db
    PROVE  Informed'
<1>1. PICK i : i = socks[s].owner
  OBVIOUS
<1>2. Types /\ Owned /\ Starting /\ Live /\ Shows
  BY DEF Typed, Connected, Informed
<1>3. /\ log' = log /\ m.replicaId \in RecordIds
      /\ \A r \in RecordIds :
           registered'[r] = IF r = m.replicaId THEN s ELSE registered[r]
      /\ \A j \in Instances : Alive(j)' <=> Alive(j)
      /\ IF Reaches(s)
         THEN /\ i \in Instances /\ inst[i] \in ClientType
              /\ SameConnection(inst'[i], inst[i])
              /\ inst'[i].outbox = inst[i].outbox
              /\ inst'[i].lastAckedSeq = Len(log)
              /\ \A j \in Instances : j # i => inst'[j] = inst[j]
              /\ Persisted(inst'[i], {})
         ELSE inst' = inst /\ requests' = requests
      /\ \A t \in Sockets :
           /\ socks'[t].owner = socks[t].owner
           /\ socks'[t].state = "open" => socks[t].state = "open"
  BY <1>1 DEF Joined, CaughtUp, Learned, AfterJoin
<1>4. LogExtends /\ Saved' = Saved
  BY <1>3, SameLog
<1>5. Reaches(s) => /\ Full(Saved, inst'[i].view)
                    /\ \/ Ids(inst[i].view) \subseteq Ids(inst'[i].view)
                       \/ Full(inst[i].outbox, inst'[i].view)
  BY <1>1, CaughtUpFull
<1>6. ASSUME NEW j \in Instances, Alive(j)'
      PROVE  Wiser(j)
  <2>1. CASE Reaches(s) /\ j = i
    <3>1. /\ inst'[i].phase = inst[i].phase
          /\ inst'[i].read.document = inst[i].read.document
      BY <1>3, <2>1 DEF SameConnection
    <3> QED
      BY <1>3, <1>4, <1>5, <1>6, <2>1, <3>1 DEF Wiser
  <2>2. CASE inst'[j] = inst[j]
    BY <1>3, <1>6, <2>2 DEF Wiser
  <2> QED
    BY <1>3, <2>1, <2>2
<1>7. JoinsKeep
  <2> SUFFICES ASSUME NEW t \in Sockets, NEW k \in DOMAIN socks'[t].toServer,
                      socks'[t].toServer[k].type = "join"
               PROVE  \E l \in DOMAIN socks[t].toServer :
                        socks'[t].toServer[k] = socks[t].toServer[l]
    BY <1>3 DEF JoinsKeep
  <2>1. \/ \E l \in DOMAIN socks[t].toServer :
             socks'[t].toServer[k] = socks[t].toServer[l]
        \/ socks'[t].toServer[k] =
             [type |-> "op", ops |-> inst[socks[s].owner].outbox]
    BY JoinKeeps
  <2> QED
    BY <2>1
<1>8. DocumentsKeep
  <2>1. CASE Reaches(s)
    <3>1. inst'[i].phase = "ready"
      BY <1>1, <1>2, <1>3, <2>1 DEF Starting, ClientType, SameConnection
    <3> QED
      BY <1>3, <2>1, <3>1, PersistedDocuments
  <2>2. CASE ~Reaches(s)
    BY <1>3, <2>2 DEF DocumentsKeep
  <2> QED
    BY <2>1, <2>2
<1>9. Live'
  <2> SUFFICES ASSUME NEW r \in RecordIds, registered'[r] # None,
                      socks'[registered'[r]].state = "open"
               PROVE  Full(Saved, inst'[socks'[registered'[r]].owner].view)
    BY <1>4 DEF Live, Reaches
  <2>1. CASE r = m.replicaId
    <3>1. registered'[r] = s /\ Reaches(s)
      BY <1>3, <2>1, NoneOutside DEF Reaches
    <3> QED
      BY <1>1, <1>3, <1>5, <3>1
  <2>2. CASE r # m.replicaId
    <3>1. registered'[r] = registered[r] /\ registered[r] \in Sockets
      BY <1>2, <1>3, <2>2 DEF Types
    <3>2. /\ socks[registered[r]].state = "open"
          /\ socks'[registered[r]].owner = socks[registered[r]].owner
          /\ socks[registered[r]].owner \in Instances
      BY <1>2, <1>3, <3>1 DEF Owned
    <3>3. Full(Saved, inst[socks[registered[r]].owner].view)
      BY <1>2, <3>1, <3>2, NoneOutside DEF Live, Reaches
    <3> QED
      BY <1>3, <1>5, <3>1, <3>2, <3>3
  <2> QED
    BY <2>1, <2>2
<1> QED
  BY <1>4, <1>6, <1>7, <1>8, <1>9, InformedKept

\* Who sent operations has them, by their ids, unless they are temporary; and
\* who did not send them is told.
LEMMA AppliedFull ==
    ASSUME Typed, Connected, Covered, Informed, NEW s \in Sockets, NEW m,
           NEW fresh, Applied(s, m, fresh), NEW j \in Instances
    PROVE  /\ Alive(j) =>
                /\ inst'[j].phase = inst[j].phase
                /\ inst'[j].read.document = inst[j].read.document
                /\ Ids(inst[j].view) \subseteq Ids(inst'[j].view)
                /\ inst'[j].outbox \subseteq inst[j].outbox
                /\ \/ inst'[j].lastAckedSeq = inst[j].lastAckedSeq
                   \/ /\ inst'[j].lastAckedSeq = Len(log')
                      /\ Full(Saved', inst'[j].view)
           /\ \/ /\ Ids(inst[j].view) \subseteq Ids(inst'[j].view)
                 /\ Full(Saved' \ Saved, inst'[j].view)
              \/ Full(Saved', inst'[j].view)
              \/ \A r \in RecordIds : Reaches(registered[r]) =>
                   socks[registered[r]].owner # j
<1>1. PICK r : r = socks[s].joined
  OBVIOUS
<1>2. PICK w : w = registered[r]
  OBVIOUS
<1>3. /\ m = socks[s].toServer[1] /\ 1 \in DOMAIN socks[s].toServer
      /\ fresh = {op \in m.ops : op.id \notin Ids(Saved)}
      /\ m.type = "op" /\ m.ops \in Ops /\ r \in RecordIds /\ Grown(fresh)
      /\ AfterOps(j, m.ops, r, w)
  BY <1>1, <1>2 DEF Applied
<1>4. Saved' = Saved \cup fresh
  BY <1>3 DEF Grown
<1>5. w \in Sockets \cup {None} /\ Types /\ Owned
  BY <1>2, <1>3 DEF Typed, Types
<1>6. CASE Reaches(w) /\ j = socks[w].owner
  <2>1. /\ w \in Sockets /\ socks[w].state = "open" /\ Alive(j)
        /\ inst[j] \in ClientType
    BY <1>5, <1>6, ReachedAlive
  <2>2. Current(j) /\ inst[j].phase = "ready"
    BY <1>6, <2>1 DEF Connected, Linked, Starting, Current, ClientType
  <2>3. /\ SameConnection(inst'[j], inst[j])
        /\ inst'[j].outbox = {op \in inst[j].outbox : op.id \notin Ids(m.ops)}
        /\ inst'[j].lastAckedSeq = Len(log')
        /\ inst'[j].view = IF Heard(j, r) THEN applyAll(inst[j].view, m.ops)
                           ELSE inst[j].view
    BY <1>3, <1>6 DEF AfterOps, Learned
  <2>4. Ids(inst[j].view) \subseteq Ids(inst'[j].view)
    <3>1. inst[j].view \in Ops
      BY <2>1 DEF ClientType
    <3> QED
      BY <1>3, <2>3, <3>1, ApplyAll
  <2>5. Full(Saved, inst[j].view)
    BY <1>2, <1>3, <1>6 DEF Informed, Live
  <2>6. ASSUME NEW op \in fresh
        PROVE  op.id.replicaId \in TempIds \/ op.id \in Ids(inst[j].view)
    <3>1. op \in Wire
      BY <1>3, <2>6, WireIs
    <3>2. op \in stored \cup Pending
      BY <2>1, <3>1 DEF Covered, SentKept, PageOpen
    <3>3. op.id \in Ids(Saved) \cup Ids(inst[j].outbox)
      BY <2>2, <3>2 DEF Covered, Remembers, Ids
    <3>4. op.id \in Ids(inst[j].outbox)
      BY <1>3, <3>3
    <3> QED
      BY <2>2, <3>4 DEF Informed, Shows, Full, Ids
  <2>7. Full(Saved', inst'[j].view)
    BY <1>4, <2>4, <2>5, <2>6 DEF Full
  <2> QED
    BY <2>1, <2>3, <2>4, <2>7 DEF SameConnection
<1>7. CASE ~(Reaches(w) /\ j = socks[w].owner) /\ Heard(j, r)
  <2>1. /\ inst[j] \in ClientType /\ SameConnection(inst'[j], inst[j])
        /\ inst'[j].outbox = inst[j].outbox
        /\ inst'[j].lastAckedSeq = inst[j].lastAckedSeq
        /\ inst'[j].view = applyAll(inst[j].view, m.ops)
    BY <1>3, <1>7 DEF AfterOps, Learned
  <2>2. Ids(inst'[j].view) = Ids(inst[j].view) \cup Ids(m.ops)
    <3>1. inst[j].view \in Ops
      BY <2>1 DEF ClientType
    <3> QED
      BY <1>3, <2>1, <3>1, ApplyAll
  <2>3. Full(Saved' \ Saved, inst'[j].view)
    BY <1>3, <1>4, <2>2 DEF Full, Ids
  <2> QED
    BY <2>1, <2>2, <2>3 DEF SameConnection
<1>8. CASE ~(Reaches(w) /\ j = socks[w].owner) /\ ~Heard(j, r)
  <2>1. inst'[j] = inst[j]
    BY <1>3, <1>8 DEF AfterOps
  <2>2. \A q \in RecordIds : Reaches(registered[q]) => socks[registered[q]].owner # j
    BY <1>2, <1>8 DEF Heard
  <2> QED
    BY <2>1, <2>2
<1> QED
  BY <1>6, <1>7, <1>8

\* The server takes operations.
LEMMA ApplyInformed ==
    ASSUME Typed, Typed', Connected, Covered, Informed, NEW s \in Sockets,
           socks[s].toServer # <<>>, NEW m, NEW fresh, Applied(s, m, fresh),
           db' = db
    PROVE  Informed'
<1>1. PICK w : w = registered[socks[s].joined]
  OBVIOUS
<1>2. /\ socks[s].joined \in RecordIds /\ registered' = registered
      /\ Grown(fresh) /\ OneTaken(socks', s)
      /\ \A j \in Instances : Alive(j)' <=> Alive(j)
      /\ IF Reaches(w)
         THEN /\ socks[w].owner \in Instances
              /\ Persisted(inst'[socks[w].owner], Ids(m.ops))
         ELSE requests' = requests
  BY <1>1 DEF Applied
<1>3. LogExtends
  BY <1>2 DEF LogExtends, Grown
<1>4. \A j \in Instances : Alive(j)' => Wiser(j)
  BY <1>2, AppliedFull DEF Wiser
<1>5. JoinsKeep
  BY <1>2, TakenKept DEF JoinsKeep, OneTaken, Typed
<1>6. DocumentsKeep
  <2>1. CASE Reaches(w)
    <3>1. w \in Sockets \cup {None} /\ Types /\ Owned
      BY <1>1, <1>2 DEF Typed, Types
    <3>2. /\ inst[socks[w].owner] \in ClientType /\ Alive(socks[w].owner)
          /\ w \in Sockets
      BY <2>1, <3>1, ReachedAlive
    <3>3. inst[socks[w].owner].phase = "ready"
      BY <1>2, <2>1, <3>2 DEF Connected, Starting, ClientType
    <3>4. inst'[socks[w].owner].phase = "ready"
      BY <1>2, <2>1, <3>2, <3>3, AppliedFull
    <3> QED
      BY <1>2, <2>1, <3>4, PersistedDocuments
  <2>2. CASE ~Reaches(w)
    BY <1>2, <2>2 DEF DocumentsKeep
  <2> QED
    BY <2>1, <2>2
<1>7. Live'
  BY <1>2, AppliedFull, StillLive DEF Informed, OneTaken
<1> QED
  BY <1>3, <1>4, <1>5, <1>6, <1>7, InformedKept

\* At first there is nothing to know.
LEMMA InitInformed == Init => Informed
<1> SUFFICES ASSUME Init PROVE Informed
  OBVIOUS
<1>1. /\ \A i \in Instances : inst[i].phase = "none"
      /\ requests.documents = <<>> /\ log = <<>>
      /\ db.document.lastAckedSeq = 0
      /\ \A s \in Sockets : socks[s].owner = None
      /\ \A r \in RecordIds : registered[r] = None
  BY DEF Init, NoInstance, NoRequests, FreeSocket
<1>2. DOMAIN requests.documents = {} /\ Len(log) = 0
  BY <1>1
<1>3. HonestRecords
  BY <1>1, <1>2 DEF HonestRecords, HonestRecord, Honest
<1>4. HonestReads /\ HonestCursors /\ HonestJoins /\ Live /\ Shows
  BY <1>1 DEF HonestReads, HonestCursors, HonestJoins, Live, Shows, Alive, Reaches
<1> QED
  BY <1>3, <1>4 DEF Informed

\* Every step keeps the cursors honest.
LEMMA NextInformed ==
    ASSUME Typed, Typed', Connected, Covered, Informed, [Next]_vars
    PROVE  Informed'
<1>1. CASE UNCHANGED vars
  <2>1. /\ inst' = inst /\ socks' = socks /\ log' = log /\ requests' = requests
        /\ db' = db /\ registered' = registered /\ made' = made
        /\ stored' = stored /\ blind' = blind /\ torn' = torn
    BY <1>1 DEF vars, histVars
  <2>2. SameRecords /\ SameInstances /\ SameMessages
    BY <2>1 DEF SameRecords, SameInstances, Alive, Current, SameKnowledge,
                SameMessages
  <2>3. SameReached
    BY <2>1 DEF SameReached, Typed, Types
  <2> QED
    BY <2>2, <2>3, QuietInformed DEF Quiet
<1>2. CASE Mount
  BY <1>2, MountInformed
<1>3. CASE ClosePage
  BY <1>3, ClosePageInformed
<1>4. CASE ServeDocuments \/ ServeOutbox \/ ServeReplica
  BY <1>4, ServeInformed
<1>5. CASE RemoteEdit
  BY <1>5, RemoteEditInformed
<1>6. ASSUME NEW i \in Instances, Dispose(i) \/ GoOffline(i)
      PROVE  Informed'
  BY <1>6, ClosingQuiet, QuietInformed
<1>7. ASSUME NEW i \in Instances, Reconnect(i) \/ GoOnline(i)
      PROVE  Informed'
  BY <1>7, ConnectingQuiet, QuietInformed
<1>8. ASSUME NEW i \in Instances, FinishInit(i)
      PROVE  Informed'
  BY <1>8, FinishInitInformed
<1>9. ASSUME NEW i \in Instances, Edit(i)
      PROVE  Informed'
  BY <1>9, EditInformed
<1>10. ASSUME NEW s \in Sockets, Open(s)
       PROVE  Informed'
  BY <1>10, OpenQuiet, QuietInformed
<1>11. ASSUME NEW s \in Sockets, Break(s) \/ CloseEvent(s) \/ ServerClose(s)
       PROVE  Informed'
  BY <1>11, EndingQuiet, QuietInformed
<1>12. ASSUME NEW s \in Sockets, DispatchMessage(s)
       PROVE  Informed'
  <2>1. UNCHANGED <<db, histVars>> /\ db' = db
    BY <1>12 DEF DispatchMessage
  <2>2. PICK m : \/ Refuse(s, m, [socks EXCEPT ![s].toServer = Tail(@)])
                 \/ Joined(s, m)
                 \/ \E fresh \in Ops : Applied(s, m, fresh)
    BY <1>12, DispatchIs
  <2>3. socks[s].toServer # <<>>
    BY <1>12, DispatchIs
  <2>4. CASE Refuse(s, m, [socks EXCEPT ![s].toServer = Tail(@)])
    BY <2>1, <2>3, <2>4, RefuseQuiet, QuietInformed
  <2>5. CASE Joined(s, m)
    BY <2>1, <2>3, <2>5, JoinInformed
  <2>6. CASE \E fresh \in Ops : Applied(s, m, fresh)
    BY <2>1, <2>3, <2>6, ApplyInformed
  <2> QED
    BY <2>2, <2>4, <2>5, <2>6
<1> QED
  BY <1>1, <1>2, <1>3, <1>4, <1>5, <1>6, <1>7, <1>8, <1>9, <1>10, <1>11, <1>12
     DEF Next

-----------------------------------------------------------------------------
(* What the layers give *)

Informative == Typed /\ Connected /\ Covered /\ Informed

\* As long as the user does not return before the old socket has closed: the
\* layers together are an invariant of every behaviour of the browser.
THEOREM BrowserInvariant ==
    ASSUME ~QuickReturn
    PROVE  Spec => []Informative
<1>1. Init => Informative
  BY InitTyped, InitConnected, InitCovered, InitInformed DEF Informative
<1>2. Informative /\ [Next]_vars => Informative'
  <2> SUFFICES ASSUME Informative, [Next]_vars PROVE Informative'
    OBVIOUS
  <2>1. Typed /\ Connected /\ Covered /\ Informed
    BY DEF Informative
  <2>2. Typed'
    BY <2>1, NextTyped
  <2>3. Connected'
    BY <2>1, NextConnected
  <2>4. Covered'
    BY <2>1, NextCovered
  <2>5. Informed'
    BY <2>1, <2>2, NextInformed
  <2> QED
    BY <2>2, <2>3, <2>4, <2>5 DEF Informative
<1> QED
  BY <1>1, <1>2, PTL DEF Spec

\* An operation with the id of a temporary Rga that is kept was made here early.
LEMMA TempsEarly ==
    ASSUME FromHere, Held, NEW op,
           \/ op \in Saved
           \/ \E i \in Instances : Alive(i) /\ op \in inst[i].outbox,
           op.id.replicaId \in TempIds
    PROVE  op \in Early(made)
<1>1. op.id.replicaId # Elsewhere
  BY DEF TempIds, Elsewhere
<1>2. op \in made
  BY <1>1 DEF FromHere, Held
<1> QED
  BY <1>2 DEF Early

\* The honest cursors are those of the property.
LEMMA InformativeHonest ==
    ASSUME Informative
    PROVE  CursorHonest
<1>1. /\ FromHere /\ Held /\ HonestRecords /\ HonestCursors /\ Types
  BY DEF Informative, Covered, Informed, Typed
<1>2. ASSUME NEW n \in Nat, NEW ops, Honest(log, n, Ids(ops))
      PROVE  {log[k].id : k \in 1..n} \subseteq Ids(ops \cup Early(made))
  <2>1. Ids(ops) \subseteq Ids(ops \cup Early(made))
        /\ Ids(Early(made)) \subseteq Ids(ops \cup Early(made))
    BY IdsMonotone
  <2>2. \A k \in 1..n : k \in DOMAIN log
    BY <1>1, <1>2 DEF Honest, Types
  <2>3. \A k \in 1..n : log[k] \in Saved
    BY <2>2 DEF Saved
  <2> SUFFICES ASSUME NEW k \in 1..n
               PROVE  log[k].id \in Ids(ops \cup Early(made))
    OBVIOUS
  <2>4. CASE log[k].id.replicaId \in TempIds
    <3>1. log[k] \in Early(made)
      BY <1>1, <2>3, <2>4, TempsEarly
    <3>2. log[k].id \in Ids(Early(made))
      BY <3>1 DEF Ids
    <3> QED
      BY <2>1, <3>2
  <2> QED
    BY <1>2, <2>1, <2>4 DEF Honest
<1>3. db.document.lastAckedSeq \in Nat
  BY <1>1 DEF Types, DbType, DocumentType
<1>4. \A i \in Instances : inst[i].phase = "ready" => inst[i].lastAckedSeq \in Nat
  <2> SUFFICES ASSUME NEW i \in Instances, inst[i].phase = "ready"
               PROVE  inst[i].lastAckedSeq \in Nat
    OBVIOUS
  <2>1. inst[i] \in ClientType
    BY <1>1, AliveTyped DEF Alive
  <2> QED
    BY <2>1 DEF ClientType
<1>5. {log[k].id : k \in 1..db.document.lastAckedSeq}
        \subseteq Ids(db.document.state \cup Early(made))
  BY <1>1, <1>2, <1>3 DEF HonestRecords, HonestRecord
<1>6. \A i \in Instances : inst[i].phase = "ready" =>
        {log[k].id : k \in 1..inst[i].lastAckedSeq}
          \subseteq Ids(inst[i].view \cup Early(made))
  BY <1>1, <1>2, <1>4 DEF HonestCursors
<1> QED
  BY <1>5, <1>6 DEF CursorHonest

\* However pages are closed, connections break and answers are lost: the cursor
\* of an instance or of its record (documentClient.ts: lastAckedSeq) claims no
\* operation whose id its holder lacks, but for those typed before init resolved.
THEOREM BrowserCursorHonest ==
    ASSUME ~QuickReturn
    PROVE  Spec => []CursorHonest
<1>1. Informative => CursorHonest
  BY InformativeHonest
<1> QED
  BY <1>1, BrowserInvariant, PTL

\* What the property says of the outbox is what Shows says.
LEMMA InformativeShown ==
    ASSUME Informative
    PROVE  UnackedShown
<1>1. FromHere /\ Held /\ Shows
  BY DEF Informative, Covered, Informed
<1> SUFFICES ASSUME NEW i \in Instances, inst[i].phase = "ready",
                    NEW op \in inst[i].outbox
             PROVE  op.id \in Ids(inst[i].view \cup Early(made))
  BY DEF UnackedShown, Ids
<1>2. Ids(inst[i].view) \subseteq Ids(inst[i].view \cup Early(made))
      /\ Ids(Early(made)) \subseteq Ids(inst[i].view \cup Early(made))
  BY IdsMonotone
<1>3. CASE op.id.replicaId \in TempIds
  <2>1. op \in Early(made)
    BY <1>1, <1>3, TempsEarly DEF Alive
  <2>2. op.id \in Ids(Early(made))
    BY <2>1 DEF Ids
  <2> QED
    BY <1>2, <2>2
<1>4. CASE op.id.replicaId \notin TempIds
  BY <1>1, <1>2, <1>4 DEF Shows, Full
<1> QED
  BY <1>3, <1>4

\* After any join, snapshot, ack or reload (documentClient.ts: handleServerMessage,
\* init): the operations that the client still has to send are in its own Rga, by
\* their ids, but for those typed before init resolved.
THEOREM BrowserUnackedShown ==
    ASSUME ~QuickReturn
    PROVE  Spec => []UnackedShown
<1>1. Informative => UnackedShown
  BY InformativeShown
<1> QED
  BY <1>1, BrowserInvariant, PTL

-----------------------------------------------------------------------------
(* Why an id is used once *)

\* Who makes operations: an instance under the id of its record or, before init
\* resolves, under its own.  The author elsewhere counts.
Authors ==
    /\ \A op \in made : op.id.replicaId \in RecordIds \cup TempIds
    /\ \A op \in made, i \in Instances :
         op.id.replicaId = <<"temp", i>> => i <= MaxInstances - left.mounts

TempsShown == \A i \in Instances : inst[i].phase = "init" =>
    \A op \in made :
      op.id.replicaId = <<"temp", i>> => op.id \in Ids(inst[i].view)

FromElsewhere(ops) == {op \in ops : op.id.replicaId = Elsewhere}

Counted == \A op \in FromElsewhere(Saved) :
    op.id.counter <= Cardinality(FromElsewhere(Saved))

\* Of two operations with one id, one is blind, and the other is blind too or
\* was saved before.
Kept == Saved \cup stored \cup Pending \cup Wire

Excused(o, q) == o \in blind /\ q \in blind \cup Saved

Distinct == \A o, q \in Kept :
    o.id = q.id /\ o # q => Excused(o, q) \/ Excused(q, o)

Identified == Authors /\ TempsShown /\ Counted /\ Distinct

\* All that the server has saved of this browser's replicas is among the ids.
Known(saved, ids) ==
    \A op \in saved : op.id.replicaId \in RecordIds => op.id \in ids

\* Who has joined once, or starts from records that lost nothing, has seen it.
Caught == \A i \in Instances :
    inst[i].phase = "ready" /\ Current(i) /\ (inst[i].synced \/ ~torn) =>
      Known(Saved, Ids(inst[i].view))

\* The document's records that a request at position p of the queue would read:
\* that of the last put before it, or the one that is stored.
LastPut(q, p) ==
    /\ q = 0 \/ requests.documents[q].call = "put"
    /\ \A k \in (q + 1)..(p - 1) : requests.documents[k].call # "put"

RecordAt(q) == IF q = 0 THEN db.document ELSE requests.documents[q].record

ReadAt(p) == {RecordAt(q) : q \in {n \in 0..(p - 1) : LastPut(n, p)}}

\* A document that goes with the outbox read at position p: it has what is saved
\* and in no outbox record, also when the removals before p are done.
Removes(k) == /\ requests.outbox[k].call = "delete"
              /\ requests.outbox[k].key.replicaId \in RecordIds

Whole(d, p) ==
    /\ Known(Saved, Ids(d.state) \cup Ids(db.outbox) \cup Ids(Pending))
    /\ \A k \in DOMAIN requests.outbox :
         k < p /\ Removes(k) => requests.outbox[k].key \in Ids(d.state)

\* Unless requests were lost: the records that the next instance will read.
Final == ~torn =>
    \A d \in ReadAt(Len(requests.documents) + 1) :
      Whole(d, Len(requests.outbox) + 1)

\* And those that the current one has read or will read.
Reading(i, r) == r.call = "get" /\ r.by = i

MayRead(i) ==
    ({inst[i].read.document} \ {None}) \cup
    UNION {ReadAt(p) : p \in {k \in DOMAIN requests.documents :
                                Reading(i, requests.documents[k])}}

Reader == ~torn =>
    \A i \in Instances : inst[i].phase = "init" /\ Current(i) =>
      \A d \in MayRead(i) :
        /\ inst[i].read.outbox # None =>
             Known(Saved, Ids(d.state) \cup Ids(inst[i].read.outbox))
        /\ \A p \in DOMAIN requests.outbox :
             Reading(i, requests.outbox[p]) => Whole(d, p)

Aware == Caught /\ Final /\ Reader

\* A mount spends one of the budget.
MountsSpent == /\ left.mounts \in Int /\ left'.mounts \in Int
               /\ left'.mounts <= left.mounts

\* The budget for instances is only spent.
LEMMA MountsFall ==
    ASSUME Types, [Next]_vars
    PROVE  MountsSpent
<1> USE DEF MountsSpent
<1>1. left \in Budget /\ left.mounts \in 0..MaxInstances /\ MaxInstances \in Nat
  BY BrowserAssumption DEF Types, Budget
<1>2. CASE Mount
  <2>1. left'.mounts = left.mounts - 1
    BY <1>1, <1>2 DEF Mount, Spend, Budget
  <2> QED
    BY <1>1, <2>1
<1>3. CASE left' = left
  BY <1>1, <1>3
<1>4. CASE \E what \in {"unmounts", "edits", "remoteEdits", "breaks", "toggles"} :
             Spend(what)
  BY <1>1, <1>4, SpendTyped
<1>5. Mount \/ left' = left
      \/ \E what \in {"unmounts", "edits", "remoteEdits", "breaks", "toggles"} :
           Spend(what)
  <2>1. CASE UNCHANGED vars
    BY <2>1 DEF vars
  <2>2. CASE ClosePage \/ ServeDocuments \/ ServeOutbox \/ ServeReplica
    BY <2>2 DEF ClosePage, ServeDocuments, ServeOutbox, ServeReplica
  <2>3. CASE RemoteEdit
    BY <2>3 DEF RemoteEdit
  <2>4. ASSUME NEW i \in Instances,
               \/ Dispose(i) \/ FinishInit(i) \/ Reconnect(i) \/ GoOffline(i)
               \/ GoOnline(i) \/ Edit(i)
        PROVE  left' = left \/ Spend("unmounts") \/ Spend("edits")
               \/ Spend("toggles")
    BY <2>4 DEF Dispose, FinishInit, Reconnect, GoOffline, GoOnline, Edit
  <2>5. ASSUME NEW s \in Sockets,
               \/ Open(s) \/ Break(s) \/ CloseEvent(s) \/ DispatchMessage(s)
               \/ ServerClose(s)
        PROVE  left' = left \/ Spend("breaks")
    BY <2>5 DEF Open, Break, CloseEvent, DispatchMessage, ServerClose
  <2> QED
    BY <2>1, <2>2, <2>3, <2>4, <2>5 DEF Next
<1> QED
  BY <1>2, <1>3, <1>4, <1>5

\* A step that makes no operation: what is kept was kept, and saved stays saved.
LEMMA IdentifiedKept ==
    ASSUME Typed, Identified, made' = made, blind \subseteq blind',
           MountsSpent, Saved \subseteq Saved', FromElsewhere(Saved') = FromElsewhere(Saved),
           Kept' \subseteq Kept,
           \A i \in Instances : inst'[i].phase = "init" =>
             \/ /\ inst[i].phase = "init"
                /\ Ids(inst[i].view) \subseteq Ids(inst'[i].view)
             \/ i > MaxInstances - left.mounts
    PROVE  Identified'
<1>1. Authors /\ TempsShown /\ Counted /\ Distinct
  BY DEF Identified
<1>2. /\ MaxInstances \in Nat /\ \A i \in Instances : i \in Nat
      /\ left.mounts \in Int /\ left'.mounts \in Int /\ left'.mounts <= left.mounts
  BY BrowserAssumption DEF Instances, MountsSpent
<1>3. Authors'
  <2> SUFFICES ASSUME NEW op \in made, NEW i \in Instances,
                      op.id.replicaId = <<"temp", i>>
               PROVE  i <= MaxInstances - left'.mounts
    BY <1>1 DEF Authors
  <2>1. i <= MaxInstances - left.mounts
    BY <1>1 DEF Authors
  <2> QED
    BY <1>2, <2>1
<1>4. TempsShown'
  <2> SUFFICES ASSUME NEW i \in Instances, inst'[i].phase = "init",
                      NEW op \in made, op.id.replicaId = <<"temp", i>>
               PROVE  op.id \in Ids(inst'[i].view)
    BY DEF TempsShown
  <2>1. i <= MaxInstances - left.mounts
    BY <1>1 DEF Authors
  <2>2. ~(i > MaxInstances - left.mounts)
    BY <1>2, <2>1
  <2>3. /\ inst[i].phase = "init"
        /\ Ids(inst[i].view) \subseteq Ids(inst'[i].view)
    BY <2>2
  <2> QED
    BY <1>1, <2>3 DEF TempsShown
<1>5. Counted'
  BY <1>1 DEF Counted
<1>6. Distinct'
  BY <1>1 DEF Distinct, Excused
<1> QED
  BY <1>3, <1>4, <1>5, <1>6 DEF Identified

\* A step of the connection makes no operation.
LEMMA QuietIdentified ==
    ASSUME Typed, Identified, Quiet, MountsSpent
    PROVE  Identified'
<1>1. SameRecords /\ SameInstances /\ SameMessages
  BY DEF Quiet
<1>2. Saved' = Saved /\ Pending' = Pending /\ Wire' \subseteq Wire
  BY <1>1, QuietWire DEF Saved, Pending, SameRecords
<1>3. Kept' \subseteq Kept
  BY <1>1, <1>2 DEF Kept, SameRecords
<1>4. \A i \in Instances : inst'[i].phase = "init" =>
        /\ inst[i].phase = "init"
        /\ Ids(inst[i].view) \subseteq Ids(inst'[i].view)
  BY <1>1 DEF SameInstances, SameKnowledge, Alive
<1> QED
  BY <1>1, <1>2, <1>3, <1>4, IdentifiedKept DEF SameRecords

\* IndexedDB serves a request.
LEMMA ServeIdentified ==
    ASSUME Typed, Identified, MountsSpent,
           ServeDocuments \/ ServeOutbox \/ ServeReplica
    PROVE  Identified'
<1>1. /\ socks' = socks /\ log' = log /\ made' = made /\ blind' = blind
      /\ Types /\ Asked
  <2>1. CASE ServeDocuments \/ ServeReplica
    BY <2>1 DEF ServeDocuments, ServeReplica, histVars, Typed
  <2>2. CASE ServeOutbox
    BY <2>2 DEF ServeOutbox, Typed
  <2> QED
    BY <2>1, <2>2
<1>2. Saved' = Saved /\ Wire' = Wire
  BY <1>1 DEF Saved, Wire, SentOn
<1>3. \A i \in Instances : inst'[i].phase = "init" =>
        inst[i].phase = "init" /\ inst'[i].view = inst[i].view
  <2>1. inst' = inst \/ \E i, store, record : ReadOf(i, store, record)
    BY <1>1, ServeDocumentsSteps, ServeOutboxSteps, ServeReplicaSteps
  <2> QED
    BY <2>1 DEF ReadOf
<1>4. stored' \cup Pending' \subseteq stored \cup Pending
  <2>1. CASE ServeOutbox
    <3>1. PICK r : r = Head(requests.outbox)
      OBVIOUS
    <3>2. /\ r = requests.outbox[1] /\ 1 \in DOMAIN requests.outbox
          /\ Pending' \subseteq Pending
      BY <2>1, <3>1, ServedPending
    <3>3. stored' = stored \/ (r.call = "put" /\ stored' = stored \cup {r.op})
      BY <2>1, <3>1 DEF ServeOutbox
    <3>4. r.call = "put" => r.op \in Pending
      BY <3>2 DEF Pending
    <3> QED
      BY <3>2, <3>3, <3>4
  <2>2. CASE ServeDocuments \/ ServeReplica
    <3>1. requests'.outbox = requests.outbox
      BY <1>1, <2>2, ServeDocumentsSteps, ServeReplicaSteps
    <3>2. stored' = stored
      BY <2>2 DEF ServeDocuments, ServeReplica, histVars
    <3> QED
      BY <3>1, <3>2 DEF Pending
  <2> QED
    BY <2>1, <2>2
<1>5. Kept' \subseteq Kept
  BY <1>2, <1>4 DEF Kept
<1> QED
  BY <1>1, <1>2, <1>3, <1>5, IdentifiedKept

\* A new instance has made nothing yet.
LEMMA MountIdentified ==
    ASSUME Typed, Identified, Mount, MountsSpent
    PROVE  Identified'
<1>1. PICK i : i = MaxInstances - left.mounts + 1
  OBVIOUS
<1> DEFINE get == [call |-> "get", by |-> i]
<1>2. /\ \A j \in Instances : j # i => inst'[j] = inst[j]
      /\ requests'.outbox = Append(requests.outbox, get)
  BY <1>1, MountSteps DEF Typed
<1>3. get.call # "put"
  OBVIOUS
<1> HIDE DEF get
<1>4. /\ socks' = socks /\ log' = log /\ made' = made /\ stored' = stored
      /\ blind' = blind
  BY DEF Mount, histVars
<1>5. requests.outbox \in Seq(OutboxCalls)
  BY RequestFields DEF Typed
<1>6. \A k \in DOMAIN requests'.outbox :
        \/ /\ k \in DOMAIN requests.outbox
           /\ requests'.outbox[k] = requests.outbox[k]
        \/ requests'.outbox[k] = get
  BY <1>2, <1>5, QueueOps
<1>7. Pending' \subseteq Pending
  BY <1>3, <1>6 DEF Pending
<1>8. Saved' = Saved /\ Wire' = Wire
  BY <1>4 DEF Saved, Wire, SentOn
<1>9. Kept' \subseteq Kept
  BY <1>4, <1>7, <1>8 DEF Kept
<1>10. i > MaxInstances - left.mounts
  <2>1. MaxInstances \in Nat /\ left.mounts \in Int
    BY BrowserAssumption DEF MountsSpent
  <2> QED
    BY <1>1, <2>1
<1>11. \A j \in Instances : inst'[j].phase = "init" =>
         \/ inst[j].phase = "init" /\ inst'[j].view = inst[j].view
         \/ j > MaxInstances - left.mounts
  BY <1>2, <1>10
<1> QED
  BY <1>4, <1>8, <1>9, <1>11, IdentifiedKept

\* With the page operations are lost, but no id is.
LEMMA ClosePageIdentified ==
    ASSUME Typed, MountsSpent, Identified, ClosePage
    PROVE  Identified'
<1>1. /\ \A i \in Instances : inst'[i].phase = "none"
      /\ requests'.outbox = <<>>
  BY ClosePageSteps DEF Typed
<1>2. /\ db' = db /\ log' = log /\ made' = made /\ stored' = stored
      /\ blind' = blind
  BY Zenon DEF ClosePage
<1>3. DOMAIN requests'.outbox = {}
  BY <1>1
<1>4. Pending' = {} /\ Saved' = Saved /\ Wire' \subseteq Wire
  BY <1>2, <1>3, ClosePageWire DEF Pending, Saved
<1>5. Kept' \subseteq Kept
  BY <1>2, <1>4 DEF Kept
<1> QED
  BY <1>1, <1>2, <1>4, <1>5, IdentifiedKept

\* The rest of init makes no operation.
LEMMA FinishInitIdentified ==
    ASSUME Typed, Identified, NEW i \in Instances, FinishInit(i), MountsSpent
    PROVE  Identified'
<1>1. /\ \A j \in Instances : j # i => inst'[j] = inst[j]
      /\ inst'[i].phase = "ready"
  BY FinishInitSteps DEF Typed
<1>2. /\ requests' = requests /\ log' = log /\ made' = made
      /\ stored' = stored /\ blind' = blind
  BY DEF FinishInit, histVars
<1>3. Saved' = Saved /\ Pending' = Pending /\ Wire' \subseteq Wire
  BY <1>2, FinishInitWire DEF Saved, Pending
<1>4. Kept' \subseteq Kept
  BY <1>2, <1>3 DEF Kept
<1>5. \A j \in Instances : inst'[j].phase = "init" =>
        inst[j].phase = "init" /\ inst'[j].view = inst[j].view
  BY <1>1
<1> QED
  BY <1>2, <1>3, <1>4, <1>5, IdentifiedKept

\* What is asked of the outbox after a message makes nothing pending.
LEMMA PersistedPending ==
    ASSUME Typed, NEW you, NEW ids, Persisted(you, ids) \/ requests' = requests
    PROVE  Pending' \subseteq Pending
<1>1. CASE requests' = requests
  BY <1>1 DEF Pending
<1>2. CASE Persisted(you, ids)
  <2>1. requests.outbox \in Seq(OutboxCalls) /\ requests'.outbox \in Seq(OutboxCalls)
    BY <1>2 DEF Typed, Types, Persisted, RequestsType
  <2>2. /\ DOMAIN requests.outbox = 1..Len(requests.outbox)
        /\ DOMAIN requests'.outbox = 1..Len(requests'.outbox)
        /\ Len(requests.outbox) \in Nat /\ Len(requests'.outbox) \in Nat
    BY <2>1
  <2>3. \A k \in DOMAIN requests'.outbox :
          \/ k \in DOMAIN requests.outbox
          \/ k \in (Len(requests.outbox) + 1)..Len(requests'.outbox)
    BY <2>2
  <2>4. \A k \in DOMAIN requests'.outbox : requests'.outbox[k].call = "put" =>
          /\ k \in DOMAIN requests.outbox
          /\ requests'.outbox[k] = requests.outbox[k]
    BY <1>2, <2>2, <2>3 DEF Persisted
  <2> QED
    BY <2>4 DEF Pending
<1> QED
  BY <1>1, <1>2

\* The server takes a join: what is sent again is what an instance holds.
LEMMA JoinIdentified ==
    ASSUME Typed, Connected, Covered, Identified, MountsSpent,
           NEW s \in Sockets, socks[s].toServer # <<>>, NEW m, Joined(s, m),
           UNCHANGED <<db, histVars>>
    PROVE  Identified'
<1>1. PICK i : i = socks[s].owner
  OBVIOUS
<1>2. /\ log' = log
      /\ IF Reaches(s)
         THEN /\ i \in Instances /\ SameConnection(inst'[i], inst[i])
              /\ \A j \in Instances : j # i => inst'[j] = inst[j]
              /\ Persisted(inst'[i], {})
         ELSE inst' = inst /\ requests' = requests
  BY <1>1 DEF Joined, CaughtUp, Learned
<1>3. made' = made /\ stored' = stored /\ blind' = blind
  BY DEF histVars
<1>4. Saved' = Saved /\ Pending' \subseteq Pending
  BY <1>2, PersistedPending DEF Saved
<1>5. Wire' \subseteq Wire \cup stored \cup Pending
  <2>1. WireKeeps
    BY JoinWire
  <2> QED
    BY <2>1 DEF WireKeeps, Covered, Held
<1>6. Kept' \subseteq Kept
  BY <1>3, <1>4, <1>5 DEF Kept
<1>7. Reaches(s) => inst[i].phase # "init"
  BY <1>1, <1>2 DEF Connected, Starting
<1>8. \A j \in Instances : inst'[j].phase = "init" =>
        inst[j].phase = "init" /\ inst'[j].view = inst[j].view
  BY <1>2, <1>7 DEF SameConnection
<1> QED
  BY <1>3, <1>4, <1>6, <1>8, IdentifiedKept

\* The server takes operations: what is saved was on the wire.
LEMMA ApplyIdentified ==
    ASSUME Typed, Connected, Covered, Informed, Identified, MountsSpent,
           NEW s \in Sockets, socks[s].toServer # <<>>, NEW m, NEW fresh,
           Applied(s, m, fresh), UNCHANGED <<db, histVars>>
    PROVE  Identified'
<1>1. /\ m = socks[s].toServer[1] /\ 1 \in DOMAIN socks[s].toServer
      /\ fresh \subseteq m.ops /\ m.type = "op" /\ Grown(fresh)
      /\ OneTaken(socks', s) /\ \A j \in Instances : Alive(j)' <=> Alive(j)
      /\ \/ Persisted(inst'[socks[registered[socks[s].joined]].owner], Ids(m.ops))
         \/ requests' = requests
  BY DEF Applied
<1>2. made' = made /\ stored' = stored /\ blind' = blind
  BY DEF histVars
<1>3. Saved' = Saved \cup fresh /\ Wire' \subseteq Wire /\ fresh \subseteq Wire
  BY <1>1, TakenWire, WireIs DEF Grown
<1>4. Pending' \subseteq Pending
  BY <1>1, PersistedPending
<1>5. Kept' \subseteq Kept
  BY <1>2, <1>3, <1>4 DEF Kept
<1>6. FromElsewhere(Saved') = FromElsewhere(Saved)
  <2>1. \A op \in fresh : op \in made
    BY <1>3 DEF Covered, FromHere
  <2>2. Elsewhere \notin RecordIds \cup TempIds
    BY DEF Elsewhere, RecordIds, TempIds
  <2> QED
    BY <1>3, <2>1, <2>2 DEF FromElsewhere, Identified, Authors
<1>7. \A j \in Instances : inst'[j].phase = "init" =>
        /\ inst[j].phase = "init"
        /\ Ids(inst[j].view) \subseteq Ids(inst'[j].view)
  <2> SUFFICES ASSUME NEW j \in Instances, inst'[j].phase = "init"
               PROVE  /\ inst[j].phase = "init"
                      /\ Ids(inst[j].view) \subseteq Ids(inst'[j].view)
    OBVIOUS
  <2>1. Alive(j)
    BY <1>1 DEF Alive
  <2> QED
    BY <2>1, AppliedFull
<1> QED
  BY <1>2, <1>3, <1>5, <1>6, <1>7, IdentifiedKept

\* Somebody else types: the author elsewhere counts on.
LEMMA RemoteEditIdentified ==
    ASSUME Typed, Covered, Identified, MountsSpent, RemoteEdit
    PROVE  Identified'
<1>1. PICK op \in insertOpSchema :
        /\ op.id.replicaId = Elsewhere /\ Grown({op})
        /\ op.id.counter =
             Cardinality({q \in Saved : q.id.replicaId = Elsewhere}) + 1
        /\ \A i \in Instances :
             /\ Alive(i)' <=> Alive(i)
             /\ Heard(i, None) =>
                  Learned(inst'[i], inst[i], applyAll(inst[i].view, {op}),
                          inst[i].outbox, inst[i].lastAckedSeq, inst[i].synced)
             /\ ~Heard(i, None) => inst'[i] = inst[i]
  BY RemoteEditIs
<1>2. /\ socks' = socks /\ requests' = requests /\ made' = made
      /\ stored' = stored /\ blind' = blind
  BY DEF RemoteEdit, histVars
<1>3. /\ Authors /\ TempsShown /\ Counted /\ Distinct /\ FromHere
  BY DEF Identified, Covered
<1>4. Saved' = Saved \cup {op} /\ Pending' = Pending /\ Wire' = Wire
  BY <1>1, <1>2 DEF Grown, Pending, Wire, SentOn
<1>5. PICK n : n = Cardinality(FromElsewhere(Saved))
  OBVIOUS
<1>6. n \in Nat /\ IsFiniteSet(FromElsewhere(Saved))
  <2>1. Saved \in Ops
    BY SavedTyped DEF Typed, Types
  <2>2. IsFiniteSet(FromElsewhere(Saved))
    BY <2>1, FS_Subset DEF Ops, FromElsewhere
  <2> QED
    BY <1>5, <2>2, FS_CardinalityType
<1>7. op.id.counter = n + 1
  BY <1>1, <1>5 DEF FromElsewhere
<1>8. \A q \in FromElsewhere(Saved) : q.id.counter \in Nat /\ q.id.counter <= n
  <2>1. Saved \subseteq insertOpSchema
    BY SavedTyped DEF Typed, Types, Ops
  <2>2. \A q \in Saved : q.id.counter \in Nat
    BY <2>1 DEF insertOpSchema, opIdSchema
  <2> QED
    BY <1>3, <1>5, <2>2 DEF Counted, FromElsewhere
<1>9. \A q \in FromElsewhere(Saved) : q.id # op.id
  BY <1>6, <1>7, <1>8
<1>10. Counted'
  <2>1. FromElsewhere(Saved') = FromElsewhere(Saved) \cup {op}
    BY <1>1, <1>4 DEF FromElsewhere
  <2>2. op \notin FromElsewhere(Saved)
    BY <1>9
  <2>3. Cardinality(FromElsewhere(Saved')) = n + 1
    BY <1>5, <1>6, <2>1, <2>2, FS_AddElement
  <2>4. \A q \in FromElsewhere(Saved') : q.id.counter <= n + 1
    BY <1>6, <1>7, <1>8, <2>1
  <2> QED
    BY <2>3, <2>4 DEF Counted
<1>11. \A q \in Kept : q.id # op.id
  <2>1. Elsewhere \notin RecordIds \cup TempIds
    BY DEF Elsewhere, RecordIds, TempIds
  <2>2. \A q \in stored \cup Pending \cup Wire : q.id.replicaId # Elsewhere
    BY <1>3, <2>1 DEF FromHere, Authors
  <2> QED
    BY <1>1, <1>9, <2>2 DEF Kept, FromElsewhere
<1>12. Distinct'
  <2>1. Kept' = Kept \cup {op}
    BY <1>2, <1>4 DEF Kept
  <2> QED
    BY <1>2, <1>3, <1>4, <1>11, <2>1 DEF Distinct, Excused
<1>13. Authors'
  <2>1. left'.mounts = left.mounts
    BY SpendTyped DEF RemoteEdit, Typed
  <2> QED
    BY <1>2, <1>3, <2>1 DEF Authors
<1>14. TempsShown'
  <2>1. \A i \in Instances : inst'[i].phase = "init" =>
          inst[i].phase = "init" /\ inst[i].view \subseteq inst'[i].view
    BY <1>1 DEF Learned, SameConnection, applyAll
  <2> QED
    BY <1>2, <1>3, <2>1, IdsMonotone DEF TempsShown
<1> QED
  BY <1>10, <1>12, <1>13, <1>14 DEF Identified

\* A character is typed.  Its id is new, unless writes were lost and the client
\* has not seen yet what the server has saved of them.
LEMMA EditIdentified ==
    ASSUME Typed, Connected, Covered, Informed, Identified, Caught,
           NEW i \in Instances, Edit(i)
    PROVE  Identified'
<1>1. PICK op \in insertOpSchema :
        Edited(i, op) /\ log' = log /\ stored' = stored
  BY EditIs
<1>2. /\ Current(i) /\ Alive(i) /\ inst[i] \in ClientType
      /\ inst[i].phase = "init" => op.id.replicaId = <<"temp", i>>
      /\ inst[i].phase = "ready" => op.id.replicaId \in RecordIds
      /\ \A o \in inst[i].view : o.id.counter < op.id.counter
      /\ \A j \in Instances : j # i => inst'[j] = inst[j]
      /\ inst'[i].phase = inst[i].phase
      /\ inst'[i].view = inst[i].view \cup {op}
      /\ made' = made \cup {op} /\ left'.mounts = left.mounts
      /\ blind' = IF torn /\ ~inst[i].synced THEN blind \cup {op} ELSE blind
  BY <1>1 DEF Edited, Learned, SameConnection, Current
<1>3. /\ Authors /\ TempsShown /\ Counted /\ Distinct
      /\ FromHere /\ SentKept /\ Remembers /\ Shows
  BY DEF Identified, Covered, Informed
<1>4. inst[i].phase \in {"init", "ready"}
  BY <1>2 DEF ClientType
<1>5. /\ \A j, k \in Instances : <<"temp", j>> = <<"temp", k>> => j = k
      /\ \A j \in Instances : <<"temp", j>> \notin RecordIds
      /\ \A j \in Instances : <<"temp", j>> \in TempIds
      /\ Elsewhere \notin RecordIds \cup TempIds
      /\ \A r \in TempIds : r \notin RecordIds
  BY DEF RecordIds, TempIds, Elsewhere
<1>6. op.id \notin Ids(inst[i].view)
  <2>1. op.id.counter \in Nat
    BY <1>1 DEF insertOpSchema, opIdSchema
  <2> QED
    BY <1>2, <2>1 DEF Ids
<1>7. Saved' = Saved
  BY <1>1 DEF Saved
<1>8. Pending' = Pending \cup {op} /\ Wire' \subseteq Wire \cup {op}
  BY <1>1, EditSent
<1>9. Kept' \subseteq Kept \cup {op}
  BY <1>1, <1>7, <1>8 DEF Kept
<1>10. Authors'
  <2>1. op.id.replicaId \in RecordIds \cup TempIds
    BY <1>2, <1>4, <1>5
  <2>2. ASSUME NEW j \in Instances, op.id.replicaId = <<"temp", j>>
        PROVE  j <= MaxInstances - left.mounts
    <3>1. j = i
      BY <1>2, <1>4, <1>5, <2>2
    <3>2. ~(i > MaxInstances - left.mounts)
      BY <1>2 DEF Typed, NotYet
    <3>3. i \in Nat /\ MaxInstances \in Nat /\ left.mounts \in Nat
      BY BrowserAssumption DEF Typed, Types, Budget, Instances
    <3> QED
      BY <3>1, <3>2, <3>3
  <2> QED
    BY <1>2, <1>3, <2>1, <2>2 DEF Authors
<1>11. TempsShown'
  <2> SUFFICES ASSUME NEW j \in Instances, inst'[j].phase = "init",
                      NEW o \in made', o.id.replicaId = <<"temp", j>>
               PROVE  o.id \in Ids(inst'[j].view)
    BY DEF TempsShown
  <2>1. CASE o \in made
    <3>1. inst[j].phase = "init" /\ inst[j].view \subseteq inst'[j].view
      BY <1>2
    <3> QED
      BY <1>3, <2>1, <3>1, IdsMonotone DEF TempsShown
  <2>2. CASE o = op
    <3>1. j = i
      BY <1>2, <1>4, <1>5, <2>2
    <3> QED
      BY <1>2, <2>2, <3>1 DEF Ids
  <2> QED
    BY <1>2, <2>1, <2>2
<1>12. Counted'
  BY <1>3, <1>7 DEF Counted
<1>13. ASSUME NEW q \in Kept, q.id = op.id
       PROVE  op \in blind' /\ q \in blind \cup Saved
  <2>1. inst[i].phase = "ready"
    <3> SUFFICES ASSUME inst[i].phase = "init" PROVE FALSE
      BY <1>4
    <3>1. op.id.replicaId = <<"temp", i>> /\ op.id.replicaId # Elsewhere
      BY <1>2, <1>5
    <3>2. q \in made
      BY <1>3, <1>13, <3>1 DEF Kept, FromHere
    <3>3. q.id \in Ids(inst[i].view)
      BY <1>3, <1>13, <3>1, <3>2 DEF TempsShown
    <3> QED
      BY <1>6, <1>13, <3>3
  <2>2. op.id \notin Ids(inst[i].outbox)
    <3>1. ASSUME NEW o \in inst[i].outbox, o.id = op.id
          PROVE  FALSE
      <4>1. o.id.replicaId \notin TempIds
        BY <1>2, <1>5, <2>1, <3>1
      <4> QED
        BY <1>3, <1>6, <2>1, <3>1, <4>1 DEF Shows, Full
    <3> QED
      BY <3>1 DEF Ids
  <2>3. op.id \in Ids(Saved)
    <3>1. CASE q \in Saved
      BY <1>13, <3>1 DEF Ids
    <3>2. CASE q \notin Saved
      <4>1. q \in stored \cup Pending
        BY <1>2, <1>3, <3>2 DEF Kept, SentKept, PageOpen
      <4>2. q.id \in Ids(stored \cup Pending)
        BY <4>1 DEF Ids
      <4> QED
        BY <1>2, <1>3, <1>13, <2>1, <2>2, <4>2 DEF Remembers
    <3> QED
      BY <3>1, <3>2
  <2>4. PICK p \in Saved : p.id = op.id
    BY <2>3 DEF Ids
  <2>5. torn /\ ~inst[i].synced
    <3> SUFFICES ASSUME inst[i].synced \/ ~torn PROVE FALSE
      OBVIOUS
    <3>1. Known(Saved, Ids(inst[i].view))
      BY <1>2, <2>1 DEF Caught
    <3> QED
      BY <1>2, <1>6, <2>1, <2>4, <3>1 DEF Known
  <2>6. q \in blind \cup Saved
    <3> SUFFICES ASSUME q \notin Saved PROVE q \in blind
      OBVIOUS
    <3>1. p \in Kept /\ p # q /\ p.id = q.id
      BY <1>13, <2>4 DEF Kept
    <3>2. Excused(p, q) \/ Excused(q, p)
      BY <1>3, <3>1 DEF Distinct
    <3> QED
      BY <3>2 DEF Excused
  <2> QED
    BY <1>2, <2>5, <2>6
<1>14. Distinct'
  <2> SUFFICES ASSUME NEW o \in Kept \cup {op}, NEW q \in Kept \cup {op},
                      o.id = q.id, o # q
               PROVE  Excused(o, q)' \/ Excused(q, o)'
    BY <1>9 DEF Distinct
  <2>1. blind \subseteq blind'
    BY <1>2
  <2>2. CASE o \in Kept /\ q \in Kept
    BY <1>3, <1>7, <2>1, <2>2 DEF Distinct, Excused
  <2>3. CASE o = op /\ q \in Kept
    BY <1>7, <1>13, <2>1, <2>3 DEF Excused
  <2>4. CASE q = op /\ o \in Kept
    BY <1>7, <1>13, <2>1, <2>4 DEF Excused
  <2> QED
    BY <2>2, <2>3, <2>4
<1> QED
  BY <1>10, <1>11, <1>12, <1>14 DEF Identified

\* Nothing has been made yet.
LEMMA InitIdentified == Init => Identified
<1> SUFFICES ASSUME Init PROVE Identified
  OBVIOUS
<1>1. /\ \A i \in Instances : inst[i].phase = "none"
      /\ log = <<>> /\ made = {} /\ stored = {} /\ requests.outbox = <<>>
      /\ \A s \in Sockets : socks[s].toServer = <<>>
  BY DEF Init, NoInstance, NoRequests, FreeSocket
<1>2. DOMAIN log = {} /\ DOMAIN requests.outbox = {}
      /\ \A s \in Sockets : DOMAIN socks[s].toServer = {}
  BY <1>1
<1>3. Saved = {} /\ Pending = {} /\ Wire = {}
  BY <1>2, WireIs DEF Saved, Pending
<1> QED
  BY <1>1, <1>3 DEF Identified, Authors, TempsShown, Counted, FromElsewhere,
                    Distinct, Kept

-----------------------------------------------------------------------------
(* What the next page reads *)

\* A queue that was only appended to.
Longer(r, q) ==
    /\ Len(q) \in Nat /\ Len(r) \in Nat /\ Len(q) <= Len(r)
    /\ DOMAIN q = 1..Len(q) /\ DOMAIN r = 1..Len(r)
    /\ \A k \in 1..Len(q) : r[k] = q[k]

\* An operation on the wire that is not saved is shown by the current instance,
\* will be read by the one that starts, and is recorded or will be.
LEMMA FreshKnown ==
    ASSUME Covered, Shows, NEW op \in Wire, op.id.replicaId \in RecordIds,
           op.id \notin Ids(Saved)
    PROVE  /\ ~torn => op.id \in Ids(db.outbox) \cup Ids(Pending)
           /\ \A i \in Instances : inst[i].phase = "ready" /\ Current(i) =>
                op.id \in Ids(inst[i].view)
           /\ \A i \in Instances :
                inst[i].phase = "init" /\ Current(i) /\ inst[i].read.outbox # None
                  => op.id \in Ids(inst[i].read.outbox)
<1>1. /\ SentKept /\ StoredIds /\ TempsOnly /\ HasRead /\ Remembers
  BY DEF Covered
<1>2. PageOpen \/ ~torn => op.id \in Ids(stored) \cup Ids(Pending)
  BY <1>1, IdsMonotone DEF SentKept, Ids
<1>3. Ids(stored \cup Pending) = Ids(stored) \cup Ids(Pending)
  BY IdsUnion
<1>4. \A i \in Instances : <<"temp", i>> \in TempIds /\ <<"temp", i>> \notin RecordIds
  BY DEF TempIds, RecordIds
<1>5. op.id.replicaId \notin TempIds
  BY DEF TempIds, RecordIds
<1>6. ~torn => op.id \in Ids(db.outbox) \cup Ids(Pending)
  BY <1>1, <1>2 DEF StoredIds
<1>7. ASSUME NEW i \in Instances, inst[i].phase = "ready", Current(i)
      PROVE  op.id \in Ids(inst[i].view)
  <2>1. op.id \in Ids(inst[i].outbox)
    BY <1>1, <1>2, <1>3, <1>7 DEF PageOpen, Current, Remembers
  <2>2. PICK o \in inst[i].outbox : o.id = op.id
    BY <2>1 DEF Ids
  <2> QED
    BY <1>5, <1>7, <2>2 DEF Shows, Full
<1>8. ASSUME NEW i \in Instances, inst[i].phase = "init", Current(i),
             inst[i].read.outbox # None
      PROVE  op.id \in Ids(inst[i].read.outbox)
  <2>1. op.id \in Ids(inst[i].outbox) \cup Ids(inst[i].read.outbox)
    BY <1>1, <1>2, <1>3, <1>8 DEF PageOpen, Current, HasRead
  <2>2. op.id \notin Ids(inst[i].outbox)
    BY <1>1, <1>4, <1>8 DEF TempsOnly, Ids
  <2> QED
    BY <2>1, <2>2
<1> QED
  BY <1>6, <1>7, <1>8

\* Ids that had all that is saved have it still, with those of the wire.
LEMMA KnownGrows ==
    ASSUME SavedKeeps, NEW S, NEW T, Known(Saved, S), S \subseteq T,
           \A op \in Wire : op.id.replicaId \in RecordIds =>
             op.id \in Ids(Saved) \/ op.id \in T
    PROVE  Known(Saved', T)
<1>1. Elsewhere \notin RecordIds
  BY DEF Elsewhere, RecordIds
<1>2. \A op : op.id \in Ids(Saved) /\ op.id.replicaId \in RecordIds => op.id \in T
  BY DEF Ids, Known
<1> SUFFICES ASSUME NEW op \in Saved', op.id.replicaId \in RecordIds
             PROVE  op.id \in T
  BY DEF Known
<1>3. op \in Saved \/ op \in Wire
  BY <1>1 DEF SavedKeeps
<1> QED
  BY <1>2, <1>3 DEF Ids

\* A document that goes with the outbox at position p still does, when requests
\* come after p.
LEMMA WholeGrows ==
    ASSUME Covered, Shows, SavedKeeps, ~torn, db'.outbox = db.outbox,
           Pending \subseteq Pending', NEW d, NEW p,
           \A k \in DOMAIN requests'.outbox : k < p =>
             \/ /\ k \in DOMAIN requests.outbox
                /\ requests'.outbox[k] = requests.outbox[k]
             \/ requests'.outbox[k].call # "delete",
           Whole(d, p)
    PROVE  Whole(d, p)'
<1> DEFINE T == Ids(d.state) \cup Ids(db.outbox) \cup Ids(Pending)
           U == Ids(d.state) \cup Ids(db'.outbox) \cup Ids(Pending')
<1>1. T \subseteq U
  BY IdsMonotone
<1>2. Known(Saved, T)
  BY DEF Whole
<1>3. \A op \in Wire : op.id.replicaId \in RecordIds =>
        op.id \in Ids(Saved) \/ op.id \in U
  BY <1>1, FreshKnown
<1> HIDE DEF T, U
<1>4. Known(Saved', U)
  BY <1>1, <1>2, <1>3, KnownGrows
<1>5. \A k \in DOMAIN requests'.outbox :
        k < p /\ Removes(k)' => requests'.outbox[k].key \in Ids(d.state)
  BY DEF Whole, Removes
<1> QED
  BY <1>4, <1>5 DEF Whole, U

\* A position in the queue reads what it did, when requests come after it.
LEMMA ReadAtKept ==
    ASSUME Longer(requests'.documents, requests.documents),
           db'.document = db.document,
           NEW p \in 1..(Len(requests.documents) + 1)
    PROVE  ReadAt(p)' = ReadAt(p)
<1>1. \A k \in 1..(p - 1) : requests'.documents[k] = requests.documents[k]
  BY DEF Longer
<1>2. \A q \in 0..(p - 1) :
        /\ q = 0 \/ requests'.documents[q] = requests.documents[q]
        /\ RecordAt(q)' = RecordAt(q)
  BY <1>1 DEF RecordAt
<1>3. \A q \in 0..(p - 1) : \A k \in (q + 1)..(p - 1) :
        requests'.documents[k] = requests.documents[k]
  BY <1>1
<1>4. \A q \in 0..(p - 1) : LastPut(q, p)' <=> LastPut(q, p)
  BY <1>2, <1>3 DEF LastPut
<1> QED
  BY <1>2, <1>4 DEF ReadAt

\* The end of the queue reads what it did, when no put comes after it.
LEMMA ReadLastKept ==
    ASSUME Longer(requests'.documents, requests.documents),
           db'.document = db.document,
           \A k \in (Len(requests.documents) + 1)..Len(requests'.documents) :
             requests'.documents[k].call # "put",
           NEW n, n = Len(requests'.documents) + 1
    PROVE  ReadAt(n)' \subseteq ReadAt(Len(requests.documents) + 1)
<1>1. PICK m : m = Len(requests.documents) + 1
  OBVIOUS
<1>2. m \in Nat /\ n \in Nat /\ 1 <= m /\ m <= n
  BY <1>1 DEF Longer
<1>3. \A k \in 1..(m - 1) : requests'.documents[k] = requests.documents[k]
  BY <1>1 DEF Longer
<1>4. \A k \in m..(n - 1) : requests'.documents[k].call # "put"
  BY <1>1, <1>2 DEF Longer
<1> SUFFICES ASSUME NEW q \in 0..(n - 1), LastPut(q, n)'
             PROVE  RecordAt(q)' \in ReadAt(m)
  BY <1>1 DEF ReadAt
<1>5. q \in 0..(m - 1)
  <2>1. q = 0 \/ requests'.documents[q].call = "put"
    BY DEF LastPut
  <2> QED
    BY <1>2, <1>4, <2>1
<1>6. RecordAt(q)' = RecordAt(q)
  BY <1>3, <1>5 DEF RecordAt
<1>7. LastPut(q, m)
  <2>1. \A k \in (q + 1)..(m - 1) :
          k \in (q + 1)..(n - 1) /\ k \in 1..(m - 1)
    BY <1>2, <1>5
  <2>2. q = 0 \/ q \in 1..(m - 1)
    BY <1>5
  <2> QED
    BY <1>3, <2>1, <2>2 DEF LastPut
<1> QED
  BY <1>5, <1>6, <1>7 DEF ReadAt

\* When a put has come last, it is what the end of the queue reads.
LEMMA ReadLastPut ==
    ASSUME NEW put, put.call = "put", NEW q \in Seq(DocumentCalls),
           requests'.documents = Append(q, put),
           NEW n, n = Len(requests'.documents) + 1, NEW d \in ReadAt(n)'
    PROVE  d = put.record
<1>1. /\ Len(q) \in Nat /\ Len(requests'.documents) = Len(q) + 1
      /\ requests'.documents[Len(q) + 1] = put
  BY QueueOps
<1>2. PICK p \in 0..(n - 1) : LastPut(p, n)' /\ d = RecordAt(p)'
  BY DEF ReadAt
<1>3. n - 1 = Len(q) + 1 /\ n - 1 \in Nat /\ n - 1 # 0
  BY <1>1
<1>4. ~(n - 1 \in (p + 1)..(n - 1))
  BY <1>1, <1>2, <1>3 DEF LastPut
<1>5. p = n - 1
  BY <1>2, <1>3, <1>4
<1> QED
  BY <1>1, <1>2, <1>3, <1>5 DEF RecordAt

\* A step that asks for nothing to be read: whoever reads still reads what it did.
LEMMA ReaderKept ==
    ASSUME Covered, Shows, Reader, SavedKeeps, torn' = torn,
           db'.document = db.document, db'.outbox = db.outbox,
           Pending \subseteq Pending',
           Longer(requests'.documents, requests.documents),
           Longer(requests'.outbox, requests.outbox),
           \A k \in (Len(requests.documents) + 1)..Len(requests'.documents) :
             requests'.documents[k].call # "get",
           \A k \in (Len(requests.outbox) + 1)..Len(requests'.outbox) :
             requests'.outbox[k].call # "get",
           \A i \in Instances : inst'[i].phase = "init" /\ Current(i)' =>
             /\ inst[i].phase = "init" /\ Current(i)
             /\ inst'[i].read.document = inst[i].read.document
             /\ inst'[i].read.outbox = inst[i].read.outbox
    PROVE  Reader'
<1> SUFFICES ASSUME ~torn, NEW i \in Instances, inst'[i].phase = "init",
                    Current(i)', NEW d \in MayRead(i)'
             PROVE  /\ inst'[i].read.outbox # None =>
                         Known(Saved', Ids(d.state) \cup Ids(inst'[i].read.outbox))
                    /\ \A p \in DOMAIN requests'.outbox :
                         Reading(i, requests'.outbox[p]) => Whole(d, p)'
  BY DEF Reader
<1>1. /\ inst[i].phase = "init" /\ Current(i)
      /\ inst'[i].read.document = inst[i].read.document
      /\ inst'[i].read.outbox = inst[i].read.outbox
  OBVIOUS
<1>2. /\ DOMAIN requests.documents = 1..Len(requests.documents)
      /\ DOMAIN requests'.documents = 1..Len(requests'.documents)
      /\ Len(requests.documents) \in Nat /\ Len(requests'.documents) \in Nat
      /\ \A k \in 1..Len(requests.documents) :
           requests'.documents[k] = requests.documents[k]
  BY DEF Longer
<1>3. /\ DOMAIN requests.outbox = 1..Len(requests.outbox)
      /\ DOMAIN requests'.outbox = 1..Len(requests'.outbox)
      /\ Len(requests.outbox) \in Nat /\ Len(requests'.outbox) \in Nat
      /\ \A k \in 1..Len(requests.outbox) :
           requests'.outbox[k] = requests.outbox[k]
  BY DEF Longer
<1>4. d \in MayRead(i)
  <2>1. CASE d \in {inst'[i].read.document} \ {None}
    BY <1>1, <2>1 DEF MayRead
  <2>2. ASSUME NEW p \in DOMAIN requests'.documents,
               Reading(i, requests'.documents[p]), d \in ReadAt(p)'
        PROVE  d \in MayRead(i)
    <3>1. p \in 1..Len(requests.documents)
      BY <1>2, <2>2 DEF Reading
    <3>2. p \in 1..(Len(requests.documents) + 1)
      BY <1>2, <3>1
    <3>3. ReadAt(p)' = ReadAt(p)
      BY <3>2, ReadAtKept
    <3> QED
      BY <1>2, <2>2, <3>1, <3>3 DEF MayRead
  <2> QED
    BY <2>1, <2>2 DEF MayRead
<1>5. ASSUME inst'[i].read.outbox # None
      PROVE  Known(Saved', Ids(d.state) \cup Ids(inst'[i].read.outbox))
  <2>1. PICK S : S = Ids(d.state) \cup Ids(inst[i].read.outbox)
    OBVIOUS
  <2>2. Known(Saved, S)
    BY <1>1, <1>4, <1>5, <2>1 DEF Reader
  <2>3. \A op \in Wire : op.id.replicaId \in RecordIds =>
          op.id \in Ids(Saved) \/ op.id \in S
    BY <1>1, <1>5, <2>1, FreshKnown
  <2> QED
    BY <1>1, <2>1, <2>2, <2>3, KnownGrows
<1>6. ASSUME NEW p \in DOMAIN requests'.outbox, Reading(i, requests'.outbox[p])
      PROVE  Whole(d, p)'
  <2>1. p \in 1..Len(requests.outbox)
    BY <1>3, <1>6 DEF Reading
  <2>2. Whole(d, p)
    BY <1>1, <1>3, <1>4, <1>6, <2>1 DEF Reader
  <2>3. \A k \in DOMAIN requests'.outbox : k < p =>
          k \in DOMAIN requests.outbox /\ requests'.outbox[k] = requests.outbox[k]
    BY <1>3, <2>1
  <2> QED
    BY <2>2, <2>3, WholeGrows
<1> QED
  BY <1>5, <1>6

\* The records that the next instance will read are as they were, when no record
\* is put and none removed.
LEMMA FinalKept ==
    ASSUME Covered, Shows, Final, SavedKeeps, torn' = torn,
           db'.document = db.document, db'.outbox = db.outbox,
           Pending \subseteq Pending',
           Longer(requests'.documents, requests.documents),
           Longer(requests'.outbox, requests.outbox),
           \A k \in (Len(requests.documents) + 1)..Len(requests'.documents) :
             requests'.documents[k].call # "put",
           \A k \in (Len(requests.outbox) + 1)..Len(requests'.outbox) :
             requests'.outbox[k].call # "delete"
    PROVE  Final'
<1>1. PICK n : n = Len(requests'.documents) + 1
  OBVIOUS
<1>2. PICK p : p = Len(requests'.outbox) + 1
  OBVIOUS
<1> SUFFICES ASSUME ~torn, NEW d \in ReadAt(n)' PROVE Whole(d, p)'
  BY <1>1, <1>2 DEF Final
<1>3. d \in ReadAt(Len(requests.documents) + 1)
  BY <1>1, ReadLastKept
<1>4. PICK m : m = Len(requests.outbox) + 1
  OBVIOUS
<1>5. Whole(d, m)
  BY <1>3, <1>4 DEF Final
<1>6. /\ DOMAIN requests.outbox = 1..Len(requests.outbox)
      /\ DOMAIN requests'.outbox = 1..Len(requests'.outbox)
      /\ Len(requests.outbox) \in Nat /\ Len(requests'.outbox) \in Nat
      /\ \A k \in 1..Len(requests.outbox) :
           requests'.outbox[k] = requests.outbox[k]
  BY DEF Longer
<1>7. \A k \in DOMAIN requests'.outbox :
        \/ /\ k \in DOMAIN requests.outbox /\ k < m
           /\ requests'.outbox[k] = requests.outbox[k]
        \/ requests'.outbox[k].call # "delete"
  BY <1>4, <1>6
<1>8. \A k \in DOMAIN requests.outbox : k < p /\ Removes(k) =>
        requests.outbox[k].key \in Ids(d.state)
  BY <1>4, <1>5, <1>6 DEF Whole
<1>9. Whole(d, p)
  BY <1>5, <1>8 DEF Whole
<1> QED
  BY <1>7, <1>9, WholeGrows

\* Or there is a new last record: that of an instance with all that is saved.
LEMMA FinalPut ==
    ASSUME Typed, Deletes', NEW you, NEW ids, Persisted(you, ids),
           Full(Saved', you.view)
    PROVE  Final'
<1> DEFINE put == [call |-> "put", record |-> [lastAckedSeq |-> you.lastAckedSeq,
                                               state |-> you.view]]
<1>1. put.call = "put" /\ put.record.state = you.view
  OBVIOUS
<1>2. requests'.documents = Append(requests.documents, put)
  BY DEF Persisted
<1> HIDE DEF put
<1>3. requests.documents \in Seq(DocumentCalls)
  BY RequestFields DEF Typed
<1>4. PICK n : n = Len(requests'.documents) + 1
  OBVIOUS
<1>5. PICK p : p = Len(requests'.outbox) + 1
  OBVIOUS
<1> SUFFICES ASSUME NEW d \in ReadAt(n)' PROVE Whole(d, p)'
  BY <1>4, <1>5 DEF Final
<1>6. d = put.record
  BY <1>1, <1>2, <1>3, <1>4, ReadLastPut
<1>7. \A r \in RecordIds : r \notin TempIds
  BY DEF RecordIds, TempIds
<1>8. Known(Saved', Ids(d.state))
  BY <1>1, <1>6, <1>7 DEF Known, Full
<1>9. \A k \in DOMAIN requests'.outbox : Removes(k)' =>
        requests'.outbox[k].key \in Ids(d.state)
  BY <1>8 DEF Deletes, Removes, Ids, Known
<1> QED
  BY <1>8, <1>9 DEF Whole, Known

\* Whoever had seen all that is saved has, by what it shows or was told.
LEMMA CaughtKept ==
    ASSUME Covered, Shows, Caught, SavedKeeps, torn' = torn,
           \A i \in Instances : inst'[i].phase = "ready" /\ Current(i)' =>
             \/ /\ inst[i].phase = "ready" /\ Current(i)
                /\ inst'[i].synced = inst[i].synced
                /\ Ids(inst[i].view) \subseteq Ids(inst'[i].view)
             \/ Full(Saved', inst'[i].view)
    PROVE  Caught'
<1> SUFFICES ASSUME NEW i \in Instances, inst'[i].phase = "ready", Current(i)',
                    inst'[i].synced \/ ~torn
             PROVE  Known(Saved', Ids(inst'[i].view))
  BY DEF Caught
<1>1. CASE Full(Saved', inst'[i].view)
  <2>1. \A r \in RecordIds : r \notin TempIds
    BY DEF RecordIds, TempIds
  <2> QED
    BY <1>1, <2>1 DEF Known, Full
<1>2. CASE /\ inst[i].phase = "ready" /\ Current(i)
           /\ inst'[i].synced = inst[i].synced
           /\ Ids(inst[i].view) \subseteq Ids(inst'[i].view)
  <2>1. Known(Saved, Ids(inst[i].view))
    BY <1>2 DEF Caught
  <2>2. \A op \in Wire : op.id.replicaId \in RecordIds =>
          op.id \in Ids(Saved) \/ op.id \in Ids(inst'[i].view)
    BY <1>2, FreshKnown
  <2> QED
    BY <1>2, <2>1, <2>2, KnownGrows
<1> QED
  BY <1>1, <1>2

\* The queues as they are.
LEMMA QueuesSame ==
    ASSUME Typed
    PROVE  /\ \A q : q = requests.documents => Longer(q, requests.documents)
           /\ \A q : q = requests.outbox => Longer(q, requests.outbox)
BY RequestFields, QueueOps DEF Typed, Longer

\* The queues after a message was handled.
LEMMA QueuesPersisted ==
    ASSUME Typed, NEW you, NEW ids, Persisted(you, ids)
    PROVE  /\ Longer(requests'.documents, requests.documents)
           /\ Longer(requests'.outbox, requests.outbox)
           /\ \A k \in (Len(requests.documents) + 1)..Len(requests'.documents) :
                requests'.documents[k].call = "put"
           /\ \A k \in (Len(requests.outbox) + 1)..Len(requests'.outbox) :
                requests'.outbox[k].call = "delete"
           /\ Pending' = Pending
<1> DEFINE put == [call |-> "put", record |-> [lastAckedSeq |-> you.lastAckedSeq,
                                               state |-> you.view]]
<1>1. put.call = "put"
  OBVIOUS
<1>2. requests'.documents = Append(requests.documents, put)
  BY DEF Persisted
<1> HIDE DEF put
<1>3. /\ requests.documents \in Seq(DocumentCalls)
      /\ requests.outbox \in Seq(OutboxCalls)
      /\ requests'.outbox \in Seq(OutboxCalls)
  BY RequestFields DEF Typed, Types, Persisted, RequestsType
<1>4. /\ DOMAIN requests.documents = 1..Len(requests.documents)
      /\ DOMAIN requests'.documents = 1..(Len(requests.documents) + 1)
      /\ Len(requests.documents) \in Nat
      /\ Len(requests'.documents) = Len(requests.documents) + 1
      /\ \A k \in 1..Len(requests.documents) :
           requests'.documents[k] = requests.documents[k]
      /\ requests'.documents[Len(requests.documents) + 1] = put
  BY <1>2, <1>3, QueueOps
<1>5. /\ DOMAIN requests.outbox = 1..Len(requests.outbox)
      /\ DOMAIN requests'.outbox = 1..Len(requests'.outbox)
  BY <1>3
<1>6. Longer(requests'.documents, requests.documents)
  BY <1>4 DEF Longer
<1>7. Longer(requests'.outbox, requests.outbox)
  BY <1>5 DEF Persisted, Longer
<1>8. \A k \in (Len(requests.documents) + 1)..Len(requests'.documents) :
        requests'.documents[k].call = "put"
  BY <1>1, <1>4
<1>9. \A k \in (Len(requests.outbox) + 1)..Len(requests'.outbox) :
        requests'.outbox[k].call = "delete"
  BY DEF Persisted
<1>10. \A k \in DOMAIN requests'.outbox : requests'.outbox[k].call = "put" =>
         k \in DOMAIN requests.outbox
  <2> SUFFICES ASSUME NEW k \in DOMAIN requests'.outbox,
                      requests'.outbox[k].call = "put"
               PROVE  k \in DOMAIN requests.outbox
    OBVIOUS
  <2>1. ~(k \in (Len(requests.outbox) + 1)..Len(requests'.outbox))
    BY <1>9
  <2> QED
    BY <1>5, <2>1 DEF Persisted
<1>11. \A k \in DOMAIN requests.outbox :
         k \in DOMAIN requests'.outbox /\ requests'.outbox[k] = requests.outbox[k]
  BY <1>5, <1>7 DEF Longer
<1>12. Pending' = Pending
  BY <1>10, <1>11 DEF Pending
<1> QED
  BY <1>6, <1>7, <1>8, <1>9, <1>12

\* A step that asks for nothing and saves nothing.
LEMMA StillAware ==
    ASSUME Typed, Covered, Shows, Aware, log' = log, torn' = torn,
           db'.document = db.document, db'.outbox = db.outbox,
           requests'.documents = requests.documents,
           requests'.outbox = requests.outbox,
           \A i \in Instances : inst'[i].phase # "none" /\ Current(i)' =>
             /\ inst[i].phase = inst'[i].phase /\ Current(i)
             /\ inst'[i].read.document = inst[i].read.document
             /\ inst'[i].read.outbox = inst[i].read.outbox
             /\ inst'[i].synced = inst[i].synced /\ inst'[i].view = inst[i].view
    PROVE  Aware'
<1>1. Saved' = Saved /\ Pending' = Pending /\ SavedKeeps
  BY DEF Saved, Pending, SavedKeeps
<1>2. /\ Longer(requests'.documents, requests.documents)
      /\ Longer(requests'.outbox, requests.outbox)
  BY QueuesSame
<1>3. /\ \A k \in (Len(requests.documents) + 1)..Len(requests'.documents) : FALSE
      /\ \A k \in (Len(requests.outbox) + 1)..Len(requests'.outbox) : FALSE
  BY <1>2 DEF Longer
<1>4. Caught /\ Final /\ Reader
  BY DEF Aware
<1>5. Caught'
  BY <1>1, <1>4, CaughtKept
<1>6. Final'
  BY <1>1, <1>2, <1>3, <1>4, FinalKept
<1>7. Reader'
  BY <1>1, <1>2, <1>3, <1>4, ReaderKept
<1> QED
  BY <1>5, <1>6, <1>7 DEF Aware

\* A step of the connection.
LEMMA QuietAware ==
    ASSUME Typed, Covered, Shows, Aware, Quiet
    PROVE  Aware'
<1>1. SameRecords /\ SameInstances
  BY DEF Quiet
<1>2. \A i \in Instances : inst'[i].phase # "none" =>
        inst[i].phase = inst'[i].phase /\ SameKnowledge(inst'[i], inst[i])
  BY <1>1 DEF SameInstances, SameKnowledge, Alive
<1> QED
  BY <1>1, <1>2, StillAware DEF SameRecords, SameInstances, SameKnowledge

\* The replica's record says nothing of the operations.
LEMMA ServeReplicaAware ==
    ASSUME Typed, Covered, Shows, Aware, ServeReplica
    PROVE  Aware'
<1>1. PICK r : r = Head(requests.replica)
  OBVIOUS
<1>2. /\ requests'.documents = requests.documents
      /\ requests'.outbox = requests.outbox
      /\ db'.document = db.document /\ db'.outbox = db.outbox
      /\ inst' = inst \/ \E id \in RecordIds : ReadOf(r.by, "replica", id)
  BY <1>1, ServeReplicaSteps DEF Typed
<1>3. log' = log /\ torn' = torn
  BY DEF ServeReplica, histVars
<1>4. \A i \in Instances :
        /\ inst[i].phase = inst'[i].phase
        /\ Current(i)' => Current(i)
        /\ inst'[i].read.document = inst[i].read.document
        /\ inst'[i].read.outbox = inst[i].read.outbox
        /\ inst'[i].synced = inst[i].synced /\ inst'[i].view = inst[i].view
  <2>1. CASE inst' = inst
    BY <2>1 DEF Current, Alive
  <2>2. ASSUME NEW id \in RecordIds, ReadOf(r.by, "replica", id)
        PROVE  \A i \in Instances :
                 /\ inst[i].phase = inst'[i].phase
                 /\ Current(i)' => Current(i)
                 /\ inst'[i].read.document = inst[i].read.document
                 /\ inst'[i].read.outbox = inst[i].read.outbox
                 /\ inst'[i].synced = inst[i].synced
                 /\ inst'[i].view = inst[i].view
    <3>1. \A i \in Instances : i # r.by => inst'[i] = inst[i]
      BY <2>2 DEF ReadOf
    <3>2. /\ inst'[r.by].phase = inst[r.by].phase
          /\ inst'[r.by].closedByUser = inst[r.by].closedByUser
          /\ inst'[r.by].read.document = inst[r.by].read.document
          /\ inst'[r.by].read.outbox = inst[r.by].read.outbox
          /\ inst'[r.by].synced = inst[r.by].synced
          /\ inst'[r.by].view = inst[r.by].view
      BY <2>2 DEF ReadOf
    <3> QED
      BY <3>1, <3>2 DEF Current, Alive
  <2> QED
    BY <1>2, <2>1, <2>2
<1> QED
  BY <1>2, <1>3, <1>4, StillAware

\* Init resolves: the view is what was read.
LEMMA FinishInitAware ==
    ASSUME Typed, Connected, Covered, Shows, Aware, NEW i \in Instances,
           FinishInit(i)
    PROVE  Aware'
<1>1. /\ inst[i].phase = "init" /\ inst'[i].phase = "ready"
      /\ \A j \in Instances : j # i => inst'[j] = inst[j]
      /\ inst[i].read.document \in DocumentType /\ inst[i].read.outbox \in Ops
      /\ inst[i].read.document # None /\ inst[i].read.outbox # None
      /\ inst'[i].view =
           applyAll(inst[i].read.document.state, inst[i].read.outbox)
      /\ inst'[i].synced = inst[i].synced
      /\ inst'[i].closedByUser = inst[i].closedByUser
  BY FinishInitSteps DEF Typed
<1>2. /\ db' = db /\ requests' = requests /\ log' = log /\ torn' = torn
  BY DEF FinishInit, histVars
<1>3. Caught /\ Final /\ Reader
  BY DEF Aware
<1>4. Saved' = Saved /\ Pending' = Pending /\ SavedKeeps
  BY <1>2 DEF Saved, Pending, SavedKeeps
<1>5. /\ Longer(requests'.documents, requests.documents)
      /\ Longer(requests'.outbox, requests.outbox)
  BY <1>2, QueuesSame
<1>6. /\ \A k \in (Len(requests.documents) + 1)..Len(requests'.documents) : FALSE
      /\ \A k \in (Len(requests.outbox) + 1)..Len(requests'.outbox) : FALSE
  BY <1>2, <1>5 DEF Longer
<1>7. Final'
  BY <1>2, <1>3, <1>4, <1>5, <1>6, FinalKept
<1>8. \A j \in Instances : j # i => (Current(j)' <=> Current(j))
  BY <1>1 DEF Current, Alive
<1>9. Reader'
  BY <1>1, <1>2, <1>3, <1>4, <1>5, <1>6, <1>8, ReaderKept
<1>10. ASSUME Current(i)', ~torn
       PROVE  Known(Saved, Ids(inst'[i].view))
  <2>1. Current(i)
    BY <1>1, <1>10 DEF Current, Alive
  <2>2. inst[i].read.document \in MayRead(i)
    BY <1>1 DEF MayRead
  <2>3. Known(Saved, Ids(inst[i].read.document.state)
                       \cup Ids(inst[i].read.outbox))
    BY <1>1, <1>3, <1>10, <2>1, <2>2 DEF Reader
  <2>4. inst[i].read.document.state \in Ops
    BY <1>1 DEF DocumentType
  <2> QED
    BY <1>1, <2>3, <2>4, ApplyAll
<1>11. ~inst'[i].synced
  BY <1>1 DEF Connected, Starting
<1>12. Caught'
  BY <1>1, <1>2, <1>3, <1>4, <1>8, <1>10, <1>11 DEF Caught
<1> QED
  BY <1>7, <1>9, <1>12 DEF Aware

\* A character is typed: whoever knew what is saved still does.
LEMMA EditAware ==
    ASSUME Typed, Covered, Shows, Aware, NEW i \in Instances, Edit(i)
    PROVE  Aware'
<1>1. PICK op \in insertOpSchema :
        Edited(i, op) /\ db' = db /\ log' = log /\ torn' = torn
  BY EditIs
<1> DEFINE put == [call |-> "put", op |-> op]
<1>2. put.call = "put"
  OBVIOUS
<1> HIDE DEF put
<1>3. /\ \A j \in Instances : j # i => inst'[j] = inst[j]
      /\ SameConnection(inst'[i], inst[i])
      /\ inst'[i].view = inst[i].view \cup {op}
      /\ inst'[i].synced = inst[i].synced
      /\ requests'.outbox = Append(requests.outbox, put)
      /\ requests'.documents = requests.documents
  BY <1>1 DEF Edited, Learned, put
<1>4. Saved' = Saved /\ SavedKeeps /\ Pending \subseteq Pending'
  BY <1>1, EditSent DEF Saved, SavedKeeps
<1>5. requests.outbox \in Seq(OutboxCalls)
  BY RequestFields DEF Typed
<1>6. /\ Longer(requests'.documents, requests.documents)
      /\ \A k \in (Len(requests.documents) + 1)..Len(requests'.documents) : FALSE
  BY <1>3, QueuesSame DEF Longer
<1>7. /\ Longer(requests'.outbox, requests.outbox)
      /\ \A k \in (Len(requests.outbox) + 1)..Len(requests'.outbox) :
           requests'.outbox[k].call = "put"
  BY <1>2, <1>3, <1>5, QueueOps DEF Longer
<1>8. \A j \in Instances :
        /\ inst'[j].phase = inst[j].phase /\ (Current(j)' => Current(j))
        /\ inst'[j].read = inst[j].read /\ inst'[j].synced = inst[j].synced
        /\ inst[j].view \subseteq inst'[j].view
  BY <1>3 DEF SameConnection, Current, Alive
<1>9. \A j \in Instances : Ids(inst[j].view) \subseteq Ids(inst'[j].view)
  BY <1>8, IdsMonotone
<1>10. Caught /\ Final /\ Reader
  BY DEF Aware
<1>11. Caught'
  BY <1>1, <1>4, <1>8, <1>9, <1>10, CaughtKept
<1>12. Final'
  BY <1>1, <1>4, <1>6, <1>7, <1>10, FinalKept
<1>13. Reader'
  BY <1>1, <1>4, <1>6, <1>7, <1>8, <1>10, ReaderKept
<1> QED
  BY <1>11, <1>12, <1>13 DEF Aware

\* Somebody else types: nothing of this browser's is saved by it.
LEMMA RemoteEditAware ==
    ASSUME Typed, Covered, Shows, Aware, RemoteEdit
    PROVE  Aware'
<1>1. PICK op \in insertOpSchema :
        /\ op.id.replicaId = Elsewhere /\ Grown({op}) /\ {op} \in Ops
        /\ \A i \in Instances :
             /\ Alive(i)' <=> Alive(i)
             /\ Heard(i, None) =>
                  /\ inst[i] \in ClientType
                  /\ Learned(inst'[i], inst[i], applyAll(inst[i].view, {op}),
                             inst[i].outbox, inst[i].lastAckedSeq, inst[i].synced)
             /\ ~Heard(i, None) => inst'[i] = inst[i]
  BY RemoteEditIs
<1>2. db' = db /\ requests' = requests /\ torn' = torn
  BY DEF RemoteEdit, histVars
<1>3. SavedKeeps /\ Pending' = Pending
  BY <1>1, <1>2 DEF SavedKeeps, Grown, Pending
<1>4. /\ Longer(requests'.documents, requests.documents)
      /\ Longer(requests'.outbox, requests.outbox)
      /\ \A k \in (Len(requests.documents) + 1)..Len(requests'.documents) : FALSE
      /\ \A k \in (Len(requests.outbox) + 1)..Len(requests'.outbox) : FALSE
  BY <1>2, QueuesSame DEF Longer
<1>5. \A i \in Instances :
        /\ inst'[i].phase = inst[i].phase /\ (Current(i)' => Current(i))
        /\ inst'[i].read = inst[i].read /\ inst'[i].synced = inst[i].synced
        /\ inst[i].view \subseteq inst'[i].view
  BY <1>1 DEF Learned, SameConnection, Current, applyAll
<1>6. \A i \in Instances : Ids(inst[i].view) \subseteq Ids(inst'[i].view)
  BY <1>5, IdsMonotone
<1>7. Caught /\ Final /\ Reader
  BY DEF Aware
<1>8. Caught'
  BY <1>2, <1>3, <1>5, <1>6, <1>7, CaughtKept
<1>9. Final'
  BY <1>2, <1>3, <1>4, <1>7, FinalKept
<1>10. Reader'
  BY <1>2, <1>3, <1>4, <1>5, <1>7, ReaderKept
<1> QED
  BY <1>8, <1>9, <1>10 DEF Aware

\* After a message of the server the record that is asked for is what the
\* instance has by then, which is all that is saved.
LEMMA MessageAware ==
    ASSUME Typed, Covered, Deletes', Shows, Aware, SavedKeeps, torn' = torn, db' = db,
           \A i \in Instances : Alive(i)' => Alive(i),
           \A i \in Instances : Alive(i) =>
             /\ inst'[i].phase = inst[i].phase /\ (Current(i)' => Current(i))
             /\ inst'[i].read = inst[i].read
             /\ \/ /\ inst'[i].synced = inst[i].synced
                   /\ Ids(inst[i].view) \subseteq Ids(inst'[i].view)
                \/ Full(Saved', inst'[i].view),
           \/ requests' = requests
           \/ \E you, ids : Persisted(you, ids) /\ Full(Saved', you.view)
    PROVE  Aware'
<1>1. Caught /\ Final /\ Reader
  BY DEF Aware
<1>2. Caught'
  BY <1>1, CaughtKept DEF Alive
<1>3. CASE requests' = requests
  <2>1. /\ Longer(requests'.documents, requests.documents)
        /\ Longer(requests'.outbox, requests.outbox)
        /\ \A k \in (Len(requests.documents) + 1)..Len(requests'.documents) : FALSE
        /\ \A k \in (Len(requests.outbox) + 1)..Len(requests'.outbox) : FALSE
    BY <1>3, QueuesSame DEF Longer
  <2>2. Pending' = Pending
    BY <1>3 DEF Pending
  <2>3. Final'
    BY <1>1, <2>1, <2>2, FinalKept
  <2>4. Reader'
    BY <1>1, <2>1, <2>2, ReaderKept DEF Alive
  <2> QED
    BY <1>2, <2>3, <2>4 DEF Aware
<1>4. ASSUME NEW you, NEW ids, Persisted(you, ids), Full(Saved', you.view)
      PROVE  Aware'
  <2>1. Final'
    BY <1>4, FinalPut
  <2>2. /\ Longer(requests'.documents, requests.documents)
        /\ Longer(requests'.outbox, requests.outbox)
        /\ \A k \in (Len(requests.documents) + 1)..Len(requests'.documents) :
             requests'.documents[k].call = "put"
        /\ \A k \in (Len(requests.outbox) + 1)..Len(requests'.outbox) :
             requests'.outbox[k].call = "delete"
        /\ Pending' = Pending
    BY <1>4, QueuesPersisted
  <2>3. Reader'
    BY <1>1, <2>2, ReaderKept DEF Alive
  <2> QED
    BY <1>2, <2>1, <2>3 DEF Aware
<1> QED
  BY <1>3, <1>4

\* The server takes a join.
LEMMA JoinAware ==
    ASSUME Typed, Connected, Covered, Deletes', Informed, Aware,
           NEW s \in Sockets, socks[s].toServer # <<>>, NEW m, Joined(s, m),
           UNCHANGED <<db, histVars>>
    PROVE  Aware'
<1>1. PICK i : i = socks[s].owner
  OBVIOUS
<1>2. /\ log' = log /\ \A j \in Instances : Alive(j)' <=> Alive(j)
      /\ IF Reaches(s)
         THEN /\ i \in Instances /\ SameConnection(inst'[i], inst[i])
              /\ \A j \in Instances : j # i => inst'[j] = inst[j]
              /\ Persisted(inst'[i], {})
         ELSE inst' = inst /\ requests' = requests
  BY <1>1 DEF Joined, CaughtUp, Learned
<1>3. db' = db /\ torn' = torn
  BY DEF histVars
<1>4. Saved' = Saved /\ SavedKeeps
  BY <1>2 DEF Saved, SavedKeeps
<1>5. Shows
  BY DEF Informed
<1>6. CASE ~Reaches(s)
  BY <1>2, <1>3, <1>4, <1>5, <1>6, MessageAware DEF Covered, Current
<1>7. CASE Reaches(s)
  <2>1. Full(Saved', inst'[i].view)
    BY <1>1, <1>4, <1>7, CaughtUpFull
  <2>2. \A j \in Instances : Alive(j) =>
          /\ inst'[j].phase = inst[j].phase /\ (Current(j)' => Current(j))
          /\ inst'[j].read = inst[j].read
          /\ \/ /\ inst'[j].synced = inst[j].synced
                /\ Ids(inst[j].view) \subseteq Ids(inst'[j].view)
             \/ Full(Saved', inst'[j].view)
    BY <1>2, <1>7, <2>1 DEF SameConnection, Current
  <2>3. \E you, ids : Persisted(you, ids) /\ Full(Saved', you.view)
    BY <1>2, <1>7, <2>1
  <2> QED
    BY <1>2, <1>3, <1>4, <1>5, <2>2, <2>3, MessageAware
<1> QED
  BY <1>6, <1>7

\* The server takes operations: whoever is acked has all that is saved.
LEMMA ApplyAware ==
    ASSUME Typed, Connected, Covered, Deletes', Informed, Aware,
           NEW s \in Sockets, socks[s].toServer # <<>>, NEW m, NEW fresh,
           Applied(s, m, fresh), UNCHANGED <<db, histVars>>
    PROVE  Aware'
<1>1. PICK r : r = socks[s].joined
  OBVIOUS
<1>2. PICK w : w = registered[r]
  OBVIOUS
<1>3. /\ m = socks[s].toServer[1] /\ 1 \in DOMAIN socks[s].toServer
      /\ fresh \subseteq m.ops /\ m.type = "op" /\ Grown(fresh) /\ r \in RecordIds
      /\ \A j \in Instances : Alive(j)' <=> Alive(j)
      /\ \A j \in Instances : AfterOps(j, m.ops, r, w)
      /\ IF Reaches(w)
         THEN /\ socks[w].owner \in Instances
              /\ Persisted(inst'[socks[w].owner], Ids(m.ops))
         ELSE requests' = requests
  BY <1>1, <1>2 DEF Applied
<1>4. db' = db /\ torn' = torn
  BY DEF histVars
<1>5. SavedKeeps
  BY <1>3, WireIs DEF SavedKeeps, Grown
<1>6. Shows /\ Live
  BY DEF Informed
<1>7. \A j \in Instances : Alive(j) =>
        /\ inst'[j].phase = inst[j].phase /\ (Current(j)' => Current(j))
        /\ inst'[j].read = inst[j].read /\ inst'[j].synced = inst[j].synced
        /\ Ids(inst[j].view) \subseteq Ids(inst'[j].view)
  <2> SUFFICES ASSUME NEW j \in Instances, Alive(j)
               PROVE  /\ inst'[j].phase = inst[j].phase
                      /\ (Current(j)' => Current(j))
                      /\ inst'[j].read = inst[j].read
                      /\ inst'[j].synced = inst[j].synced
                      /\ Ids(inst[j].view) \subseteq Ids(inst'[j].view)
    OBVIOUS
  <2>1. Ids(inst[j].view) \subseteq Ids(inst'[j].view)
    BY AppliedFull
  <2>2. AfterOps(j, m.ops, r, w)
    BY <1>3
  <2>3. /\ inst'[j].phase = inst[j].phase /\ inst'[j].read = inst[j].read
        /\ inst'[j].closedByUser = inst[j].closedByUser
        /\ inst'[j].synced = inst[j].synced
    BY <2>2 DEF AfterOps, Learned, SameConnection
  <2> QED
    BY <2>1, <2>3 DEF Current
<1>8. CASE ~Reaches(w)
  BY <1>3, <1>4, <1>5, <1>6, <1>7, <1>8, MessageAware
<1>9. CASE Reaches(w)
  <2>1. PICK i \in Instances : i = socks[w].owner
    BY <1>3, <1>9
  <2>2. Full(Saved, inst[i].view)
    BY <1>2, <1>3, <1>6, <1>9, <2>1 DEF Live
  <2>3. \/ /\ Ids(inst[i].view) \subseteq Ids(inst'[i].view)
           /\ Full(Saved' \ Saved, inst'[i].view)
        \/ Full(Saved', inst'[i].view)
        \/ \A q \in RecordIds : Reaches(registered[q]) =>
             socks[registered[q]].owner # i
    BY AppliedFull
  <2>4. Full(Saved', inst'[i].view)
    BY <1>2, <1>3, <1>9, <2>1, <2>2, <2>3 DEF Full
  <2>5. \E you, ids : Persisted(you, ids) /\ Full(Saved', you.view)
    BY <1>3, <1>9, <2>1, <2>4
  <2> QED
    BY <1>3, <1>4, <1>5, <1>6, <1>7, <2>5, MessageAware
<1> QED
  BY <1>8, <1>9

\* A new instance asks for both records: it will read what the last puts before
\* its requests have left.
LEMMA MountAware ==
    ASSUME Typed, Covered, Shows, Aware, Mount
    PROVE  Aware'
<1>1. PICK i : i = MaxInstances - left.mounts + 1
  OBVIOUS
<1> DEFINE get == [call |-> "get", by |-> i]
<1>2. get.call = "get" /\ get.by = i
  OBVIOUS
<1>3. /\ i \in Instances /\ ~Alive(i) /\ inst'[i] = NewInstance
      /\ \A j \in Instances : j # i => inst'[j] = inst[j]
      /\ requests'.documents = Append(requests.documents, get)
      /\ requests'.outbox = Append(requests.outbox, get)
  BY <1>1, MountSteps DEF Typed
<1> HIDE DEF get
<1>4. /\ db' = db /\ log' = log /\ torn' = torn
      /\ \A j \in Instances : ~Current(j)
  BY DEF Mount, histVars
<1>5. /\ requests.documents \in Seq(DocumentCalls)
      /\ requests.outbox \in Seq(OutboxCalls)
  BY RequestFields DEF Typed
<1>6. PICK n : n = Len(requests.documents) + 1
  OBVIOUS
<1>7. PICK m : m = Len(requests.outbox) + 1
  OBVIOUS
<1>8. /\ n \in Nat /\ 1 <= n /\ DOMAIN requests.documents = 1..(n - 1)
      /\ DOMAIN requests'.documents = 1..n /\ requests'.documents[n] = get
      /\ Len(requests'.documents) = n
      /\ \A k \in 1..(n - 1) : requests'.documents[k] = requests.documents[k]
  BY <1>3, <1>5, <1>6, QueueOps
<1>9. /\ m \in Nat /\ 1 <= m /\ DOMAIN requests.outbox = 1..(m - 1)
      /\ DOMAIN requests'.outbox = 1..m /\ requests'.outbox[m] = get
      /\ Len(requests'.outbox) = m
      /\ \A k \in 1..(m - 1) : requests'.outbox[k] = requests.outbox[k]
  BY <1>3, <1>5, <1>7, QueueOps
<1>10. /\ Longer(requests'.documents, requests.documents)
       /\ Longer(requests'.outbox, requests.outbox)
  BY <1>6, <1>7, <1>8, <1>9 DEF Longer
<1>11. /\ \A k \in (Len(requests.documents) + 1)..Len(requests'.documents) :
            requests'.documents[k].call = "get"
       /\ \A k \in (Len(requests.outbox) + 1)..Len(requests'.outbox) :
            requests'.outbox[k].call = "get"
  BY <1>2, <1>6, <1>7, <1>8, <1>9
<1>12. Saved' = Saved /\ SavedKeeps
  BY <1>4 DEF Saved, SavedKeeps
<1>13. Pending \subseteq Pending'
  BY <1>9 DEF Pending
<1>14. Caught /\ Final /\ Reader
  BY DEF Aware
<1>15. Final'
  BY <1>4, <1>10, <1>11, <1>12, <1>13, <1>14, FinalKept
<1>16. \A j \in Instances : Current(j)' => j = i
  BY <1>3, <1>4 DEF Current, Alive
<1>17. inst'[i].phase = "init" /\ inst'[i].read.document = None
       /\ inst'[i].read.outbox = None
  BY <1>3 DEF NewInstance, NothingRead
<1>18. Caught'
  BY <1>16, <1>17 DEF Caught
<1>19. Reader'
  <2> SUFFICES ASSUME ~torn, NEW d \in MayRead(i)'
               PROVE  \A p \in DOMAIN requests'.outbox :
                        Reading(i, requests'.outbox[p]) => Whole(d, p)'
    BY <1>4, <1>16, <1>17 DEF Reader
  <2>1. PICK p \in DOMAIN requests'.documents :
          Reading(i, requests'.documents[p]) /\ d \in ReadAt(p)'
    BY <1>17 DEF MayRead
  <2>2. p = n
    <3> SUFFICES ASSUME p \in 1..(n - 1) PROVE FALSE
      BY <1>8
    <3> QED
      BY <1>3, <1>8, <2>1 DEF Reading, Typed, Asked
  <2>3. n \in 1..(Len(requests.documents) + 1)
    BY <1>6, <1>8
  <2>4. ReadAt(n)' = ReadAt(n)
    BY <1>4, <1>10, <2>3, ReadAtKept
  <2>5. Whole(d, m)
    BY <1>6, <1>7, <1>14, <2>1, <2>2, <2>4 DEF Final
  <2>6. Whole(d, m)'
    <3>1. \A k \in DOMAIN requests'.outbox : k < m =>
            /\ k \in DOMAIN requests.outbox
            /\ requests'.outbox[k] = requests.outbox[k]
      BY <1>9
    <3> QED
      BY <1>4, <1>12, <1>13, <2>5, <3>1, WholeGrows
  <2>7. ASSUME NEW q \in DOMAIN requests'.outbox, Reading(i, requests'.outbox[q])
        PROVE  q = m
    <3> SUFFICES ASSUME q \in 1..(m - 1) PROVE FALSE
      BY <1>9
    <3> QED
      BY <1>3, <1>9, <2>7 DEF Reading, Typed, Asked
  <2> QED
    BY <2>6, <2>7
<1> QED
  BY <1>15, <1>18, <1>19 DEF Aware

\* If nothing is lost with the page, the next one reads what is stored.
LEMMA ClosePageAware ==
    ASSUME Typed, Aware, ClosePage
    PROVE  Aware'
<1>1. /\ \A i \in Instances : inst'[i].phase = "none"
      /\ requests' = NoRequests
      /\ torn' \in BOOLEAN /\ (~torn' => ~torn /\ requests = NoRequests)
  BY ClosePageSteps DEF Typed
<1>2. db' = db /\ log' = log
  BY Zenon DEF ClosePage
<1>3. Caught' /\ Reader'
  BY <1>1 DEF Caught, Reader
<1>4. Final'
  <2> SUFFICES ASSUME ~torn' PROVE Final'
    BY DEF Final
  <2>1. requests' = requests /\ ~torn
    BY <1>1
  <2>2. Saved' = Saved /\ Pending' = Pending
    BY <1>2, <2>1 DEF Saved, Pending
  <2>3. \A d, p : Whole(d, p) => Whole(d, p)'
    BY <1>2, <2>1, <2>2 DEF Whole, Removes
  <2>4. \A p : ReadAt(p)' = ReadAt(p)
    BY <1>2, <2>1 DEF ReadAt, LastPut, RecordAt
  <2> QED
    BY <2>1, <2>3, <2>4 DEF Aware, Final
<1> QED
  BY <1>3, <1>4 DEF Aware

\* When the first request is served, what is read at a position is what was read
\* at the next one.
LEMMA ReadAtServed ==
    ASSUME Typed, ServeDocuments, NEW p \in 1..Len(requests.documents)
    PROVE  ReadAt(p)' \subseteq ReadAt(p + 1)
<1>1. PICK r : r = Head(requests.documents)
  OBVIOUS
<1>2. /\ requests.documents # <<>> /\ r = requests.documents[1]
      /\ requests'.documents = Tail(requests.documents)
      /\ \/ r.call = "get" /\ db' = db
         \/ r.call = "put" /\ db'.document = r.record
  BY <1>1, ServeDocumentsSteps DEF Typed
<1>3. requests.documents \in Seq(DocumentCalls)
  BY RequestFields DEF Typed
<1>4. /\ Len(requests.documents) \in Nat
      /\ \A k \in 1..(Len(requests.documents) - 1) :
           requests'.documents[k] = requests.documents[k + 1]
  BY <1>2, <1>3, QueueOps
<1>5. p \in Nat /\ \A k \in 1..(p - 1) :
        requests'.documents[k] = requests.documents[k + 1]
  BY <1>4
<1> SUFFICES ASSUME NEW q \in 0..(p - 1), LastPut(q, p)'
             PROVE  RecordAt(q)' \in ReadAt(p + 1)
  BY DEF ReadAt
<1>6. \A k \in (q + 1)..(p - 1) : requests.documents[k + 1].call # "put"
  <2>1. \A k \in (q + 1)..(p - 1) : k \in 1..(p - 1)
    BY <1>5
  <2> QED
    BY <1>5, <2>1 DEF LastPut
<1>7. \A k \in (q + 2)..p : requests.documents[k].call # "put"
  <2> SUFFICES ASSUME NEW k \in (q + 2)..p
               PROVE  requests.documents[k].call # "put"
    OBVIOUS
  <2>1. k - 1 \in (q + 1)..(p - 1) /\ (k - 1) + 1 = k
    BY <1>5
  <2> QED
    BY <1>6, <2>1
<1>8. CASE q # 0 \/ r.call = "put"
  <2>1. /\ requests.documents[q + 1].call = "put"
        /\ RecordAt(q)' = requests.documents[q + 1].record
    <3>1. CASE q # 0
      <4>1. q \in 1..(p - 1)
        BY <1>5, <3>1
      <4> QED
        BY <1>5, <3>1, <4>1 DEF LastPut, RecordAt
    <3>2. CASE q = 0 /\ r.call = "put"
      <4>1. 0 + 1 = 1
        OBVIOUS
      <4> QED
        BY <1>2, <3>2, <4>1 DEF RecordAt
    <3> QED
      BY <1>8, <3>1, <3>2
  <2>2. LastPut(q + 1, p + 1)
    <3>1. (p + 1) - 1 = p /\ (q + 1) + 1 = q + 2
      BY <1>5
    <3> QED
      BY <1>7, <2>1, <3>1 DEF LastPut
  <2>3. q + 1 \in 0..((p + 1) - 1) /\ q + 1 # 0
    BY <1>5
  <2>4. RecordAt(q + 1) = RecordAt(q)'
    BY <2>1, <2>3 DEF RecordAt
  <2> QED
    BY <2>2, <2>3, <2>4 DEF ReadAt
<1>9. CASE q = 0 /\ r.call = "get"
  <2>1. \A k \in 1..p : requests.documents[k].call # "put"
    <3>1. \A k \in 1..p : k = 1 \/ k \in 2..p
      BY <1>5
    <3>2. 0 + 2 = 2
      OBVIOUS
    <3> QED
      BY <1>2, <1>7, <1>9, <3>1, <3>2
  <2>2. LastPut(0, p + 1)
    <3>1. (p + 1) - 1 = p /\ 0 + 1 = 1
      BY <1>5
    <3> QED
      BY <2>1, <3>1 DEF LastPut
  <2>3. 0 \in 0..((p + 1) - 1)
    BY <1>5
  <2>4. RecordAt(0) = RecordAt(q)'
    BY <1>2, <1>9 DEF RecordAt
  <2> QED
    BY <2>2, <2>3, <2>4 DEF ReadAt
<1> QED
  BY <1>2, <1>8, <1>9

\* A request of the document's record is served.
LEMMA ServeDocumentsAware ==
    ASSUME Typed, Aware, ServeDocuments
    PROVE  Aware'
<1>1. PICK r : r = Head(requests.documents)
  OBVIOUS
<1>2. /\ requests.documents # <<>> /\ r = requests.documents[1]
      /\ requests'.documents = Tail(requests.documents)
      /\ requests'.outbox = requests.outbox /\ db'.outbox = db.outbox
      /\ \/ /\ r.call = "get"
            /\ ReadOf(r.by, "document", db.document) /\ db' = db
         \/ r.call = "put" /\ inst' = inst
  BY <1>1, ServeDocumentsSteps DEF Typed
<1>3. log' = log /\ torn' = torn
  BY DEF ServeDocuments, histVars
<1>4. Saved' = Saved /\ Pending' = Pending
  BY <1>2, <1>3 DEF Saved, Pending
<1>5. \A d, p : Whole(d, p) => Whole(d, p)'
  BY <1>2, <1>4 DEF Whole, Removes
<1>6. requests.documents \in Seq(DocumentCalls)
  BY RequestFields DEF Typed
<1>7. /\ Len(requests.documents) \in Nat /\ Len(requests.documents) > 0
      /\ DOMAIN requests.documents = 1..Len(requests.documents)
      /\ DOMAIN requests'.documents = 1..(Len(requests.documents) - 1)
      /\ Len(requests'.documents) = Len(requests.documents) - 1
      /\ \A k \in 1..(Len(requests.documents) - 1) :
           requests'.documents[k] = requests.documents[k + 1]
  BY <1>2, <1>6, QueueOps
<1>8. Caught /\ Final /\ Reader
  BY DEF Aware
<1>9. \A i \in Instances :
        /\ inst'[i].phase = inst[i].phase /\ (Current(i)' => Current(i))
        /\ inst'[i].read.outbox = inst[i].read.outbox
        /\ inst'[i].synced = inst[i].synced /\ inst'[i].view = inst[i].view
        /\ \/ inst'[i].read.document = inst[i].read.document
           \/ /\ r.call = "get" /\ r.by = i
              /\ inst'[i].read.document = db.document
  <2>1. CASE inst' = inst
    BY <2>1 DEF Current, Alive
  <2>2. CASE r.call = "get" /\ ReadOf(r.by, "document", db.document)
    <3>1. \A i \in Instances : i # r.by => inst'[i] = inst[i]
      BY <2>2 DEF ReadOf
    <3>2. /\ inst'[r.by].phase = inst[r.by].phase
          /\ inst'[r.by].closedByUser = inst[r.by].closedByUser
          /\ inst'[r.by].read.document = db.document
          /\ inst'[r.by].read.outbox = inst[r.by].read.outbox
          /\ inst'[r.by].synced = inst[r.by].synced
          /\ inst'[r.by].view = inst[r.by].view
      BY <2>2 DEF ReadOf
    <3> QED
      BY <2>2, <3>1, <3>2 DEF Current, Alive
  <2> QED
    BY <1>2, <2>1, <2>2
<1>10. Caught'
  BY <1>3, <1>4, <1>8, <1>9 DEF Caught
<1>11. Final'
  <2>1. PICK n : n = Len(requests.documents)
    OBVIOUS
  <2>2. Len(requests'.documents) + 1 = n /\ n \in 1..Len(requests.documents)
    BY <1>7, <2>1
  <2>3. ReadAt(n)' \subseteq ReadAt(n + 1)
    BY <2>2, ReadAtServed
  <2>4. PICK m : m = Len(requests.outbox) + 1
    OBVIOUS
  <2> SUFFICES ASSUME ~torn, NEW d \in ReadAt(n)' PROVE Whole(d, m)'
    BY <1>2, <1>3, <2>2, <2>4 DEF Final
  <2> QED
    BY <1>5, <1>8, <2>1, <2>3, <2>4 DEF Final
<1>12. Reader'
  <2> SUFFICES ASSUME ~torn, NEW i \in Instances, inst'[i].phase = "init",
                      Current(i)', NEW d \in MayRead(i)'
               PROVE  /\ inst'[i].read.outbox # None =>
                           Known(Saved', Ids(d.state) \cup Ids(inst'[i].read.outbox))
                      /\ \A p \in DOMAIN requests'.outbox :
                           Reading(i, requests'.outbox[p]) => Whole(d, p)'
    BY <1>3 DEF Reader
  <2>1. d \in MayRead(i)
    <3>1. CASE d = inst'[i].read.document /\ d # None
      <4>1. CASE inst'[i].read.document = inst[i].read.document
        BY <3>1, <4>1 DEF MayRead
      <4>2. CASE /\ r.call = "get" /\ r.by = i
                 /\ inst'[i].read.document = db.document
        <5>1. LastPut(0, 1)
          BY DEF LastPut
        <5>2. 0 \in 0..(1 - 1) /\ RecordAt(0) = d
          BY <3>1, <4>2 DEF RecordAt
        <5>3. d \in ReadAt(1)
          BY <5>1, <5>2 DEF ReadAt
        <5>4. 1 \in DOMAIN requests.documents /\ Reading(i, requests.documents[1])
          BY <1>2, <1>7, <4>2 DEF Reading
        <5> QED
          BY <5>3, <5>4 DEF MayRead
      <4> QED
        BY <1>9, <4>1, <4>2
    <3>2. ASSUME NEW p \in DOMAIN requests'.documents,
                 Reading(i, requests'.documents[p]), d \in ReadAt(p)'
          PROVE  d \in MayRead(i)
      <4>1. /\ p \in 1..Len(requests.documents)
            /\ p + 1 \in DOMAIN requests.documents
            /\ Reading(i, requests.documents[p + 1])
        BY <1>7, <3>2
      <4>2. d \in ReadAt(p + 1)
        BY <3>2, <4>1, ReadAtServed
      <4> QED
        BY <4>1, <4>2 DEF MayRead
    <3> QED
      BY <3>1, <3>2 DEF MayRead
  <2> QED
    BY <1>2, <1>4, <1>5, <1>8, <1>9, <2>1 DEF Reader
<1> QED
  BY <1>10, <1>11, <1>12 DEF Aware

\* A request of the outbox is served.
LEMMA ServeOutboxAware ==
    ASSUME Typed, Covered, Aware, ServeOutbox
    PROVE  Aware'
<1>1. PICK r : r = Head(requests.outbox)
  OBVIOUS
<1>2. /\ requests'.documents = requests.documents
      /\ requests'.outbox = Tail(requests.outbox)
      /\ \/ /\ r.call = "get" /\ ReadOf(r.by, "outbox", db.outbox) /\ db' = db
         \/ /\ r.call = "put" /\ inst' = inst /\ db'.document = db.document
            /\ db'.outbox = {op \in db.outbox : op.id # r.op.id} \cup {r.op}
         \/ /\ r.call = "delete" /\ inst' = inst /\ db'.document = db.document
            /\ db'.outbox = {op \in db.outbox : op.id # r.key}
  BY <1>1, ServeOutboxSteps DEF Typed
<1>3. /\ requests.outbox # <<>> /\ r = requests.outbox[1]
      /\ 1 \in DOMAIN requests.outbox
      /\ \A k \in DOMAIN requests'.outbox :
           /\ k + 1 \in DOMAIN requests.outbox /\ k \in Nat \ {0}
           /\ requests'.outbox[k] = requests.outbox[k + 1]
      /\ \A op \in Pending : op \in Pending' \/ (r.call = "put" /\ op = r.op)
  BY <1>1, ServedPending
<1>4. log' = log /\ torn' = torn
  BY DEF ServeOutbox
<1>5. Saved' = Saved
  BY <1>4 DEF Saved
<1>6. requests.outbox \in Seq(OutboxCalls)
  BY RequestFields DEF Typed
<1>7. Len(requests.outbox) \in Nat /\ Len(requests.outbox) > 0
      /\ Len(requests'.outbox) = Len(requests.outbox) - 1
      /\ DOMAIN requests.outbox = 1..Len(requests.outbox)
  BY <1>2, <1>3, <1>6, QueueOps
<1>8. Caught /\ Final /\ Reader
  BY DEF Aware
<1>9. \A p : ReadAt(p)' = ReadAt(p)
  BY <1>2 DEF ReadAt, LastPut, RecordAt
<1>10. \A i \in Instances :
        /\ inst'[i].phase = inst[i].phase /\ (Current(i)' => Current(i))
        /\ inst'[i].read.document = inst[i].read.document
        /\ inst'[i].synced = inst[i].synced /\ inst'[i].view = inst[i].view
        /\ \/ inst'[i].read.outbox = inst[i].read.outbox
           \/ /\ r.call = "get" /\ r.by = i
              /\ inst'[i].read.outbox = db.outbox
  <2>1. CASE inst' = inst
    BY <2>1 DEF Current, Alive
  <2>2. CASE r.call = "get" /\ ReadOf(r.by, "outbox", db.outbox)
    <3>1. \A i \in Instances : i # r.by => inst'[i] = inst[i]
      BY <2>2 DEF ReadOf
    <3>2. /\ inst'[r.by].phase = inst[r.by].phase
          /\ inst'[r.by].closedByUser = inst[r.by].closedByUser
          /\ inst'[r.by].read.outbox = db.outbox
          /\ inst'[r.by].read.document = inst[r.by].read.document
          /\ inst'[r.by].synced = inst[r.by].synced
          /\ inst'[r.by].view = inst[r.by].view
      BY <2>2 DEF ReadOf
    <3> QED
      BY <2>2, <3>1, <3>2 DEF Current, Alive
  <2> QED
    BY <1>2, <2>1, <2>2
<1>11. Caught'
  BY <1>4, <1>5, <1>8, <1>10 DEF Caught
<1>12. ASSUME NEW d, NEW p \in Nat \ {0}, Whole(d, p + 1)
       PROVE  Whole(d, p)'
  <2> DEFINE T == Ids(d.state) \cup Ids(db.outbox) \cup Ids(Pending)
             U == Ids(d.state) \cup Ids(db'.outbox) \cup Ids(Pending')
  <2>1. \A id \in T : \/ id \in U
                      \/ r.call = "delete" /\ id = r.key
    <3>1. \A op \in Pending : op.id \in Ids(Pending') \/ op.id \in Ids(db'.outbox)
      BY <1>2, <1>3 DEF Ids
    <3>2. \A op \in db.outbox : \/ op.id \in Ids(db'.outbox)
                                \/ r.call = "delete" /\ op.id = r.key
      BY <1>2 DEF Ids
    <3> QED
      BY <3>1, <3>2 DEF Ids
  <2>2. r.call = "delete" /\ r.key.replicaId \in RecordIds => r.key \in Ids(d.state)
    BY <1>3, <1>12 DEF Whole, Removes
  <2>3. Known(Saved, T)
    BY <1>12 DEF Whole
  <2>4. Ids(d.state) \subseteq U
    OBVIOUS
  <2> HIDE DEF T, U
  <2>5. Known(Saved', U)
    BY <1>5, <2>1, <2>2, <2>3, <2>4 DEF Known
  <2>6. \A k \in DOMAIN requests'.outbox : k < p /\ Removes(k)' =>
          requests'.outbox[k].key \in Ids(d.state)
    BY <1>3, <1>12 DEF Whole, Removes
  <2> QED
    BY <2>5, <2>6 DEF Whole, U
<1>13. Final'
  <2>1. PICK n : n = Len(requests.documents) + 1
    OBVIOUS
  <2>2. PICK m : m = Len(requests.outbox)
    OBVIOUS
  <2>3. Len(requests'.outbox) + 1 = m /\ m \in Nat \ {0}
    BY <1>7, <2>2
  <2> SUFFICES ASSUME ~torn, NEW d \in ReadAt(n) PROVE Whole(d, m)'
    BY <1>2, <1>4, <1>9, <2>1, <2>3 DEF Final
  <2> QED
    BY <1>8, <1>12, <2>1, <2>2, <2>3 DEF Final
<1>14. Reader'
  <2> SUFFICES ASSUME ~torn, NEW i \in Instances, inst'[i].phase = "init",
                      Current(i)', NEW d \in MayRead(i)'
               PROVE  /\ inst'[i].read.outbox # None =>
                           Known(Saved', Ids(d.state) \cup Ids(inst'[i].read.outbox))
                      /\ \A p \in DOMAIN requests'.outbox :
                           Reading(i, requests'.outbox[p]) => Whole(d, p)'
    BY <1>4 DEF Reader
  <2>1. d \in MayRead(i)
    BY <1>2, <1>9, <1>10 DEF MayRead
  <2>2. inst[i].phase = "init" /\ Current(i)
    BY <1>10
  <2>3. ASSUME NEW p \in DOMAIN requests'.outbox, Reading(i, requests'.outbox[p])
        PROVE  Whole(d, p)'
    BY <1>3, <1>8, <1>12, <2>1, <2>2, <2>3 DEF Reader
  <2>4. CASE inst'[i].read.outbox = inst[i].read.outbox
    BY <1>5, <1>8, <2>1, <2>2, <2>3, <2>4 DEF Reader
  <2>5. CASE /\ r.call = "get" /\ r.by = i /\ inst'[i].read.outbox = db.outbox
    <3>1. Reading(i, requests.outbox[1])
      BY <1>3, <2>5 DEF Reading
    <3>2. Whole(d, 1)
      BY <1>3, <1>8, <2>1, <2>2, <3>1 DEF Reader
    <3>3. \A op \in Pending : op.id.replicaId \notin RecordIds
      <4> SUFFICES ASSUME NEW k \in DOMAIN requests.outbox,
                          requests.outbox[k].call = "put"
                   PROVE  requests.outbox[k].op.id.replicaId \notin RecordIds
        BY PendingIs
      <4>1. 1 < k
        BY <1>3, <1>7, <2>5
      <4>2. requests.outbox[k].op.id \in Ids(inst[i].outbox)
        BY <1>3, <2>2, <2>5, <4>1 DEF Covered, AfterGet
      <4>3. requests.outbox[k].op.id.replicaId = <<"temp", i>>
        BY <2>2, <4>2 DEF Covered, TempsOnly, Ids
      <4> QED
        BY <4>3 DEF RecordIds
    <3>4. \A id \in Ids(Pending) : id.replicaId \notin RecordIds
      BY <3>3 DEF Ids
    <3>5. Known(Saved, Ids(d.state) \cup Ids(db.outbox))
      BY <3>2, <3>4 DEF Whole, Known
    <3> QED
      BY <1>5, <2>3, <2>5, <3>5
  <2> QED
    BY <1>10, <2>4, <2>5
<1> QED
  BY <1>11, <1>13, <1>14 DEF Aware

\* Nothing is saved yet.
LEMMA InitAware == Init => Aware
<1> SUFFICES ASSUME Init PROVE Aware
  OBVIOUS
<1>1. /\ \A i \in Instances : inst[i].phase = "none"
      /\ log = <<>> /\ requests.outbox = <<>>
  BY DEF Init, NoInstance, NoRequests
<1>2. DOMAIN log = {} /\ DOMAIN requests.outbox = {}
  BY <1>1
<1>3. Saved = {}
  BY <1>2 DEF Saved
<1> QED
  BY <1>1, <1>2, <1>3 DEF Aware, Caught, Final, Reader, Whole, Known

-----------------------------------------------------------------------------
(* What these layers give *)

\* A step that changes nothing is one of the connection.
LEMMA NothingQuiet ==
    ASSUME Typed, UNCHANGED vars
    PROVE  Quiet
<1>1. /\ inst' = inst /\ socks' = socks /\ log' = log /\ requests' = requests
      /\ db' = db /\ registered' = registered /\ made' = made
      /\ stored' = stored /\ blind' = blind /\ torn' = torn
  BY DEF vars, histVars
<1>2. SameRecords /\ SameInstances /\ SameMessages
  BY <1>1 DEF SameRecords, SameInstances, Alive, Current, SameKnowledge,
              SameMessages
<1>3. SameReached
  BY <1>1 DEF SameReached, Typed, Types
<1> QED
  BY <1>2, <1>3 DEF Quiet

\* Every step keeps what tells two operations apart.
LEMMA NextIdentified ==
    ASSUME Typed, Connected, Covered, Informed, Identified, Caught, [Next]_vars
    PROVE  Identified'
<1>1. MountsSpent
  BY MountsFall DEF Typed
<1>2. CASE UNCHANGED vars
  BY <1>1, <1>2, NothingQuiet, QuietIdentified
<1>3. CASE Mount
  BY <1>1, <1>3, MountIdentified
<1>4. CASE ClosePage
  BY <1>1, <1>4, ClosePageIdentified
<1>5. CASE ServeDocuments \/ ServeOutbox \/ ServeReplica
  BY <1>1, <1>5, ServeIdentified
<1>6. CASE RemoteEdit
  BY <1>1, <1>6, RemoteEditIdentified
<1>7. ASSUME NEW i \in Instances, Dispose(i) \/ GoOffline(i)
      PROVE  Identified'
  BY <1>1, <1>7, ClosingQuiet, QuietIdentified
<1>8. ASSUME NEW i \in Instances, Reconnect(i) \/ GoOnline(i)
      PROVE  Identified'
  BY <1>1, <1>8, ConnectingQuiet, QuietIdentified
<1>9. ASSUME NEW i \in Instances, FinishInit(i)
      PROVE  Identified'
  BY <1>1, <1>9, FinishInitIdentified
<1>10. ASSUME NEW i \in Instances, Edit(i)
       PROVE  Identified'
  BY <1>10, EditIdentified
<1>11. ASSUME NEW s \in Sockets, Open(s)
       PROVE  Identified'
  BY <1>1, <1>11, OpenQuiet, QuietIdentified
<1>12. ASSUME NEW s \in Sockets, Break(s) \/ CloseEvent(s) \/ ServerClose(s)
       PROVE  Identified'
  BY <1>1, <1>12, EndingQuiet, QuietIdentified
<1>13. ASSUME NEW s \in Sockets, DispatchMessage(s)
       PROVE  Identified'
  <2>1. UNCHANGED <<db, histVars>>
    BY <1>13 DEF DispatchMessage
  <2>2. PICK m : \/ Refuse(s, m, [socks EXCEPT ![s].toServer = Tail(@)])
                 \/ Joined(s, m)
                 \/ \E fresh \in Ops : Applied(s, m, fresh)
    BY <1>13, DispatchIs
  <2>3. socks[s].toServer # <<>>
    BY <1>13, DispatchIs
  <2>4. CASE Refuse(s, m, [socks EXCEPT ![s].toServer = Tail(@)])
    BY <1>1, <2>1, <2>3, <2>4, RefuseQuiet, QuietIdentified
  <2>5. CASE Joined(s, m)
    BY <1>1, <2>1, <2>3, <2>5, JoinIdentified
  <2>6. CASE \E fresh \in Ops : Applied(s, m, fresh)
    BY <1>1, <2>1, <2>3, <2>6, ApplyIdentified
  <2> QED
    BY <2>2, <2>4, <2>5, <2>6
<1> QED
  BY <1>2, <1>3, <1>4, <1>5, <1>6, <1>7, <1>8, <1>9, <1>10, <1>11, <1>12, <1>13
     DEF Next

\* Every step keeps what the current page knows and the next one will.
LEMMA NextAware ==
    ASSUME Typed, Connected, Covered, Covered', Informed, Aware, [Next]_vars
    PROVE  Aware'
<1>1. Shows /\ Deletes'
  BY DEF Informed, Covered
<1>2. CASE UNCHANGED vars
  BY <1>1, <1>2, NothingQuiet, QuietAware
<1>3. CASE Mount
  BY <1>1, <1>3, MountAware
<1>4. CASE ClosePage
  BY <1>4, ClosePageAware
<1>5. CASE ServeDocuments
  BY <1>5, ServeDocumentsAware
<1>6. CASE ServeOutbox
  BY <1>6, ServeOutboxAware
<1>7. CASE ServeReplica
  BY <1>1, <1>7, ServeReplicaAware
<1>8. CASE RemoteEdit
  BY <1>1, <1>8, RemoteEditAware
<1>9. ASSUME NEW i \in Instances, Dispose(i) \/ GoOffline(i)
      PROVE  Aware'
  BY <1>1, <1>9, ClosingQuiet, QuietAware
<1>10. ASSUME NEW i \in Instances, Reconnect(i) \/ GoOnline(i)
       PROVE  Aware'
  BY <1>1, <1>10, ConnectingQuiet, QuietAware
<1>11. ASSUME NEW i \in Instances, FinishInit(i)
       PROVE  Aware'
  BY <1>1, <1>11, FinishInitAware
<1>12. ASSUME NEW i \in Instances, Edit(i)
       PROVE  Aware'
  BY <1>1, <1>12, EditAware
<1>13. ASSUME NEW s \in Sockets, Open(s)
       PROVE  Aware'
  BY <1>1, <1>13, OpenQuiet, QuietAware
<1>14. ASSUME NEW s \in Sockets, Break(s) \/ CloseEvent(s) \/ ServerClose(s)
       PROVE  Aware'
  BY <1>1, <1>14, EndingQuiet, QuietAware
<1>15. ASSUME NEW s \in Sockets, DispatchMessage(s)
       PROVE  Aware'
  <2>1. UNCHANGED <<db, histVars>>
    BY <1>15 DEF DispatchMessage
  <2>2. PICK m : \/ Refuse(s, m, [socks EXCEPT ![s].toServer = Tail(@)])
                 \/ Joined(s, m)
                 \/ \E fresh \in Ops : Applied(s, m, fresh)
    BY <1>15, DispatchIs
  <2>3. socks[s].toServer # <<>>
    BY <1>15, DispatchIs
  <2>4. CASE Refuse(s, m, [socks EXCEPT ![s].toServer = Tail(@)])
    BY <1>1, <2>1, <2>3, <2>4, RefuseQuiet, QuietAware
  <2>5. CASE Joined(s, m)
    BY <1>1, <2>1, <2>3, <2>5, JoinAware
  <2>6. CASE \E fresh \in Ops : Applied(s, m, fresh)
    BY <1>1, <2>1, <2>3, <2>6, ApplyAware
  <2> QED
    BY <2>2, <2>4, <2>5, <2>6
<1> QED
  BY <1>2, <1>3, <1>4, <1>5, <1>6, <1>7, <1>8, <1>9, <1>10, <1>11, <1>12, <1>13,
     <1>14, <1>15 DEF Next

\* Under the same timing assumption: ids tell operations apart, and records that
\* lost nothing tell the next page what has been saved.
THEOREM BrowserIdentified ==
    ASSUME ~QuickReturn
    PROVE  Spec => [](Identified /\ Aware)
<1>1. Init => Identified /\ Aware
  BY InitIdentified, InitAware
<1>2. Informative /\ Informative' /\ Identified /\ Aware /\ [Next]_vars
        => (Identified /\ Aware)'
  <2> SUFFICES ASSUME Informative, Informative', Identified, Aware, [Next]_vars
               PROVE  Identified' /\ Aware'
    OBVIOUS
  <2>1. Typed /\ Connected /\ Covered /\ Informed /\ Covered'
    BY DEF Informative
  <2>2. Identified'
    BY <2>1, NextIdentified DEF Aware
  <2>3. Aware'
    BY <2>1, NextAware
  <2> QED
    BY <2>2, <2>3
<1> QED
  BY <1>1, <1>2, BrowserInvariant, PTL DEF Spec

\* However often the page is closed and writes are lost with it: two characters
\* that the server or the outbox (documentClient.ts: applyLocalEdits, db.ts:
\* addToOutbox) keeps have two ids, but for one typed before a join has brought
\* back what the lost writes had counted.
THEOREM BrowserIdsUnique ==
    ASSUME ~QuickReturn
    PROVE  Spec => []IdsUnique
<1>1. Identified => IdsUnique
  BY DEF Identified, Distinct, Kept, Excused, IdsUnique
<1> QED
  BY <1>1, BrowserIdentified, PTL

\* Two kept operations of one id, of which one is not blind: that one is saved.
LEMMA OutboxSurvives ==
    ASSUME Informative, Identified
    PROVE  StoredSurvives
<1>1. StoredIds /\ FromHere /\ Distinct
  BY DEF Informative, Covered, Identified
<1> SUFFICES ASSUME NEW op \in stored, op \notin blind, op \notin Saved
             PROVE  op \in db.outbox
  BY DEF StoredSurvives
<1>2. PICK p \in Saved \cup db.outbox : p.id = op.id
  BY <1>1 DEF StoredIds, Ids
<1>3. p \in Kept /\ op \in Kept
  BY <1>1, <1>2 DEF Kept, FromHere
<1>4. p = op
  BY <1>1, <1>2, <1>3 DEF Distinct, Excused
<1> QED
  BY <1>2, <1>4

\* Whenever the page is closed, a connection breaks or an answer is lost: a
\* character whose outbox record was committed (db.ts: addToOutbox) is in the
\* outbox until the server has saved it, but for one typed blindly.
THEOREM BrowserStoredSurvives ==
    ASSUME ~QuickReturn
    PROVE  Spec => []StoredSurvives
<1>1. Informative /\ Identified => StoredSurvives
  BY OutboxSurvives
<1> QED
  BY <1>1, BrowserInvariant, BrowserIdentified, PTL

=============================================================================
