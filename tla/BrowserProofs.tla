--------------------------- MODULE BrowserProofs ---------------------------
(***************************************************************************)
(* Proofs about Browser.tla: the types of what the page, IndexedDB and the *)
(* sockets hold, and which instance, request and socket belong together,   *)
(* for any number of instances, sockets and characters.                    *)
(***************************************************************************)
EXTENDS Browser, FiniteSetTheorems, WellFoundedInduction, TLAPS

-----------------------------------------------------------------------------
(* The typing invariant *)

\* Finite sets of operations: a view, an outbox, what a message carries.
Ops == {S \in SUBSET insertOpSchema : IsFiniteSet(S)}

DocumentType == [lastAckedSeq : Nat, state : Ops]

ReadType == [replica : RecordIds \cup {None},
             document : DocumentType \cup {None}, outbox : Ops \cup {None}]

ClientType ==
    [phase : {"init", "ready"}, read : ReadType,
     replicaId : RecordIds \cup {None}, view : Ops, outbox : Ops,
     lastAckedSeq : Nat, synced : BOOLEAN, ws : Sockets \cup {None},
     connectionState : {"connecting", "open", "closed"},
     heartbeat : BOOLEAN, timer : BOOLEAN, offline : BOOLEAN,
     closedByUser : BOOLEAN]

MessageType ==
    [type : {"join"}, replicaId : RecordIds \cup {None}, sinceSeq : Nat]
      \cup [type : {"op"}, ops : Ops]

SocketType ==
    [owner : Instances \cup {None},
     state : {"free", "connecting", "open", "closing"},
     server : {"none", "open"}, joined : RecordIds \cup {None},
     toServer : Seq(MessageType)]

Gets == [call : {"get"}, by : Instances]
DocumentCalls == Gets \cup [call : {"put"}, record : DocumentType]
OutboxCalls == Gets \cup [call : {"put"}, op : insertOpSchema]
                 \cup [call : {"delete"}, key : opIdSchema]
ReplicaCalls == Gets \cup [call : {"put"}, by : Instances]

RequestsType == [documents : Seq(DocumentCalls), outbox : Seq(OutboxCalls),
                 replica : Seq(ReplicaCalls)]

DbType == [replica : RecordIds \cup {None}, document : DocumentType,
           outbox : Ops]

InstType == [Instances -> ClientType \cup {NoInstance}]
SocksType == [Sockets -> SocketType]

Types ==
    /\ left \in Budget /\ db \in DbType /\ requests \in RequestsType
    /\ inst \in InstType /\ socks \in SocksType
    /\ registered \in [RecordIds -> Sockets \cup {None}]
    /\ log \in Seq(insertOpSchema)
    /\ made \in Ops /\ stored \in Ops /\ blind \in Ops /\ torn \in BOOLEAN

\* A request was made by an instance that is still there.
Asked ==
    /\ \A k \in DOMAIN requests.documents :
         requests.documents[k].call = "get" => Alive(requests.documents[k].by)
    /\ \A k \in DOMAIN requests.outbox :
         requests.outbox[k].call = "get" => Alive(requests.outbox[k].by)
    /\ \A k \in DOMAIN requests.replica : Alive(requests.replica[k].by)

\* A socket that is not free has an owner, and the current one is the owner's.
Owned ==
    /\ \A s \in Sockets :
         IF socks[s].state = "free" THEN socks[s].owner = None
         ELSE socks[s].owner \in Instances /\ Alive(socks[s].owner)
    /\ \A i \in Instances : Alive(i) /\ inst[i].ws # None =>
         socks[inst[i].ws].owner = i

\* Those that the budget has still to create are not there yet.
NotYet == \A i \in Instances : i > MaxInstances - left.mounts => ~Alive(i)

\* Who is ready has a replica id.
Named == \A i \in Instances : inst[i].phase = "ready" => inst[i].replicaId # None

Typed == Types /\ Asked /\ Owned /\ NotYet /\ Named

-----------------------------------------------------------------------------
(* Numbers, sets and sequences *)

\* A non-empty set of naturals has a least element.
LEMMA LeastNat ==
    ASSUME NEW S \in SUBSET Nat, S # {}
    PROVE  \E n \in S : \A m \in S : n <= m
<1>1. PICK n \in S : \A m \in S : <<m, n>> \notin OpToRel(<, Nat)
  BY NatLessThanWellFounded, WFMin
<1>2. \A m \in S : ~(m < n)
  BY <1>1 DEF OpToRel
<1> QED
  BY <1>2

\* A finite one has a greatest: a smallest set without would lose an element.
LEMMA GreatestNat ==
    ASSUME NEW S \in SUBSET Nat, S # {}, IsFiniteSet(S)
    PROVE  \E n \in S : \A m \in S : m <= n
<1> DEFINE HasMax(T) == \E n \in T : \A m \in T : m <= n
           Bad == {T \in FiniteSubsetsOf(S) : T # {} /\ ~HasMax(T)}
<1> SUFFICES ASSUME ~HasMax(S) PROVE FALSE
  OBVIOUS
<1>1. S \in Bad /\ Bad \subseteq FiniteSubsetsOf(S)
  BY DEF FiniteSubsetsOf
<1>2. PICK T \in Bad :
        \A U \in Bad : <<U, T>> \notin StrictSubsetOrdering(S)
  BY <1>1, FS_StrictSubsetOrderingWellFounded, WFMin
<1>3. PICK x \in T : TRUE
  OBVIOUS
<1>4. T \subseteq S /\ IsFiniteSet(T) /\ IsFiniteSet(T \ {x})
  BY <1>1, FS_RemoveElement DEF FiniteSubsetsOf
<1>5. <<T \ {x}, T>> \in StrictSubsetOrdering(S)
  BY <1>3, <1>4 DEF StrictSubsetOrdering, FiniteSubsetsOf
<1>6. T \ {x} = {} \/ HasMax(T \ {x})
  BY <1>2, <1>4, <1>5 DEF FiniteSubsetsOf
<1>7. HasMax(T)
  <2>1. CASE T \ {x} = {}
    <3>1. \A m \in T : m = x
      BY <2>1
    <3>2. x \in Nat /\ x <= x
      BY <1>3, <1>4
    <3> QED
      BY <1>3, <3>1, <3>2
  <2>2. CASE HasMax(T \ {x})
    <3>1. PICK n \in T \ {x} : \A m \in T \ {x} : m <= n
      BY <2>2
    <3>2. x \in Nat /\ n \in Nat /\ \A m \in T : m \in Nat
      BY <1>3, <1>4
    <3>3. CASE x <= n
      BY <3>1, <3>2, <3>3
    <3>4. CASE n <= x
      <4>1. \A m \in T : m <= x
        BY <3>1, <3>2, <3>4
      <4> QED
        BY <4>1, <1>3
    <3> QED
      BY <3>2, <3>3, <3>4
  <2> QED
    BY <1>6, <2>1, <2>2
<1> QED
  BY <1>7

\* What SetToSeq makes of a finite set: every element, once.
LEMMA SetToSeqFacts ==
    ASSUME NEW S, IsFiniteSet(S)
    PROVE  /\ SetToSeq(S) \in Seq(S)
           /\ Len(SetToSeq(S)) \in Nat
           /\ \A k \in 1..Len(SetToSeq(S)) : SetToSeq(S)[k] \in S
           /\ \A x \in S : \E k \in 1..Len(SetToSeq(S)) : SetToSeq(S)[k] = x
           /\ \A k, l \in 1..Len(SetToSeq(S)) :
                SetToSeq(S)[k] = SetToSeq(S)[l] => k = l
<1> DEFINE n == Cardinality(S)
           f == SetToSeq(S)
<1>1. n \in Nat /\ ExistsBijection(1..n, S)
  BY FS_CardinalityType
<1>2. PICK g \in Bijection(1..n, S) : TRUE
  BY <1>1 DEF ExistsBijection
<1>3. g \in [1..n -> S] /\ IsInjective(g)
  BY <1>2 DEF Bijection, Injection, IsInjective
<1>4. f \in [1..n -> S] /\ IsInjective(f)
  BY <1>3 DEF SetToSeq
<1>5. f \in Injection(1..n, S)
  BY <1>4 DEF Injection
<1>6. IsFiniteSet(1..n) /\ Cardinality(1..n) = n
  BY <1>1, FS_Interval
<1>7. f \in Surjection(1..n, S)
  BY <1>5, <1>6, FS_Injection
<1>8. \A x \in S : \E k \in 1..n : f[k] = x
  BY <1>7 DEF Surjection
<1>9. \A k, l \in 1..n : f[k] = f[l] => k = l
  BY <1>4 DEF IsInjective
<1> HIDE DEF n, f
<1>10. f \in Seq(S) /\ Len(f) = n
  BY <1>1, <1>4
<1>11. \A k \in 1..n : f[k] \in S
  BY <1>4
<1> QED
  BY <1>1, <1>8, <1>9, <1>10, <1>11 DEF f

\* The ids of finitely many operations are finitely many.
LEMMA IdsTyped ==
    ASSUME NEW S \in Ops
    PROVE  Ids(S) \in SUBSET opIdSchema /\ IsFiniteSet(Ids(S))
<1>1. \A op \in S : op.id \in opIdSchema
  BY DEF Ops, insertOpSchema
<1>2. Ids(S) \in SUBSET opIdSchema
  BY <1>1 DEF Ids
<1> DEFINE f == [op \in S |-> op.id]
<1>3. f \in Surjection(S, Ids(S))
  BY DEF Surjection, Ids
<1> QED
  BY <1>2, <1>3, FS_Surjection DEF Ops

\* Finite sets of operations: their subsets, unions and additions.
LEMMA OpsSets ==
    /\ {} \in Ops
    /\ \A S \in Ops, T \in Ops : S \cup T \in Ops
    /\ \A S \in Ops : \A T \in SUBSET S : T \in Ops
    /\ \A op \in insertOpSchema : {op} \in Ops
<1>1. {} \in Ops
  BY FS_EmptySet DEF Ops
<1>2. ASSUME NEW S \in Ops, NEW T \in Ops PROVE S \cup T \in Ops
  BY FS_Union DEF Ops
<1>3. ASSUME NEW S \in Ops, NEW T \in SUBSET S PROVE T \in Ops
  BY FS_Subset DEF Ops
<1>4. ASSUME NEW op \in insertOpSchema PROVE {op} \in Ops
  BY FS_Singleton DEF Ops
<1> QED
  BY <1>1, <1>2, <1>3, <1>4

\* The operations of a log are finitely many.
LEMMA SavedTyped ==
    ASSUME log \in Seq(insertOpSchema)
    PROVE  /\ Saved \in Ops
           /\ \A n \in Nat : {log[k] : k \in (n + 1)..Len(log)} \in Ops
<1>1. Len(log) \in Nat /\ DOMAIN log = 1..Len(log)
  OBVIOUS
<1>2. IsFiniteSet(DOMAIN log)
  BY <1>1, FS_Interval
<1>3. log \in Surjection(DOMAIN log, Saved)
  BY DEF Surjection, Saved
<1>4. IsFiniteSet(Saved)
  BY <1>2, <1>3, FS_Surjection
<1>5. Saved \subseteq insertOpSchema
  BY DEF Saved
<1>6. Saved \in Ops
  BY <1>4, <1>5 DEF Ops
<1>7. ASSUME NEW n \in Nat
      PROVE  {log[k] : k \in (n + 1)..Len(log)} \subseteq Saved
  BY <1>1 DEF Saved
<1> QED
  BY <1>6, <1>7, OpsSets

\* The counter of a new id is greater than those of the view.
LEMMA NextCounterGreater ==
    ASSUME NEW view \in Ops
    PROVE  /\ nextCounter(view) \in Nat
           /\ \A op \in view : op.id.counter < nextCounter(view)
<1> DEFINE S == {op.id.counter : op \in view}
           T == {0} \cup S
           c == CHOOSE n \in T : \A op \in view : op.id.counter <= n
<1>1. \A op \in view : op.id.counter \in Nat
  BY DEF Ops, insertOpSchema, opIdSchema
<1>2. T \in SUBSET Nat /\ T # {}
  BY <1>1
<1>3. IsFiniteSet(T)
  <2> DEFINE f == [op \in view |-> op.id.counter]
  <2>1. f \in Surjection(view, S)
    BY DEF Surjection
  <2>2. IsFiniteSet(S)
    BY <2>1, FS_Surjection DEF Ops
  <2>3. IsFiniteSet({0})
    BY FS_Singleton
  <2> QED
    BY <2>2, <2>3, FS_Union
<1>4. PICK n \in T : \A m \in T : m <= n
  BY <1>2, <1>3, GreatestNat
<1>5. \A op \in view : op.id.counter <= n
  BY <1>4
<1>6. c \in T /\ \A op \in view : op.id.counter <= c
  BY <1>5
<1>7. nextCounter(view) = 1 + c
  BY DEF nextCounter
<1>8. c \in Nat
  BY <1>2, <1>6
<1> HIDE DEF c, T
<1> QED
  BY <1>1, <1>6, <1>7, <1>8

\* What Append and Tail leave where.
LEMMA QueueOps ==
    ASSUME NEW T, NEW queue \in Seq(T), NEW x
    PROVE  /\ DOMAIN queue = 1..Len(queue) /\ Len(queue) \in Nat
           /\ \A k \in 1..Len(queue) : queue[k] \in T
           /\ DOMAIN Append(queue, x) = 1..(Len(queue) + 1)
           /\ Len(Append(queue, x)) = Len(queue) + 1
           /\ \A k \in 1..Len(queue) : Append(queue, x)[k] = queue[k]
           /\ Append(queue, x)[Len(queue) + 1] = x
           /\ x \in T => Append(queue, x) \in Seq(T)
           /\ queue # <<>> =>
                /\ Tail(queue) \in Seq(T) /\ Head(queue) \in T
                /\ Len(queue) > 0 /\ DOMAIN Tail(queue) = 1..(Len(queue) - 1)
                /\ Len(Tail(queue)) = Len(queue) - 1
                /\ Head(queue) = queue[1]
                /\ \A k \in 1..(Len(queue) - 1) : Tail(queue)[k] = queue[k + 1]
OBVIOUS

\* What concatenation leaves where.
LEMMA ConcatOps ==
    ASSUME NEW T, NEW q \in Seq(T), NEW r \in Seq(T)
    PROVE  /\ q \o r \in Seq(T)
           /\ Len(q \o r) = Len(q) + Len(r) /\ Len(q) \in Nat /\ Len(r) \in Nat
           /\ DOMAIN (q \o r) = 1..(Len(q) + Len(r))
           /\ DOMAIN q = 1..Len(q) /\ DOMAIN r = 1..Len(r)
           /\ \A k \in 1..Len(q) : (q \o r)[k] = q[k]
           /\ \A k \in 1..Len(r) : (q \o r)[Len(q) + k] = r[k]
           /\ \A k \in (Len(q) + 1)..(Len(q) + Len(r)) :
                (q \o r)[k] = r[k - Len(q)] /\ k - Len(q) \in 1..Len(r)
OBVIOUS

-----------------------------------------------------------------------------
(* Sockets *)

\* close leaves all but the state of the socket that it closes.
LEMMA CloseOps ==
    ASSUME NEW sk \in SocksType, NEW s
    PROVE  /\ close(sk, s) \in SocksType
           /\ \A t \in Sockets :
                /\ close(sk, s)[t].owner = sk[t].owner
                /\ close(sk, s)[t].server = sk[t].server
                /\ close(sk, s)[t].joined = sk[t].joined
                /\ close(sk, s)[t].toServer = sk[t].toServer
                /\ close(sk, s)[t].state =
                     IF s # None /\ t = s
                        /\ sk[t].state \in {"connecting", "open"}
                     THEN "closing" ELSE sk[t].state
BY DEF close, SocksType, SocketType

\* send leaves all but the messages of the current socket, if it is open.
LEMMA SendOps ==
    ASSUME NEW sk \in SocksType, NEW me \in ClientType, NEW m \in MessageType
    PROVE  /\ send(sk, me, m) \in SocksType
           /\ \A t \in Sockets :
                /\ send(sk, me, m)[t].owner = sk[t].owner
                /\ send(sk, me, m)[t].server = sk[t].server
                /\ send(sk, me, m)[t].joined = sk[t].joined
                /\ send(sk, me, m)[t].state = sk[t].state
                /\ send(sk, me, m)[t].toServer =
                     IF me.ws # None /\ t = me.ws /\ sk[t].state = "open"
                     THEN Append(sk[t].toServer, m) ELSE sk[t].toServer
<1> DEFINE w == me.ws
<1>1. w \in Sockets \cup {None}
  BY DEF ClientType
<1>2. CASE w # None /\ sk[w].state = "open"
  <2> DEFINE longer == Append(sk[w].toServer, m)
  <2>1. w \in Sockets /\ sk[w] \in SocketType
    BY <1>1, <1>2 DEF SocksType
  <2>2. longer \in Seq(MessageType)
    BY <2>1 DEF SocketType
  <2>3. send(sk, me, m) = [sk EXCEPT ![w].toServer = longer]
    BY <1>2 DEF send
  <2> HIDE DEF longer, w
  <2>4. [sk[w] EXCEPT !.toServer = longer] \in SocketType
    BY <2>1, <2>2 DEF SocketType
  <2>5. send(sk, me, m) = [sk EXCEPT ![w] = [sk[w] EXCEPT !.toServer = longer]]
    BY <2>1, <2>3
  <2>6. send(sk, me, m) \in SocksType
    BY <2>1, <2>4, <2>5 DEF SocksType
  <2>7. \A t \in Sockets \ {w} : send(sk, me, m)[t] = sk[t]
    BY <2>1, <2>5 DEF SocksType
  <2>8. send(sk, me, m)[w] = [sk[w] EXCEPT !.toServer = longer]
    BY <2>1, <2>5 DEF SocksType
  <2>9. /\ send(sk, me, m)[w].owner = sk[w].owner
        /\ send(sk, me, m)[w].server = sk[w].server
        /\ send(sk, me, m)[w].joined = sk[w].joined
        /\ send(sk, me, m)[w].state = sk[w].state
        /\ send(sk, me, m)[w].toServer = longer
    BY <2>1, <2>8 DEF SocketType
  <2> QED
    BY <1>2, <2>6, <2>7, <2>9 DEF longer, w
<1>3. CASE ~(w # None /\ sk[w].state = "open")
  BY <1>3 DEF send
<1> QED
  BY <1>2, <1>3

-----------------------------------------------------------------------------
(* The actions keep the types *)

\* What the requests in the queues are.
LEMMA RequestFields ==
    ASSUME Types
    PROVE  /\ requests.documents \in Seq(DocumentCalls)
           /\ requests.outbox \in Seq(OutboxCalls)
           /\ requests.replica \in Seq(ReplicaCalls)
           /\ \A k \in DOMAIN requests.documents :
                LET r == requests.documents[k] IN
                /\ r \in DocumentCalls /\ r.call \in {"get", "put"}
                /\ r.call = "get" => r \in Gets /\ r.by \in Instances
                /\ r.call = "put" => r.record \in DocumentType
           /\ \A k \in DOMAIN requests.outbox :
                LET r == requests.outbox[k] IN
                /\ r \in OutboxCalls /\ r.call \in {"get", "put", "delete"}
                /\ r.call = "get" => r \in Gets /\ r.by \in Instances
                /\ r.call = "put" => r.op \in insertOpSchema
                /\ r.call = "delete" => r.key \in opIdSchema
           /\ \A k \in DOMAIN requests.replica :
                LET r == requests.replica[k] IN
                /\ r \in ReplicaCalls /\ r.call \in {"get", "put"}
                /\ r.by \in Instances
<1>1. requests \in RequestsType
  BY DEF Types
<1>2. /\ requests.documents \in Seq(DocumentCalls)
      /\ requests.outbox \in Seq(OutboxCalls)
      /\ requests.replica \in Seq(ReplicaCalls)
  BY <1>1 DEF RequestsType
<1>3. \A r \in DocumentCalls :
        /\ r.call \in {"get", "put"}
        /\ r.call = "get" => r \in Gets /\ r.by \in Instances
        /\ r.call = "put" => r.record \in DocumentType
  BY DEF DocumentCalls, Gets
<1>4. \A r \in OutboxCalls :
        /\ r.call \in {"get", "put", "delete"}
        /\ r.call = "get" => r \in Gets /\ r.by \in Instances
        /\ r.call = "put" => r.op \in insertOpSchema
        /\ r.call = "delete" => r.key \in opIdSchema
  BY DEF OutboxCalls, Gets
<1>5. \A r \in ReplicaCalls : r.call \in {"get", "put"} /\ r.by \in Instances
  BY DEF ReplicaCalls, Gets
<1>6. /\ \A k \in DOMAIN requests.documents : requests.documents[k] \in DocumentCalls
      /\ \A k \in DOMAIN requests.outbox : requests.outbox[k] \in OutboxCalls
      /\ \A k \in DOMAIN requests.replica : requests.replica[k] \in ReplicaCalls
  BY <1>2
<1> QED
  BY <1>2, <1>3, <1>4, <1>5, <1>6

\* Where no instance comes or goes, nothing is asked, and sockets keep their
\* owners, what belongs together stays together.
LEMMA LinksKept ==
    ASSUME Asked, Owned, NotYet,
           left'.mounts = left.mounts, requests' = requests,
           \A i \in Instances : Alive(i)' <=> Alive(i),
           \A i \in Instances : Alive(i) => inst'[i].ws \in {inst[i].ws, None},
           \A s \in Sockets : socks'[s].owner = socks[s].owner,
           \A s \in Sockets : socks'[s].state = "free" <=> socks[s].state = "free",
           Types, Types'
    PROVE  Asked' /\ Owned' /\ NotYet'
<1>1. Asked'
  BY RequestFields DEF Asked
<1>2. NotYet'
  BY DEF NotYet
<1>3. \A s \in Sockets :
        IF socks'[s].state = "free" THEN socks'[s].owner = None
        ELSE /\ socks'[s].owner \in Instances
             /\ inst'[socks'[s].owner].phase # "none"
  BY DEF Owned, Alive
<1>4. \A i \in Instances : Alive(i)' /\ inst'[i].ws # None =>
        socks'[inst'[i].ws].owner = i
  <2> SUFFICES ASSUME NEW i \in Instances, Alive(i), inst'[i].ws # None
               PROVE  socks'[inst'[i].ws].owner = i
    OBVIOUS
  <2>1. inst'[i].ws = inst[i].ws /\ inst[i].ws # None
    OBVIOUS
  <2>2. inst[i].ws \in Sockets
    BY <2>1 DEF Types, InstType, ClientType, NoInstance, Alive
  <2> QED
    BY <2>1, <2>2 DEF Owned
<1>5. Owned'
  BY <1>3, <1>4 DEF Owned, Alive
<1> QED
  BY <1>1, <1>2, <1>5

-----------------------------------------------------------------------------
(* What the actions on the connection do *)

\* Two states of an instance that differ in nothing but the connection.
SameKnowledge(c, d) ==
    /\ c.phase = d.phase /\ c.read = d.read /\ c.replicaId = d.replicaId
    /\ c.view = d.view /\ c.outbox = d.outbox
    /\ c.lastAckedSeq = d.lastAckedSeq /\ c.synced = d.synced

\* Two states that differ in nothing but what the server's messages change.
SameConnection(c, d) ==
    /\ c.phase = d.phase /\ c.read = d.read /\ c.replicaId = d.replicaId
    /\ c.ws = d.ws /\ c.timer = d.timer /\ c.offline = d.offline
    /\ c.closedByUser = d.closedByUser

\* The sockets after socket w, if any, was closed.
ClosedAt(w) ==
    /\ socks' \in SocksType
    /\ \A t \in Sockets :
         /\ socks'[t].owner = socks[t].owner
         /\ socks'[t].server = socks[t].server
         /\ socks'[t].joined = socks[t].joined
         /\ socks'[t].toServer = socks[t].toServer
         /\ socks'[t].state =
              IF w # None /\ t = w /\ socks[t].state \in {"connecting", "open"}
              THEN "closing" ELSE socks[t].state

\* An instance that is there, and one that is not.
LEMMA AliveTyped ==
    ASSUME Types, NEW i \in Instances
    PROVE  /\ Alive(i) <=> inst[i] \in ClientType
           /\ ~Alive(i) <=> inst[i] = NoInstance
BY DEF Types, InstType, ClientType, Alive, NoInstance

\* One instance changes.
LEMMA InstPut ==
    ASSUME Types, NEW i \in Instances, NEW me \in ClientType,
           inst' = [inst EXCEPT ![i] = me]
    PROVE  /\ inst' \in InstType /\ inst'[i] = me
           /\ \A j \in Instances : j # i => inst'[j] = inst[j]
           /\ Alive(i)' /\ \A j \in Instances : j # i => (Alive(j)' <=> Alive(j))
<1>1. inst \in InstType
  BY DEF Types
<1>2. inst' \in InstType /\ inst'[i] = me
  BY <1>1 DEF InstType
<1>3. \A j \in Instances : j # i => inst'[j] = inst[j]
  BY <1>1 DEF InstType
<1>4. me.phase # "none"
  BY DEF ClientType
<1> QED
  BY <1>2, <1>3, <1>4 DEF Alive

\* Some of the budget is spent, but not on mounts.
LEMMA SpendTyped ==
    ASSUME Types, NEW what \in {"unmounts", "edits", "remoteEdits", "breaks", "toggles"},
           Spend(what)
    PROVE  left' \in Budget /\ left'.mounts = left.mounts
BY DEF Types, Spend, Budget

\* dispose
LEMMA DisposeSteps ==
    ASSUME Types, NEW i \in Instances, Dispose(i)
    PROVE  /\ inst[i] \in ClientType /\ inst'[i] \in ClientType
           /\ inst' \in InstType /\ ClosedAt(inst[i].ws)
           /\ \A j \in Instances : j # i => inst'[j] = inst[j]
           /\ \A j \in Instances : Alive(j)' <=> Alive(j)
           /\ SameKnowledge(inst'[i], inst[i]) /\ inst'[i].ws = inst[i].ws
           /\ inst'[i].closedByUser /\ ~inst'[i].timer
           /\ inst'[i].offline = inst[i].offline
           /\ left' \in Budget /\ left'.mounts = left.mounts
<1> DEFINE me == [inst[i] EXCEPT !.closedByUser = TRUE, !.timer = FALSE,
                                 !.heartbeat = FALSE]
<1>1. Alive(i) /\ inst[i] \in ClientType
  BY AliveTyped DEF Dispose, Current
<1>2. inst' = [inst EXCEPT ![i] = me]
  BY DEF Dispose, Types, InstType
<1>3. me \in ClientType
  BY <1>1 DEF ClientType
<1>4. /\ SameKnowledge(me, inst[i]) /\ me.ws = inst[i].ws
      /\ me.closedByUser /\ ~me.timer /\ me.offline = inst[i].offline
  BY <1>1 DEF ClientType, SameKnowledge
<1>5. socks \in SocksType /\ socks' = close(socks, inst[i].ws)
  BY DEF Types, Dispose
<1>6. ClosedAt(inst[i].ws)
  BY <1>5, CloseOps DEF ClosedAt
<1>7. left' \in Budget /\ left'.mounts = left.mounts
  BY SpendTyped DEF Dispose
<1> HIDE DEF me
<1> QED
  BY <1>1, <1>2, <1>3, <1>4, <1>6, <1>7, InstPut

\* setSimulatedOffline(true)
LEMMA GoOfflineSteps ==
    ASSUME Types, NEW i \in Instances, GoOffline(i)
    PROVE  /\ inst[i] \in ClientType /\ inst'[i] \in ClientType
           /\ inst' \in InstType /\ ClosedAt(inst[i].ws)
           /\ \A j \in Instances : j # i => inst'[j] = inst[j]
           /\ \A j \in Instances : Alive(j)' <=> Alive(j)
           /\ SameKnowledge(inst'[i], inst[i]) /\ inst'[i].ws = None
           /\ inst'[i].offline /\ ~inst'[i].timer
           /\ inst'[i].closedByUser = inst[i].closedByUser
           /\ left' \in Budget /\ left'.mounts = left.mounts
<1> DEFINE me == [inst[i] EXCEPT !.offline = TRUE, !.timer = FALSE,
                                 !.heartbeat = FALSE, !.ws = None,
                                 !.connectionState = "closed"]
<1>1. Alive(i) /\ inst[i] \in ClientType
  BY AliveTyped DEF GoOffline, Current
<1>2. inst' = [inst EXCEPT ![i] = me]
  BY DEF GoOffline, Types, InstType
<1>3. me \in ClientType
  BY <1>1 DEF ClientType
<1>4. /\ SameKnowledge(me, inst[i]) /\ me.ws = None
      /\ me.offline /\ ~me.timer /\ me.closedByUser = inst[i].closedByUser
  BY <1>1 DEF ClientType, SameKnowledge
<1>5. socks \in SocksType /\ socks' = close(socks, inst[i].ws)
  BY DEF Types, GoOffline
<1>6. ClosedAt(inst[i].ws)
  BY <1>5, CloseOps DEF ClosedAt
<1>7. left' \in Budget /\ left'.mounts = left.mounts
  BY SpendTyped DEF GoOffline
<1> HIDE DEF me
<1> QED
  BY <1>1, <1>2, <1>3, <1>4, <1>6, <1>7, InstPut

\* Socket s, free before, is the new one of instance i, and nothing else changes.
ConnectedAt(s, i) ==
    /\ socks[s] = FreeSocket
    /\ socks' \in SocksType
    /\ \A t \in Sockets : t # s => socks'[t] = socks[t]
    /\ socks'[s].owner = i /\ socks'[s].state = "connecting"
    /\ socks'[s].server = "none" /\ socks'[s].joined = None
    /\ socks'[s].toServer = <<>>

\* connect
LEMMA ConnectSteps ==
    ASSUME Types, NEW i \in Instances, NEW me \in ClientType, connect(i, me)
    PROVE  /\ inst' \in InstType /\ inst'[i] \in ClientType
           /\ \A j \in Instances : j # i => inst'[j] = inst[j]
           /\ Alive(i)' /\ \A j \in Instances : j # i => (Alive(j)' <=> Alive(j))
           /\ SameKnowledge(inst'[i], me) /\ inst'[i].timer = me.timer
           /\ inst'[i].offline = me.offline
           /\ inst'[i].closedByUser = me.closedByUser
           /\ \/ /\ me.closedByUser \/ me.offline
                 /\ socks' = socks /\ inst'[i].ws = me.ws
              \/ /\ ~me.closedByUser /\ ~me.offline
                 /\ inst'[i].ws \in Sockets /\ ConnectedAt(inst'[i].ws, i)
<1>1. CASE me.closedByUser \/ me.offline
  <2>1. inst' = [inst EXCEPT ![i] = me] /\ socks' = socks
    BY <1>1 DEF connect
  <2> QED
    BY <1>1, <2>1, InstPut DEF SameKnowledge
<1>2. CASE ~(me.closedByUser \/ me.offline)
  <2> DEFINE s == CHOOSE f \in Free : \A g \in Free : f <= g
             you == [me EXCEPT !.ws = s, !.connectionState = "connecting"]
  <2>1. /\ Free # {}
        /\ socks' = [socks EXCEPT ![s].owner = i, ![s].state = "connecting"]
        /\ inst' = [inst EXCEPT ![i] = you]
    BY <1>2 DEF connect
  <2>2. Free \in SUBSET Nat
    BY DEF Free, Sockets
  <2>3. s \in Free
    BY <2>1, <2>2, LeastNat
  <2> HIDE DEF s
  <2>4. s \in Sockets /\ socks[s] = FreeSocket
    BY <2>3 DEF Free
  <2>5. you \in ClientType
    BY <2>4 DEF ClientType
  <2>6. /\ SameKnowledge(you, me) /\ you.timer = me.timer /\ you.ws = s
        /\ you.offline = me.offline /\ you.closedByUser = me.closedByUser
    BY DEF ClientType, SameKnowledge
  <2>7. socks \in SocksType
    BY DEF Types
  <2> DEFINE new == [FreeSocket EXCEPT !.owner = i, !.state = "connecting"]
  <2>8. new \in SocketType
    BY <2>4, <2>7 DEF SocketType, FreeSocket, SocksType
  <2>9. socks' = [socks EXCEPT ![s] = new]
    BY <2>1, <2>4, <2>7 DEF SocksType
  <2>10. /\ new.owner = i /\ new.state = "connecting" /\ new.server = "none"
         /\ new.joined = None /\ new.toServer = <<>>
    BY DEF FreeSocket
  <2> HIDE DEF new, you
  <2>11. /\ socks' \in SocksType /\ socks'[s] = new
         /\ \A t \in Sockets : t # s => socks'[t] = socks[t]
    BY <2>4, <2>7, <2>8, <2>9 DEF SocksType
  <2>12. ConnectedAt(s, i)
    BY <2>4, <2>10, <2>11 DEF ConnectedAt
  <2> QED
    BY <1>2, <2>1, <2>4, <2>5, <2>6, <2>12, InstPut
<1> QED
  BY <1>1, <1>2

\* What apply makes of a view.
LEMMA ApplyAll ==
    ASSUME NEW view \in Ops, NEW ops \in Ops
    PROVE  /\ applyAll(view, ops) \in Ops
           /\ view \subseteq applyAll(view, ops)
           /\ applyAll(view, ops) \subseteq view \cup ops
           /\ Ids(applyAll(view, ops)) = Ids(view) \cup Ids(ops)
<1>1. applyAll(view, ops) \subseteq view \cup ops
  BY DEF applyAll
<1>2. view \cup ops \in Ops
  BY OpsSets
<1>3. applyAll(view, ops) \in Ops
  BY <1>1, <1>2, OpsSets
<1> QED
  BY <1>1, <1>3 DEF applyAll, Ids

\* The rest of init
LEMMA FinishInitSteps ==
    ASSUME Types, NEW i \in Instances, FinishInit(i)
    PROVE  /\ inst[i] \in ClientType /\ inst'[i] \in ClientType
           /\ inst' \in InstType
           /\ \A j \in Instances : j # i => inst'[j] = inst[j]
           /\ \A j \in Instances : Alive(j)' <=> Alive(j)
           /\ inst[i].phase = "init" /\ inst'[i].phase = "ready"
           /\ inst[i].read.replica \in RecordIds
           /\ inst[i].read.document \in DocumentType /\ inst[i].read.outbox \in Ops
           /\ inst[i].read.document # None /\ inst[i].read.outbox # None
           /\ inst'[i].read = NothingRead
           /\ inst'[i].replicaId = inst[i].read.replica
           /\ inst'[i].view =
                applyAll(inst[i].read.document.state, inst[i].read.outbox)
           /\ inst'[i].outbox = inst[i].outbox \cup inst[i].read.outbox
           /\ inst'[i].lastAckedSeq = inst[i].read.document.lastAckedSeq
           /\ inst'[i].synced = inst[i].synced /\ inst'[i].timer = inst[i].timer
           /\ inst'[i].offline = inst[i].offline
           /\ inst'[i].closedByUser = inst[i].closedByUser
           /\ \/ /\ inst[i].closedByUser \/ inst[i].offline
                 /\ socks' = socks /\ inst'[i].ws = inst[i].ws
              \/ /\ ~inst[i].closedByUser /\ ~inst[i].offline
                 /\ inst'[i].ws \in Sockets /\ ConnectedAt(inst'[i].ws, i)
<1> DEFINE r == inst[i].read
           me == restored(inst[i])
<1>1. Alive(i) /\ inst[i] \in ClientType /\ inst[i].phase = "init"
  BY AliveTyped DEF FinishInit, Alive
<1>2. r \in ReadType
  BY <1>1 DEF ClientType
<1>3. r.replica # None /\ r.document # None /\ r.outbox # None
  BY <1>2 DEF FinishInit, ReadType
<1>4. r.replica \in RecordIds /\ r.document \in DocumentType /\ r.outbox \in Ops
  BY <1>2, <1>3 DEF ReadType
<1>5. /\ applyAll(r.document.state, r.outbox) \in Ops
      /\ r.document.lastAckedSeq \in Nat
  BY <1>4, ApplyAll DEF DocumentType
<1>6. inst[i].outbox \cup r.outbox \in Ops
  BY <1>1, <1>4, OpsSets DEF ClientType
<1>7. NothingRead \in ReadType
  BY DEF NothingRead, ReadType
<1>8. me = [inst[i] EXCEPT !.phase = "ready", !.read = NothingRead,
              !.replicaId = r.replica,
              !.view = applyAll(r.document.state, r.outbox),
              !.outbox = inst[i].outbox \cup r.outbox,
              !.lastAckedSeq = r.document.lastAckedSeq]
  BY <1>1 DEF restored, ClientType
<1> HIDE DEF me, r
<1>9. me \in ClientType
  BY <1>1, <1>4, <1>5, <1>6, <1>7, <1>8 DEF ClientType
<1>10. /\ me.phase = "ready" /\ me.read = NothingRead /\ me.replicaId = r.replica
       /\ me.view = applyAll(r.document.state, r.outbox)
       /\ me.outbox = inst[i].outbox \cup r.outbox
       /\ me.lastAckedSeq = r.document.lastAckedSeq
       /\ me.synced = inst[i].synced /\ me.timer = inst[i].timer
       /\ me.offline = inst[i].offline /\ me.closedByUser = inst[i].closedByUser
       /\ me.ws = inst[i].ws
  BY <1>1, <1>8 DEF ClientType
<1>11. connect(i, me)
  BY DEF FinishInit, me
<1>12. /\ inst' \in InstType /\ inst'[i] \in ClientType
       /\ \A j \in Instances : j # i => inst'[j] = inst[j]
       /\ Alive(i)' /\ \A j \in Instances : j # i => (Alive(j)' <=> Alive(j))
       /\ SameKnowledge(inst'[i], me) /\ inst'[i].timer = me.timer
       /\ inst'[i].offline = me.offline
       /\ inst'[i].closedByUser = me.closedByUser
       /\ \/ /\ me.closedByUser \/ me.offline
             /\ socks' = socks /\ inst'[i].ws = me.ws
          \/ /\ ~me.closedByUser /\ ~me.offline
             /\ inst'[i].ws \in Sockets /\ ConnectedAt(inst'[i].ws, i)
  BY <1>9, <1>11, ConnectSteps
<1>13. \A j \in Instances : Alive(j)' <=> Alive(j)
  BY <1>1, <1>12
<1> QED
  BY <1>1, <1>3, <1>4, <1>10, <1>12, <1>13 DEF SameKnowledge, r

\* Reconnect and setSimulatedOffline(false): connect with what the instance has.
LEMMA ConnectAgainSteps ==
    ASSUME Types, NEW i \in Instances, Reconnect(i) \/ GoOnline(i)
    PROVE  /\ inst[i] \in ClientType /\ inst'[i] \in ClientType
           /\ inst' \in InstType
           /\ \A j \in Instances : j # i => inst'[j] = inst[j]
           /\ \A j \in Instances : Alive(j)' <=> Alive(j)
           /\ SameKnowledge(inst'[i], inst[i])
           /\ inst'[i].timer = (IF Reconnect(i) THEN FALSE ELSE inst[i].timer)
           /\ inst'[i].offline = (IF Reconnect(i) THEN inst[i].offline ELSE FALSE)
           /\ inst'[i].closedByUser = inst[i].closedByUser
           /\ \/ /\ inst'[i].closedByUser \/ inst'[i].offline
                 /\ socks' = socks /\ inst'[i].ws = inst[i].ws
              \/ /\ ~inst'[i].closedByUser /\ ~inst'[i].offline
                 /\ inst'[i].ws \in Sockets /\ ConnectedAt(inst'[i].ws, i)
<1> DEFINE me == IF Reconnect(i) THEN [inst[i] EXCEPT !.timer = FALSE]
                                 ELSE [inst[i] EXCEPT !.offline = FALSE]
<1>1. Alive(i) /\ inst[i] \in ClientType
  BY AliveTyped DEF Reconnect, GoOnline, Current
<1>2. me \in ClientType
  BY <1>1 DEF ClientType
<1>3. /\ SameKnowledge(me, inst[i]) /\ me.ws = inst[i].ws
      /\ me.timer = (IF Reconnect(i) THEN FALSE ELSE inst[i].timer)
      /\ me.offline = (IF Reconnect(i) THEN inst[i].offline ELSE FALSE)
      /\ me.closedByUser = inst[i].closedByUser
  BY <1>1 DEF ClientType, SameKnowledge
<1>4. connect(i, me)
  BY DEF Reconnect, GoOnline
<1> HIDE DEF me
<1>5. /\ inst' \in InstType /\ inst'[i] \in ClientType
      /\ \A j \in Instances : j # i => inst'[j] = inst[j]
      /\ Alive(i)' /\ \A j \in Instances : j # i => (Alive(j)' <=> Alive(j))
      /\ SameKnowledge(inst'[i], me) /\ inst'[i].timer = me.timer
      /\ inst'[i].offline = me.offline
      /\ inst'[i].closedByUser = me.closedByUser
      /\ \/ /\ me.closedByUser \/ me.offline
            /\ socks' = socks /\ inst'[i].ws = me.ws
         \/ /\ ~me.closedByUser /\ ~me.offline
            /\ inst'[i].ws \in Sockets /\ ConnectedAt(inst'[i].ws, i)
  BY <1>2, <1>4, ConnectSteps
<1>6. \A j \in Instances : Alive(j)' <=> Alive(j)
  BY <1>1, <1>5
<1>7. SameKnowledge(inst'[i], inst[i])
  BY <1>3, <1>5 DEF SameKnowledge
<1> QED
  BY <1>1, <1>3, <1>5, <1>6, <1>7

\* The join that an instance sends.
JoinOf(me) == [type |-> "join", replicaId |-> me.replicaId,
               sinceSeq |-> me.lastAckedSeq]

\* The open event
LEMMA OpenSteps ==
    ASSUME Types, Owned, NEW s \in Sockets, Open(s), NEW i, i = socks[s].owner
    PROVE  /\ i \in Instances /\ inst[i] \in ClientType
           /\ inst'[i] \in ClientType /\ inst' \in InstType
           /\ \A j \in Instances : j # i => inst'[j] = inst[j]
           /\ \A j \in Instances : Alive(j)' <=> Alive(j)
           /\ SameKnowledge(inst'[i], inst[i]) /\ SameConnection(inst'[i], inst[i])
           /\ socks' \in SocksType /\ socks[s].state = "connecting"
           /\ JoinOf(inst[i]) \in MessageType
           /\ \A t \in Sockets :
                /\ socks'[t].owner = socks[t].owner
                /\ socks'[t].joined = socks[t].joined
                /\ socks'[t].state = IF t = s THEN "open" ELSE socks[t].state
                /\ socks'[t].server = IF t = s THEN "open" ELSE socks[t].server
                /\ socks'[t].toServer =
                     IF /\ inst[i].ws # None /\ t = inst[i].ws
                        /\ t = s \/ socks[t].state = "open"
                     THEN Append(socks[t].toServer, JoinOf(inst[i]))
                     ELSE socks[t].toServer
<1> DEFINE new == [socks[s] EXCEPT !.state = "open", !.server = "open"]
           opened == [socks EXCEPT ![s] = new]
           me == [inst[i] EXCEPT !.connectionState = "open", !.heartbeat = TRUE]
<1>1. socks \in SocksType /\ socks[s] \in SocketType
  BY DEF Types, SocksType
<1>2. socks[s].state = "connecting"
  BY DEF Open
<1>3. i \in Instances /\ Alive(i) /\ inst[i] \in ClientType
  BY <1>2, AliveTyped DEF Owned
<1>4. inst' = [inst EXCEPT ![i] = me]
  BY <1>3 DEF Open, Types, InstType
<1>5. me \in ClientType
  BY <1>3 DEF ClientType
<1>6. SameKnowledge(me, inst[i]) /\ SameConnection(me, inst[i])
  BY <1>3 DEF ClientType, SameKnowledge, SameConnection
<1>7. new \in SocketType
  BY <1>1 DEF SocketType
<1>8. /\ new.owner = socks[s].owner /\ new.joined = socks[s].joined
      /\ new.toServer = socks[s].toServer
      /\ new.state = "open" /\ new.server = "open"
  BY <1>1 DEF SocketType
<1>9. JoinOf(inst[i]) \in MessageType
  BY <1>3 DEF JoinOf, MessageType, ClientType
<1>10. opened = [socks EXCEPT ![s].state = "open", ![s].server = "open"]
  BY <1>1 DEF SocksType
<1>11. socks' = send(opened, inst[i], JoinOf(inst[i]))
  BY <1>10 DEF Open, JoinOf
<1>12. /\ opened \in SocksType /\ opened[s] = new
       /\ \A t \in Sockets : t # s => opened[t] = socks[t]
  BY <1>1, <1>7 DEF SocksType
<1> HIDE DEF new, opened, me
<1>13. /\ socks' \in SocksType
       /\ \A t \in Sockets :
            /\ socks'[t].owner = opened[t].owner
            /\ socks'[t].server = opened[t].server
            /\ socks'[t].joined = opened[t].joined
            /\ socks'[t].state = opened[t].state
            /\ socks'[t].toServer =
                 IF inst[i].ws # None /\ t = inst[i].ws /\ opened[t].state = "open"
                 THEN Append(opened[t].toServer, JoinOf(inst[i]))
                 ELSE opened[t].toServer
  BY <1>3, <1>9, <1>11, <1>12, SendOps
<1>14. \A t \in Sockets :
            /\ socks'[t].owner = socks[t].owner
            /\ socks'[t].joined = socks[t].joined
            /\ socks'[t].state = IF t = s THEN "open" ELSE socks[t].state
            /\ socks'[t].server = IF t = s THEN "open" ELSE socks[t].server
            /\ socks'[t].toServer =
                 IF /\ inst[i].ws # None /\ t = inst[i].ws
                    /\ t = s \/ socks[t].state = "open"
                 THEN Append(socks[t].toServer, JoinOf(inst[i]))
                 ELSE socks[t].toServer
  BY <1>8, <1>12, <1>13
<1>15. /\ inst' \in InstType /\ inst'[i] = me
       /\ \A j \in Instances : j # i => inst'[j] = inst[j]
       /\ Alive(i)' /\ \A j \in Instances : j # i => (Alive(j)' <=> Alive(j))
  BY <1>3, <1>4, <1>5, InstPut
<1> QED
  BY <1>2, <1>3, <1>5, <1>6, <1>9, <1>13, <1>14, <1>15

\* A connection breaks.
LEMMA BreakSteps ==
    ASSUME Types, NEW s \in Sockets, Break(s)
    PROVE  /\ inst' = inst /\ socks' \in SocksType
           /\ left' \in Budget /\ left'.mounts = left.mounts
           /\ socks[s].state \in {"connecting", "open"}
           /\ \A t \in Sockets :
                /\ socks'[t].owner = socks[t].owner
                /\ socks'[t].server = socks[t].server
                /\ socks'[t].joined = socks[t].joined
                /\ socks'[t].state = IF t = s THEN "closing" ELSE socks[t].state
                /\ t # s => socks'[t].toServer = socks[t].toServer
           /\ \A k \in DOMAIN socks'[s].toServer :
                /\ k \in DOMAIN socks[s].toServer
                /\ socks'[s].toServer[k] = socks[s].toServer[k]
<1> DEFINE closed == close(socks, s)
<1>1. socks \in SocksType /\ socks[s] \in SocketType
  BY DEF Types, SocksType
<1>2. socks[s].toServer \in Seq(MessageType)
  BY <1>1 DEF SocketType
<1>3. PICK n \in 0..Len(socks[s].toServer) :
        socks' = [closed EXCEPT ![s].toServer = SubSeq(@, 1, n)]
  BY DEF Break
<1>4. socks[s].state \in {"connecting", "open"} /\ inst' = inst
  BY DEF Break
<1>5. left' \in Budget /\ left'.mounts = left.mounts
  BY SpendTyped DEF Break
<1>6. s # None
  BY BrowserAssumption DEF Sockets
<1>7. /\ closed \in SocksType
      /\ \A t \in Sockets :
           /\ closed[t].owner = socks[t].owner
           /\ closed[t].server = socks[t].server
           /\ closed[t].joined = socks[t].joined
           /\ closed[t].toServer = socks[t].toServer
           /\ closed[t].state = IF t = s THEN "closing" ELSE socks[t].state
  BY <1>1, <1>4, <1>6, CloseOps
<1> HIDE DEF closed
<1> DEFINE kept == SubSeq(socks[s].toServer, 1, n)
           new == [closed[s] EXCEPT !.toServer = kept]
<1>8. n \in Nat /\ n <= Len(socks[s].toServer) /\ Len(socks[s].toServer) \in Nat
  BY <1>2
<1>9. kept \in Seq(MessageType) /\ Len(kept) = n
      /\ \A k \in 1..n : kept[k] = socks[s].toServer[k]
  BY <1>2, <1>8
<1>10. closed[s] \in SocketType
  BY <1>7 DEF SocksType
<1>11. closed[s].toServer = socks[s].toServer
  BY <1>7
<1>12. socks' = [closed EXCEPT ![s] = new]
  BY <1>3, <1>7, <1>11 DEF SocksType
<1> HIDE DEF kept
<1>13. new \in SocketType
  BY <1>9, <1>10 DEF SocketType
<1>14. /\ new.owner = closed[s].owner /\ new.server = closed[s].server
       /\ new.joined = closed[s].joined /\ new.state = closed[s].state
       /\ new.toServer = kept
  BY <1>10 DEF SocketType
<1> HIDE DEF new
<1>15. /\ socks' \in SocksType /\ socks'[s] = new
       /\ \A t \in Sockets : t # s => socks'[t] = closed[t]
  BY <1>7, <1>12, <1>13 DEF SocksType
<1>16. \A k \in DOMAIN kept : k \in DOMAIN socks[s].toServer
                              /\ kept[k] = socks[s].toServer[k]
  BY <1>2, <1>8, <1>9
<1> QED
  BY <1>4, <1>5, <1>7, <1>14, <1>15, <1>16

\* The close event of the client's side
LEMMA CloseEventSteps ==
    ASSUME Types, Owned, NEW s \in Sockets, CloseEvent(s), NEW i, i = socks[s].owner
    PROVE  /\ i \in Instances /\ inst[i] \in ClientType
           /\ inst'[i] \in ClientType /\ inst' \in InstType
           /\ \A j \in Instances : j # i => inst'[j] = inst[j]
           /\ \A j \in Instances : Alive(j)' <=> Alive(j)
           /\ SameKnowledge(inst'[i], inst[i])
           /\ inst'[i].offline = inst[i].offline
           /\ inst'[i].closedByUser = inst[i].closedByUser
           /\ inst'[i].ws = (IF inst[i].ws = s THEN None ELSE inst[i].ws)
           /\ inst'[i].timer <=>
                inst[i].timer \/ ~(inst[i].closedByUser \/ inst[i].offline)
           /\ socks[s].state = "closing" /\ socks' \in SocksType
           /\ \A t \in Sockets : t # s => socks'[t] = socks[t]
           /\ socks'[s].owner = None /\ socks'[s].state = "free"
           /\ IF socks[s].server = "none" THEN socks'[s] = FreeSocket
              ELSE /\ socks'[s].server = socks[s].server
                   /\ socks'[s].joined = socks[s].joined
                   /\ socks'[s].toServer = socks[s].toServer
<1> DEFINE t1 == inst[i].timer \/ ~(inst[i].closedByUser \/ inst[i].offline)
           w == IF inst[i].ws = s THEN None ELSE inst[i].ws
           me == [inst[i] EXCEPT !.connectionState = "closed", !.heartbeat = FALSE,
                                 !.ws = w, !.timer = t1]
           freed == [socks[s] EXCEPT !.owner = None, !.state = "free"]
           new == IF socks[s].server = "none" THEN FreeSocket ELSE freed
<1>1. socks \in SocksType /\ socks[s] \in SocketType
  BY DEF Types, SocksType
<1>2. socks[s].state = "closing"
  BY DEF CloseEvent
<1>3. i \in Instances /\ Alive(i) /\ inst[i] \in ClientType
  BY <1>2, AliveTyped DEF Owned
<1>4. inst' = [inst EXCEPT ![i] = me]
  BY <1>3 DEF CloseEvent, Types, InstType, ClientType
<1>5. w \in Sockets \cup {None} /\ t1 \in BOOLEAN
  BY <1>3 DEF ClientType
<1> HIDE DEF t1, w
<1>6. me \in ClientType
  BY <1>3, <1>5 DEF ClientType
<1>7. /\ SameKnowledge(me, inst[i]) /\ me.offline = inst[i].offline
      /\ me.closedByUser = inst[i].closedByUser /\ me.ws = w /\ me.timer = t1
  BY <1>3 DEF ClientType, SameKnowledge
<1> HIDE DEF me
<1>8. /\ inst' \in InstType /\ inst'[i] = me
      /\ \A j \in Instances : j # i => inst'[j] = inst[j]
      /\ Alive(i)' /\ \A j \in Instances : j # i => (Alive(j)' <=> Alive(j))
  BY <1>3, <1>4, <1>6, InstPut
<1>9. freed \in SocketType /\ FreeSocket \in SocketType
  <2>1. <<>> \in Seq(MessageType)
    OBVIOUS
  <2> QED
    BY <1>1, <2>1 DEF SocketType, FreeSocket
<1>10. /\ freed.server = socks[s].server /\ freed.joined = socks[s].joined
       /\ freed.toServer = socks[s].toServer
       /\ freed.owner = None /\ freed.state = "free"
       /\ FreeSocket.owner = None /\ FreeSocket.state = "free"
  BY <1>1 DEF SocketType, FreeSocket
<1>11. socks' = [socks EXCEPT ![s] = new]
  BY <1>1 DEF CloseEvent, SocksType
<1> HIDE DEF freed
<1>12. /\ socks' \in SocksType /\ socks'[s] = new
       /\ \A t \in Sockets : t # s => socks'[t] = socks[t]
  BY <1>1, <1>9, <1>11 DEF SocksType
<1> QED
  BY <1>2, <1>3, <1>6, <1>7, <1>8, <1>10, <1>12 DEF t1, w

\* The close event of the server's side
LEMMA ServerCloseSteps ==
    ASSUME Types, NEW s \in Sockets, ServerClose(s)
    PROVE  /\ inst' = inst /\ socks' \in SocksType
           /\ registered' \in [RecordIds -> Sockets \cup {None}]
           /\ \A t \in Sockets : t # s => socks'[t] = socks[t]
           /\ socks[s].server = "open" /\ socks[s].toServer = <<>>
           /\ socks[s].state \in {"closing", "free"}
           /\ socks'[s].server = "none" /\ socks'[s].joined = None
           /\ socks'[s].toServer = <<>> /\ socks'[s].state = socks[s].state
           /\ IF socks[s].state = "free" THEN socks'[s].owner = None
              ELSE socks'[s].owner = socks[s].owner
           /\ \A r \in RecordIds :
                registered'[r] = IF r = socks[s].joined /\ registered[r] = s
                                 THEN None ELSE registered[r]
<1> DEFINE freed == [socks[s] EXCEPT !.server = "none", !.joined = None]
           new == IF socks[s].state = "free" THEN FreeSocket ELSE freed
<1>1. socks \in SocksType /\ socks[s] \in SocketType
  BY DEF Types, SocksType
<1>2. freed \in SocketType /\ FreeSocket \in SocketType
  <2>1. <<>> \in Seq(MessageType)
    OBVIOUS
  <2> QED
    BY <1>1, <2>1 DEF SocketType, FreeSocket
<1>3. /\ freed.server = "none" /\ freed.joined = None
      /\ freed.toServer = socks[s].toServer
      /\ freed.owner = socks[s].owner /\ freed.state = socks[s].state
      /\ FreeSocket.owner = None /\ FreeSocket.state = "free"
      /\ FreeSocket.server = "none" /\ FreeSocket.joined = None
      /\ FreeSocket.toServer = <<>>
  BY <1>1 DEF SocketType, FreeSocket
<1>4. socks' = [socks EXCEPT ![s] = new]
  BY <1>1 DEF ServerClose, SocksType
<1>5. /\ socks[s].server = "open" /\ socks[s].toServer = <<>>
      /\ socks[s].state \in {"closing", "free"} /\ inst' = inst
  BY DEF ServerClose
<1> HIDE DEF freed
<1>6. /\ socks' \in SocksType /\ socks'[s] = new
      /\ \A t \in Sockets : t # s => socks'[t] = socks[t]
  BY <1>1, <1>2, <1>4 DEF SocksType
<1>7. /\ registered' \in [RecordIds -> Sockets \cup {None}]
      /\ \A r \in RecordIds :
           registered'[r] = IF r = socks[s].joined /\ registered[r] = s
                            THEN None ELSE registered[r]
  <2>1. socks[s].joined \in RecordIds \cup {None} /\ None \notin RecordIds
    BY <1>1, BrowserAssumption DEF SocketType, RecordIds, Instances
  <2>2. registered' = IF socks[s].joined # None /\ registered[socks[s].joined] = s
                      THEN [registered EXCEPT ![socks[s].joined] = None]
                      ELSE registered
    BY DEF ServerClose
  <2> QED
    BY <2>1, <2>2 DEF Types
<1> QED
  BY <1>3, <1>5, <1>6, <1>7

-----------------------------------------------------------------------------
(* What the actions of the page and of IndexedDB do *)

\* A new instance asks for the three records.
LEMMA MountSteps ==
    ASSUME Types, NotYet, Mount, NEW i, i = MaxInstances - left.mounts + 1
    PROVE  /\ i \in Instances /\ ~Alive(i) /\ inst'[i] = NewInstance
           /\ NewInstance \in ClientType /\ inst' \in InstType
           /\ \A j \in Instances : j # i => inst'[j] = inst[j]
           /\ \A j \in Instances : j # i => (Alive(j)' <=> Alive(j))
           /\ left' \in Budget /\ left'.mounts = left.mounts - 1
           /\ left.mounts \in Nat
           /\ [call |-> "get", by |-> i] \in Gets
           /\ requests' \in RequestsType
           /\ requests'.documents =
                Append(requests.documents, [call |-> "get", by |-> i])
           /\ requests'.outbox =
                Append(requests.outbox, [call |-> "get", by |-> i])
           /\ requests'.replica =
                Append(requests.replica, [call |-> "get", by |-> i])
<1> DEFINE get == [call |-> "get", by |-> i]
<1>1. left \in Budget /\ left.mounts \in 1..MaxInstances
  BY BrowserAssumption DEF Types, Mount, Spend, Budget
<1>2. i \in Instances
  BY <1>1, BrowserAssumption DEF Instances
<1>3. ~Alive(i)
  BY <1>1, <1>2, BrowserAssumption DEF NotYet, Instances
<1>4. NewInstance \in ClientType
  BY OpsSets DEF NewInstance, NothingRead, ClientType, ReadType
<1>5. inst' = [inst EXCEPT ![i] = NewInstance]
  BY DEF Mount
<1>6. /\ inst' \in InstType /\ inst'[i] = NewInstance
      /\ \A j \in Instances : j # i => inst'[j] = inst[j]
      /\ \A j \in Instances : j # i => (Alive(j)' <=> Alive(j))
  BY <1>2, <1>4, <1>5, InstPut
<1>7. left' \in Budget /\ left'.mounts = left.mounts - 1
  <2>1. left.mounts - 1 \in 0..MaxInstances
    BY <1>1, BrowserAssumption
  <2>2. left' = [left EXCEPT !.mounts = left.mounts - 1]
    BY DEF Mount, Spend
  <2> QED
    BY <1>1, <2>1, <2>2 DEF Budget
<1>8. get \in Gets
  BY <1>2 DEF Gets
<1>9. /\ requests.documents \in Seq(DocumentCalls)
      /\ requests.outbox \in Seq(OutboxCalls)
      /\ requests.replica \in Seq(ReplicaCalls)
      /\ DOMAIN requests = {"documents", "outbox", "replica"}
  BY DEF Types, RequestsType
<1>10. /\ get \in DocumentCalls /\ get \in OutboxCalls /\ get \in ReplicaCalls
  BY <1>8 DEF DocumentCalls, OutboxCalls, ReplicaCalls
<1>11. /\ Append(requests.documents, get) \in Seq(DocumentCalls)
       /\ Append(requests.outbox, get) \in Seq(OutboxCalls)
       /\ Append(requests.replica, get) \in Seq(ReplicaCalls)
  BY <1>9, <1>10
<1>12. requests' = [store \in {"documents", "outbox", "replica"} |->
                      Append(requests[store], get)]
  BY <1>9 DEF Mount
<1> HIDE DEF get
<1>13. requests' = [documents |-> Append(requests.documents, get),
                    outbox |-> Append(requests.outbox, get),
                    replica |-> Append(requests.replica, get)]
  BY <1>12
<1>14. /\ requests'.documents = Append(requests.documents, get)
       /\ requests'.outbox = Append(requests.outbox, get)
       /\ requests'.replica = Append(requests.replica, get)
  BY <1>13
<1>15. requests' \in RequestsType
  BY <1>11, <1>13 DEF RequestsType
<1> QED
  BY <1>1, <1>2, <1>3, <1>4, <1>6, <1>7, <1>8, <1>14, <1>15 DEF get

\* The page goes with all that it held.
LEMMA ClosePageSteps ==
    ASSUME Types, ClosePage
    PROVE  /\ inst' = [i \in Instances |-> NoInstance]
           /\ \A i \in Instances : ~Alive(i)' /\ inst'[i].phase = "none"
           /\ requests' = NoRequests /\ requests' \in RequestsType
           /\ requests'.documents = <<>> /\ requests'.outbox = <<>>
           /\ requests'.replica = <<>>
           /\ torn' \in BOOLEAN /\ (~torn' => ~torn /\ requests = NoRequests)
           /\ (torn => torn')
           /\ socks' \in SocksType
           /\ \A t \in Sockets :
                /\ socks'[t].owner = None /\ socks'[t].state = "free"
                /\ IF socks[t].server = "none" THEN socks'[t] = FreeSocket
                   ELSE /\ socks'[t].server = socks[t].server
                        /\ socks'[t].joined = socks[t].joined
                        /\ socks'[t].toServer = socks[t].toServer
<1>1. inst' = [i \in Instances |-> NoInstance]
  BY DEF ClosePage
<1>2. \A i \in Instances : ~Alive(i)' /\ inst'[i].phase = "none"
  BY <1>1 DEF Alive, NoInstance
<1>3. requests' = NoRequests /\ requests' \in RequestsType
  <2>1. NoRequests \in RequestsType
    BY DEF NoRequests, RequestsType
  <2> QED
    BY <2>1 DEF ClosePage
<1>4. torn' \in BOOLEAN /\ (~torn' => ~torn /\ requests = NoRequests) /\ (torn => torn')
  BY DEF ClosePage, Types
<1>5. socks \in SocksType
  BY DEF Types
<1>6. ASSUME NEW t \in Sockets
      PROVE  /\ socks'[t] \in SocketType
             /\ socks'[t].owner = None /\ socks'[t].state = "free"
             /\ IF socks[t].server = "none" THEN socks'[t] = FreeSocket
                ELSE /\ socks'[t].server = socks[t].server
                     /\ socks'[t].joined = socks[t].joined
                     /\ socks'[t].toServer = socks[t].toServer
  <2> DEFINE freed == [socks[t] EXCEPT !.owner = None, !.state = "free"]
  <2>1. socks[t] \in SocketType
    BY <1>5 DEF SocksType
  <2>2. <<>> \in Seq(MessageType)
    OBVIOUS
  <2>3. freed \in SocketType /\ FreeSocket \in SocketType
    BY <2>1, <2>2 DEF SocketType, FreeSocket
  <2>4. /\ freed.owner = None /\ freed.state = "free"
        /\ freed.server = socks[t].server /\ freed.joined = socks[t].joined
        /\ freed.toServer = socks[t].toServer
        /\ FreeSocket.owner = None /\ FreeSocket.state = "free"
    BY <2>1 DEF SocketType, FreeSocket
  <2>5. socks'[t] = IF socks[t].server = "none" THEN FreeSocket ELSE freed
    BY DEF ClosePage
  <2> HIDE DEF freed
  <2> QED
    BY <2>3, <2>4, <2>5
<1>7. socks' = [t \in Sockets |-> socks'[t]]
  BY DEF ClosePage
<1>8. socks' \in SocksType
  BY <1>6, <1>7 DEF SocksType
<1>9. requests'.documents = <<>> /\ requests'.outbox = <<>> /\ requests'.replica = <<>>
  BY <1>3 DEF NoRequests
<1> QED
  BY <1>1, <1>2, <1>3, <1>4, <1>6, <1>8, <1>9

\* What an instance has read changes, in one record.
ReadOf(i, store, record) ==
    /\ inst[i] \in ClientType /\ inst'[i] \in ClientType /\ inst' \in InstType
    /\ \A j \in Instances : j # i => inst'[j] = inst[j]
    /\ \A j \in Instances : Alive(j)' <=> Alive(j)
    /\ inst'[i].read[store] = record
    /\ \A other \in {"replica", "document", "outbox"} \ {store} :
         inst'[i].read[other] = inst[i].read[other]
    /\ inst'[i].view = inst[i].view /\ inst'[i].outbox = inst[i].outbox
    /\ inst'[i].lastAckedSeq = inst[i].lastAckedSeq
    /\ inst'[i].synced = inst[i].synced
    /\ inst'[i].phase = inst[i].phase /\ inst'[i].replicaId = inst[i].replicaId
    /\ inst'[i].ws = inst[i].ws /\ inst'[i].timer = inst[i].timer
    /\ inst'[i].offline = inst[i].offline
    /\ inst'[i].closedByUser = inst[i].closedByUser

\* An answer of IndexedDB to instance i.
LEMMA ReadSteps ==
    ASSUME Types, NEW i \in Instances, Alive(i),
           NEW store \in {"replica", "document", "outbox"}, NEW record,
           store = "replica" => record \in RecordIds \cup {None},
           store = "document" => record \in DocumentType \cup {None},
           store = "outbox" => record \in Ops \cup {None},
           inst' = [inst EXCEPT ![i].read[store] = record]
    PROVE  ReadOf(i, store, record)
<1> DEFINE read == [inst[i].read EXCEPT ![store] = record]
           me == [inst[i] EXCEPT !.read = read]
<1>1. inst[i] \in ClientType
  BY AliveTyped
<1>2. inst[i].read \in ReadType
  BY <1>1 DEF ClientType
<1>3. read \in ReadType
  BY <1>2 DEF ReadType
<1>4. /\ read[store] = record
      /\ \A other \in {"replica", "document", "outbox"} \ {store} :
           read[other] = inst[i].read[other]
  BY <1>2 DEF ReadType
<1>5. inst' = [inst EXCEPT ![i] = me]
  BY <1>1 DEF Types, InstType
<1> HIDE DEF read
<1>6. me \in ClientType
  BY <1>1, <1>3 DEF ClientType
<1>7. /\ me.view = inst[i].view /\ me.outbox = inst[i].outbox
      /\ me.lastAckedSeq = inst[i].lastAckedSeq /\ me.synced = inst[i].synced
      /\ me.phase = inst[i].phase /\ me.replicaId = inst[i].replicaId
      /\ me.ws = inst[i].ws /\ me.timer = inst[i].timer /\ me.read = read
      /\ me.offline = inst[i].offline /\ me.closedByUser = inst[i].closedByUser
  BY <1>1 DEF ClientType
<1>8. /\ inst' \in InstType /\ inst'[i] = me
      /\ \A j \in Instances : j # i => inst'[j] = inst[j]
      /\ Alive(i)' /\ \A j \in Instances : j # i => (Alive(j)' <=> Alive(j))
  BY <1>5, <1>6, InstPut
<1> HIDE DEF me
<1> QED
  BY <1>1, <1>4, <1>6, <1>7, <1>8 DEF ReadOf

\* loadDocumentRecord and saveDocumentRecord
LEMMA ServeDocumentsSteps ==
    ASSUME Types, Asked, ServeDocuments, NEW r, r = Head(requests.documents)
    PROVE  /\ requests.documents # <<>> /\ r = requests.documents[1]
           /\ r \in DocumentCalls /\ requests' \in RequestsType
           /\ requests'.documents = Tail(requests.documents)
           /\ requests'.outbox = requests.outbox
           /\ requests'.replica = requests.replica
           /\ \/ /\ r.call = "get" /\ r.by \in Instances /\ Alive(r.by)
                 /\ ReadOf(r.by, "document", db.document) /\ db' = db
              \/ /\ r.call = "put" /\ r.record \in DocumentType /\ inst' = inst
                 /\ db' \in DbType /\ db'.replica = db.replica
                 /\ db'.document = r.record /\ db'.outbox = db.outbox
<1>1. requests.documents # <<>> /\ requests \in RequestsType /\ db \in DbType
  BY DEF ServeDocuments, Types
<1>2. /\ r = requests.documents[1] /\ 1 \in DOMAIN requests.documents
      /\ Tail(requests.documents) \in Seq(DocumentCalls)
      /\ r \in DocumentCalls
  BY <1>1, QueueOps, RequestFields
<1>3. /\ r.call = "get" => r \in Gets /\ r.by \in Instances
      /\ r.call = "put" => r.record \in DocumentType
  BY <1>2, RequestFields
<1>4. requests' = [requests EXCEPT !.documents = Tail(requests.documents)]
  BY DEF ServeDocuments
<1>5. /\ requests' \in RequestsType
      /\ requests'.documents = Tail(requests.documents)
      /\ requests'.outbox = requests.outbox
      /\ requests'.replica = requests.replica
  BY <1>1, <1>2, <1>4 DEF RequestsType
<1>6. CASE r.call = "get"
  <2>1. r.by \in Instances /\ Alive(r.by)
    BY <1>2, <1>3, <1>6 DEF Asked
  <2>2. inst' = [inst EXCEPT ![r.by].read.document = db.document] /\ db' = db
    BY <1>6 DEF ServeDocuments
  <2>3. db.document \in DocumentType
    BY <1>1 DEF DbType
  <2>4. inst' = [inst EXCEPT ![r.by].read["document"] = db.document]
    BY <2>2
  <2>5. ReadOf(r.by, "document", db.document)
    BY <2>1, <2>3, <2>4, ReadSteps
  <2> QED
    BY <1>1, <1>2, <1>5, <1>6, <2>1, <2>2, <2>5
<1>7. CASE r.call = "put"
  <2>1. db' = [db EXCEPT !.document = r.record] /\ inst' = inst
    BY <1>7 DEF ServeDocuments
  <2>2. /\ db' \in DbType /\ db'.replica = db.replica
        /\ db'.document = r.record /\ db'.outbox = db.outbox
    BY <1>1, <1>3, <1>7, <2>1 DEF DbType
  <2> QED
    BY <1>1, <1>2, <1>3, <1>5, <1>7, <2>1, <2>2
<1> QED
  BY <1>6, <1>7 DEF ServeDocuments

\* listOutbox, addToOutbox and removeFromOutbox
LEMMA ServeOutboxSteps ==
    ASSUME Types, Asked, ServeOutbox, NEW r, r = Head(requests.outbox)
    PROVE  /\ requests.outbox # <<>> /\ r = requests.outbox[1]
           /\ r \in OutboxCalls /\ requests' \in RequestsType
           /\ requests'.documents = requests.documents
           /\ requests'.outbox = Tail(requests.outbox)
           /\ requests'.replica = requests.replica
           /\ \/ /\ r.call = "get" /\ r.by \in Instances /\ Alive(r.by)
                 /\ ReadOf(r.by, "outbox", db.outbox) /\ db' = db
                 /\ stored' = stored
              \/ /\ r.call = "put" /\ r.op \in insertOpSchema /\ inst' = inst
                 /\ db' \in DbType /\ db'.replica = db.replica
                 /\ db'.document = db.document
                 /\ db'.outbox = {op \in db.outbox : op.id # r.op.id} \cup {r.op}
                 /\ stored' = stored \cup {r.op} /\ stored' \in Ops
              \/ /\ r.call = "delete" /\ r.key \in opIdSchema /\ inst' = inst
                 /\ db' \in DbType /\ db'.replica = db.replica
                 /\ db'.document = db.document
                 /\ db'.outbox = {op \in db.outbox : op.id # r.key}
                 /\ stored' = stored
<1>1. /\ requests.outbox # <<>> /\ requests \in RequestsType /\ db \in DbType
      /\ stored \in Ops
  BY DEF ServeOutbox, Types
<1>2. /\ r = requests.outbox[1] /\ 1 \in DOMAIN requests.outbox
      /\ Tail(requests.outbox) \in Seq(OutboxCalls) /\ r \in OutboxCalls
  BY <1>1, QueueOps, RequestFields
<1>3. /\ r.call = "get" => r \in Gets /\ r.by \in Instances
      /\ r.call = "put" => r.op \in insertOpSchema
      /\ r.call = "delete" => r.key \in opIdSchema
  BY <1>2, RequestFields
<1>4. requests' = [requests EXCEPT !.outbox = Tail(requests.outbox)]
  BY DEF ServeOutbox
<1>5. /\ requests' \in RequestsType
      /\ requests'.documents = requests.documents
      /\ requests'.outbox = Tail(requests.outbox)
      /\ requests'.replica = requests.replica
  BY <1>1, <1>2, <1>4 DEF RequestsType
<1>6. db.outbox \in Ops
  BY <1>1 DEF DbType
<1>7. CASE r.call = "get"
  <2>1. r.by \in Instances /\ Alive(r.by)
    BY <1>2, <1>3, <1>7 DEF Asked
  <2>2. /\ inst' = [inst EXCEPT ![r.by].read.outbox = db.outbox] /\ db' = db
        /\ stored' = stored
    BY <1>7 DEF ServeOutbox
  <2>3. inst' = [inst EXCEPT ![r.by].read["outbox"] = db.outbox]
    BY <2>2
  <2>4. ReadOf(r.by, "outbox", db.outbox)
    BY <1>6, <2>1, <2>3, ReadSteps
  <2> QED
    BY <1>1, <1>2, <1>5, <1>7, <2>1, <2>2, <2>4
<1>8. CASE r.call = "put"
  <2> DEFINE new == {op \in db.outbox : op.id # r.op.id} \cup {r.op}
  <2>1. /\ db' = [db EXCEPT !.outbox = new] /\ inst' = inst
        /\ stored' = stored \cup {r.op}
    BY <1>1, <1>8 DEF ServeOutbox, DbType
  <2>2. new \in Ops /\ stored' \in Ops
    <3>1. {op \in db.outbox : op.id # r.op.id} \in Ops
      BY <1>6, OpsSets
    <3>2. {r.op} \in Ops
      BY <1>3, <1>8, OpsSets
    <3> QED
      BY <1>1, <2>1, <3>1, <3>2, OpsSets
  <2> HIDE DEF new
  <2>3. /\ db' \in DbType /\ db'.replica = db.replica
        /\ db'.document = db.document /\ db'.outbox = new
    BY <1>1, <2>1, <2>2 DEF DbType
  <2> QED
    BY <1>1, <1>2, <1>3, <1>5, <1>8, <2>1, <2>2, <2>3 DEF new
<1>9. CASE r.call = "delete"
  <2> DEFINE new == {op \in db.outbox : op.id # r.key}
  <2>1. db' = [db EXCEPT !.outbox = new] /\ inst' = inst /\ stored' = stored
    BY <1>1, <1>9 DEF ServeOutbox, DbType
  <2>2. new \in Ops
    BY <1>6, OpsSets
  <2> HIDE DEF new
  <2>3. /\ db' \in DbType /\ db'.replica = db.replica
        /\ db'.document = db.document /\ db'.outbox = new
    BY <1>1, <2>1, <2>2 DEF DbType
  <2> QED
    BY <1>1, <1>2, <1>3, <1>5, <1>9, <2>1, <2>3 DEF new
<1> QED
  BY <1>7, <1>8, <1>9 DEF ServeOutbox

\* getOrCreateReplica
LEMMA ServeReplicaSteps ==
    ASSUME Types, Asked, ServeReplica, NEW r, r = Head(requests.replica)
    PROVE  /\ requests.replica # <<>> /\ r = requests.replica[1]
           /\ r.by \in Instances /\ Alive(r.by) /\ requests' \in RequestsType
           /\ requests'.documents = requests.documents
           /\ requests'.outbox = requests.outbox
           /\ db' \in DbType /\ db'.document = db.document
           /\ db'.outbox = db.outbox
           /\ \/ inst' = inst
              \/ \E id \in RecordIds : ReadOf(r.by, "replica", id)
           /\ \/ requests'.replica = Tail(requests.replica)
              \/ requests'.replica = Append(Tail(requests.replica),
                                            [call |-> "put", by |-> r.by])
<1>1. requests.replica # <<>> /\ requests \in RequestsType /\ db \in DbType
  BY DEF ServeReplica, Types
<1>2. /\ r = requests.replica[1] /\ 1 \in DOMAIN requests.replica
      /\ Tail(requests.replica) \in Seq(ReplicaCalls)
      /\ r \in ReplicaCalls
  BY <1>1, QueueOps, RequestFields
<1>3. r.call \in {"get", "put"} /\ r.by \in Instances /\ Alive(r.by)
  BY <1>2, RequestFields DEF Asked
<1> DEFINE put == [call |-> "put", by |-> r.by]
           created == <<"record", r.by>>
<1>4. put \in ReplicaCalls
  BY <1>3 DEF ReplicaCalls
<1>5. Append(Tail(requests.replica), put) \in Seq(ReplicaCalls)
  BY <1>2, <1>4, QueueOps
<1>6. created \in RecordIds
  BY <1>3 DEF RecordIds
<1>7. \/ requests' = [requests EXCEPT !.replica = Tail(requests.replica)]
      \/ requests' = [requests EXCEPT !.replica = Append(Tail(requests.replica), put)]
  BY DEF ServeReplica
<1> HIDE DEF put, created
<1>8. /\ requests' \in RequestsType
      /\ requests'.documents = requests.documents
      /\ requests'.outbox = requests.outbox
      /\ \/ requests'.replica = Tail(requests.replica)
         \/ requests'.replica = Append(Tail(requests.replica), put)
  BY <1>1, <1>2, <1>5, <1>7 DEF RequestsType
<1>9. db' = db \/ db' = [db EXCEPT !.replica = created]
  BY DEF ServeReplica, created
<1>10. db' \in DbType /\ db'.document = db.document /\ db'.outbox = db.outbox
  BY <1>1, <1>6, <1>9 DEF DbType
<1>11. \/ inst' = inst
       \/ \E id \in RecordIds : inst' = [inst EXCEPT ![r.by].read.replica = id]
  BY <1>1, <1>6 DEF ServeReplica, created, DbType
<1>12. ASSUME NEW id \in RecordIds, inst' = [inst EXCEPT ![r.by].read.replica = id]
       PROVE  ReadOf(r.by, "replica", id)
  <2>1. inst' = [inst EXCEPT ![r.by].read["replica"] = id]
    BY <1>12
  <2> QED
    BY <1>3, <2>1, ReadSteps
<1> QED
  BY <1>1, <1>2, <1>3, <1>8, <1>10, <1>11, <1>12 DEF put

-----------------------------------------------------------------------------
(* What the server's messages do *)

\* What a message makes of the instance me.
Learned(you, me, view, outbox, seq, synced) ==
    /\ you \in ClientType /\ SameConnection(you, me)
    /\ you.view = view /\ you.outbox = outbox
    /\ you.lastAckedSeq = seq /\ you.synced = synced

\* The server's messages parse, and each is handled by its type.
LEMMA MessagesHandled ==
    ASSUME NEW me \in ClientType, NEW seq \in Nat, NEW ops \in Ops,
           NEW ids \in SUBSET opIdSchema
    PROVE  /\ Learned(handleServerMessage(me,
                        [type |-> "sync", seq |-> seq, ops |-> ops]), me,
                      applyAll(me.view, ops), me.outbox, seq, TRUE)
           /\ Learned(handleServerMessage(me,
                        [type |-> "snapshot", seq |-> seq, state |-> ops]), me,
                      applyAll(ops, me.outbox), me.outbox, seq, TRUE)
           /\ Learned(handleServerMessage(me,
                        [type |-> "broadcast-op", seq |-> seq, ops |-> ops]), me,
                      applyAll(me.view, ops), me.outbox, me.lastAckedSeq, me.synced)
           /\ Learned(handleServerMessage(me,
                        [type |-> "ack", seq |-> seq, opIds |-> ids]), me,
                      me.view, {op \in me.outbox : op.id \notin ids}, seq, me.synced)
<1>1. me.view \in Ops /\ me.outbox \in Ops
  BY DEF ClientType
<1>2. ops \in SUBSET opSchema /\ ops \in SUBSET rgaSnapshotNodeSchema
  BY DEF Ops, opSchema, rgaSnapshotNodeSchema
<1>3. /\ applyAll(me.view, ops) \in Ops /\ applyAll(ops, me.outbox) \in Ops
      /\ {op \in me.outbox : op.id \notin ids} \in Ops
  BY <1>1, ApplyAll, OpsSets
<1>4. ASSUME NEW view \in Ops, NEW outbox \in Ops, NEW n \in Nat,
             NEW synced \in BOOLEAN
      PROVE  Learned([me EXCEPT !.view = view, !.outbox = outbox,
                                !.lastAckedSeq = n, !.synced = synced],
                     me, view, outbox, n, synced)
  BY DEF Learned, SameConnection, ClientType
<1>5. ASSUME NEW m, m = [type |-> "sync", seq |-> seq, ops |-> ops]
      PROVE  Learned(handleServerMessage(me, m), me,
                     applyAll(me.view, ops), me.outbox, seq, TRUE)
  <2>1. parseServerMessage(m) /\ m.type = "sync" /\ m.seq = seq /\ m.ops = ops
    BY <1>2, <1>5 DEF parseServerMessage, serverMessageSchema, syncMessageSchema
  <2>2. handleServerMessage(me, m) = onSync(me, m)
    BY <2>1 DEF handleServerMessage
  <2> DEFINE view == applyAll(me.view, ops)
  <2>3. onSync(me, m) = [me EXCEPT !.view = view, !.outbox = me.outbox,
                                   !.lastAckedSeq = seq, !.synced = TRUE]
    BY <2>1 DEF onSync, ClientType
  <2>4. view \in Ops
    BY <1>3
  <2> HIDE DEF view
  <2>5. Learned([me EXCEPT !.view = view, !.outbox = me.outbox,
                       !.lastAckedSeq = seq, !.synced = TRUE],
                me, view, me.outbox, seq, TRUE)
    BY <1>1, <1>4, <2>4
  <2>6. Learned(handleServerMessage(me, m),
                me, view, me.outbox, seq, TRUE)
    BY <2>2, <2>3, <2>5
  <2> QED
    BY <2>6 DEF view
<1>6. ASSUME NEW m, m = [type |-> "snapshot", seq |-> seq, state |-> ops]
      PROVE  Learned(handleServerMessage(me, m), me,
                     applyAll(ops, me.outbox), me.outbox, seq, TRUE)
  <2>1. /\ parseServerMessage(m) /\ m.type = "snapshot" /\ m.seq = seq
        /\ m.state = ops
    BY <1>2, <1>6 DEF parseServerMessage, serverMessageSchema,
                      snapshotMessageSchema
  <2>2. handleServerMessage(me, m) = onSnapshot(me, m)
    BY <2>1 DEF handleServerMessage
  <2> DEFINE view == applyAll(ops, me.outbox)
  <2>3. onSnapshot(me, m) = [me EXCEPT !.view = view, !.outbox = me.outbox,
                                       !.lastAckedSeq = seq, !.synced = TRUE]
    BY <2>1 DEF onSnapshot, ClientType
  <2>4. view \in Ops
    BY <1>3
  <2> HIDE DEF view
  <2>5. Learned([me EXCEPT !.view = view, !.outbox = me.outbox,
                       !.lastAckedSeq = seq, !.synced = TRUE],
                me, view, me.outbox, seq, TRUE)
    BY <1>1, <1>4, <2>4
  <2>6. Learned(handleServerMessage(me, m),
                me, view, me.outbox, seq, TRUE)
    BY <2>2, <2>3, <2>5
  <2> QED
    BY <2>6 DEF view
<1>7. ASSUME NEW m, m = [type |-> "broadcast-op", seq |-> seq, ops |-> ops]
      PROVE  Learned(handleServerMessage(me, m), me,
                     applyAll(me.view, ops), me.outbox, me.lastAckedSeq, me.synced)
  <2>1. parseServerMessage(m) /\ m.type = "broadcast-op" /\ m.ops = ops
    BY <1>2, <1>7 DEF parseServerMessage, serverMessageSchema,
                      broadcastOpMessageSchema
  <2>2. handleServerMessage(me, m) = onBroadcastOp(me, m)
    BY <2>1 DEF handleServerMessage
  <2> DEFINE view == applyAll(me.view, ops)
  <2>3. onBroadcastOp(me, m) =
          [me EXCEPT !.view = view, !.outbox = me.outbox,
                     !.lastAckedSeq = me.lastAckedSeq, !.synced = me.synced]
    BY <2>1 DEF onBroadcastOp, ClientType
  <2>4. view \in Ops /\ me.lastAckedSeq \in Nat /\ me.synced \in BOOLEAN
    BY <1>3 DEF ClientType
  <2> HIDE DEF view
  <2>5. Learned([me EXCEPT !.view = view, !.outbox = me.outbox,
                       !.lastAckedSeq = me.lastAckedSeq, !.synced = me.synced],
                me, view, me.outbox, me.lastAckedSeq, me.synced)
    BY <1>1, <1>4, <2>4
  <2>6. Learned(handleServerMessage(me, m),
                me, view, me.outbox, me.lastAckedSeq, me.synced)
    BY <2>2, <2>3, <2>5
  <2> QED
    BY <2>6 DEF view
<1>8. ASSUME NEW m, m = [type |-> "ack", seq |-> seq, opIds |-> ids]
      PROVE  Learned(handleServerMessage(me, m), me, me.view,
                     {op \in me.outbox : op.id \notin ids}, seq, me.synced)
  <2>1. parseServerMessage(m) /\ m.type = "ack" /\ m.seq = seq /\ m.opIds = ids
    BY <1>8 DEF parseServerMessage, serverMessageSchema, ackMessageSchema
  <2>2. handleServerMessage(me, m) = onAck(me, m)
    BY <2>1 DEF handleServerMessage
  <2> DEFINE outbox == {op \in me.outbox : op.id \notin ids}
  <2>3. onAck(me, m) = [me EXCEPT !.view = me.view, !.outbox = outbox,
                                  !.lastAckedSeq = seq, !.synced = me.synced]
    BY <2>1 DEF onAck, ClientType
  <2>4. outbox \in Ops /\ me.synced \in BOOLEAN
    BY <1>3 DEF ClientType
  <2> HIDE DEF outbox
  <2>5. Learned([me EXCEPT !.view = me.view, !.outbox = outbox,
                           !.lastAckedSeq = seq, !.synced = me.synced],
                me, me.view, outbox, seq, me.synced)
    BY <1>1, <1>4, <2>4
  <2>6. Learned(handleServerMessage(me, m), me, me.view, outbox, seq, me.synced)
    BY <2>2, <2>3, <2>5
  <2> QED
    BY <2>6 DEF outbox
<1> QED
  BY <1>5, <1>6, <1>7, <1>8

\* The log with the operations of fresh behind it, each once.
Grown(fresh) ==
    /\ log' \in Seq(insertOpSchema)
    /\ Len(log) \in Nat /\ Len(log') \in Nat /\ Len(log) <= Len(log')
    /\ \A k \in 1..Len(log) : log'[k] = log[k]
    /\ \A k \in (Len(log) + 1)..Len(log') : log'[k] \in fresh
    /\ \A k, l \in (Len(log) + 1)..Len(log') : log'[k] = log'[l] => k = l
    /\ Saved' = Saved \cup fresh

\* That is what appending the new operations makes of it.
LEMMA LogGrows ==
    ASSUME log \in Seq(insertOpSchema), NEW fresh \in Ops,
           log' = log \o SetToSeq(fresh)
    PROVE  Grown(fresh)
<1> DEFINE new == SetToSeq(fresh)
<1>1. /\ new \in Seq(fresh)
      /\ \A k \in 1..Len(new) : new[k] \in fresh
      /\ \A x \in fresh : \E k \in 1..Len(new) : new[k] = x
      /\ \A k, l \in 1..Len(new) : new[k] = new[l] => k = l
  BY SetToSeqFacts DEF Ops
<1>2. new \in Seq(insertOpSchema)
  BY <1>1 DEF Ops
<1> HIDE DEF new
<1>3. log' = log \o new
  BY DEF new
<1>4. /\ log' \in Seq(insertOpSchema)
      /\ Len(log') = Len(log) + Len(new) /\ Len(log) \in Nat /\ Len(new) \in Nat
      /\ DOMAIN log' = 1..(Len(log) + Len(new)) /\ DOMAIN log = 1..Len(log)
      /\ \A k \in 1..Len(log) : log'[k] = log[k]
      /\ \A k \in 1..Len(new) : log'[Len(log) + k] = new[k]
      /\ \A k \in (Len(log) + 1)..(Len(log) + Len(new)) :
           log'[k] = new[k - Len(log)] /\ k - Len(log) \in 1..Len(new)
  BY <1>2, <1>3, ConcatOps
<1>5. \A k \in (Len(log) + 1)..Len(log') : log'[k] \in fresh
  BY <1>1, <1>4
<1>6. \A k, l \in (Len(log) + 1)..Len(log') : log'[k] = log'[l] => k = l
  <2> SUFFICES ASSUME NEW k \in (Len(log) + 1)..Len(log'),
                      NEW l \in (Len(log) + 1)..Len(log'), log'[k] = log'[l]
               PROVE  k = l
    OBVIOUS
  <2> DEFINE a == k - Len(log)
             b == l - Len(log)
  <2>1. a \in 1..Len(new) /\ b \in 1..Len(new) /\ new[a] = new[b]
    BY <1>4
  <2>2. a = b
    BY <1>1, <2>1
  <2> QED
    BY <1>4, <2>2
<1>7. Saved' = Saved \cup fresh
  <2>1. \A x \in Saved' : x \in Saved \cup fresh
    <3> SUFFICES ASSUME NEW k \in DOMAIN log' PROVE log'[k] \in Saved \cup fresh
      BY DEF Saved
    <3>1. CASE k \in 1..Len(log)
      BY <1>4, <3>1 DEF Saved
    <3>2. CASE k \in (Len(log) + 1)..Len(log')
      BY <1>5, <3>2
    <3> QED
      BY <1>4, <3>1, <3>2
  <2>2. \A k \in DOMAIN log : log[k] \in Saved'
    BY <1>4 DEF Saved
  <2>3. \A x \in fresh : x \in Saved'
    <3> SUFFICES ASSUME NEW x \in fresh PROVE x \in Saved'
      OBVIOUS
    <3>1. PICK k \in 1..Len(new) : new[k] = x
      BY <1>1
    <3>2. Len(log) + k \in DOMAIN log' /\ log'[Len(log) + k] = x
      BY <1>4, <3>1
    <3> QED
      BY <3>2 DEF Saved
  <2> QED
    BY <2>1, <2>2, <2>3 DEF Saved
<1> QED
  BY <1>4, <1>5, <1>6, <1>7 DEF Grown

\* Instance i gets what the replica of sender sends.
Heard(i, sender) == \E r \in RecordIds \ {sender} :
    Reaches(registered[r]) /\ socks[registered[r]].owner = i

\* Whoever is reached is there.
LEMMA ReachedAlive ==
    ASSUME Types, Owned, NEW s \in Sockets \cup {None}, Reaches(s)
    PROVE  /\ s \in Sockets /\ socks[s].state = "open"
           /\ socks[s].owner \in Instances /\ Alive(socks[s].owner)
           /\ inst[socks[s].owner] \in ClientType
<1>1. s \in Sockets /\ socks[s].state = "open"
  BY DEF Reaches
<1>2. socks[s].owner \in Instances /\ Alive(socks[s].owner)
  BY <1>1 DEF Owned
<1> QED
  BY <1>1, <1>2, AliveTyped

\* What a broadcast makes of the instances.
LEMMA BroadcastSteps ==
    ASSUME Types, Owned, Len(log') \in Nat, NEW ops \in Ops,
           NEW sender \in RecordIds \cup {None}
    PROVE  LET in == broadcast(ops, sender) IN
           /\ in \in InstType
           /\ \A i \in Instances :
                /\ in[i].phase # "none" <=> Alive(i)
                /\ Heard(i, sender) =>
                     /\ inst[i] \in ClientType /\ Alive(i)
                     /\ Learned(in[i], inst[i], applyAll(inst[i].view, ops),
                                inst[i].outbox, inst[i].lastAckedSeq,
                                inst[i].synced)
                /\ ~Heard(i, sender) => in[i] = inst[i]
<1> DEFINE in == broadcast(ops, sender)
           m == [type |-> "broadcast-op", seq |-> Len(log'), ops |-> ops]
<1>1. \A i \in Instances :
        in[i] = IF Heard(i, sender) THEN handleServerMessage(inst[i], m)
                ELSE inst[i]
  BY DEF broadcast, Heard
<1>2. ASSUME NEW i \in Instances, Heard(i, sender)
      PROVE  /\ inst[i] \in ClientType /\ Alive(i)
             /\ Learned(in[i], inst[i], applyAll(inst[i].view, ops),
                        inst[i].outbox, inst[i].lastAckedSeq, inst[i].synced)
  <2>1. PICK r \in RecordIds :
          Reaches(registered[r]) /\ socks[registered[r]].owner = i
    BY <1>2 DEF Heard
  <2>2. registered[r] \in Sockets \cup {None}
    BY DEF Types
  <2>3. inst[i] \in ClientType /\ Alive(i)
    BY <2>1, <2>2, ReachedAlive
  <2>4. opIdSchema \in SUBSET opIdSchema
    OBVIOUS
  <2> QED
    BY <1>1, <1>2, <2>3, <2>4, MessagesHandled
<1>3. ASSUME NEW i \in Instances
      PROVE  in[i] \in ClientType \cup {NoInstance}
  BY <1>1, <1>2, <1>3 DEF Learned, Types, InstType
<1>4. in = [i \in Instances |-> in[i]]
  BY DEF broadcast
<1>5. in \in InstType
  BY <1>3, <1>4 DEF InstType
<1>6. ASSUME NEW i \in Instances
      PROVE  in[i].phase # "none" <=> Alive(i)
  <2>1. CASE Heard(i, sender)
    BY <1>2, <1>6, <2>1 DEF Learned, SameConnection, Alive
  <2>2. CASE ~Heard(i, sender)
    BY <1>1, <1>6, <2>2 DEF Alive
  <2> QED
    BY <2>1, <2>2
<1> QED
  BY <1>1, <1>2, <1>5, <1>6

\* Somebody else types.
LEMMA RemoteEditSteps ==
    ASSUME Types, Owned, RemoteEdit,
           NEW n, n = Cardinality({op \in Saved : op.id.replicaId = Elsewhere}) + 1,
           NEW op, op = [type |-> "insert", value |-> 0,
                         id |-> [counter |-> n, replicaId |-> Elsewhere]]
    PROVE  /\ op \in insertOpSchema /\ {op} \in Ops /\ n \in Nat
           /\ Grown({op}) /\ log' = Append(log, op)
           /\ left' \in Budget /\ left'.mounts = left.mounts
           /\ inst' \in InstType
           /\ \A i \in Instances :
                /\ Alive(i)' <=> Alive(i)
                /\ Heard(i, None) =>
                     /\ inst[i] \in ClientType /\ Alive(i)
                     /\ Learned(inst'[i], inst[i], applyAll(inst[i].view, {op}),
                                inst[i].outbox, inst[i].lastAckedSeq,
                                inst[i].synced)
                /\ ~Heard(i, None) => inst'[i] = inst[i]
<1>1. log \in Seq(insertOpSchema) /\ Saved \in Ops
  BY SavedTyped DEF Types
<1>2. {o \in Saved : o.id.replicaId = Elsewhere} \in Ops
  BY <1>1, OpsSets
<1>3. n \in Nat
  BY <1>2, FS_CardinalityType DEF Ops
<1>4. op \in insertOpSchema
  BY <1>3 DEF insertOpSchema, opIdSchema, ReplicaIds
<1>5. {op} \in Ops
  BY <1>4, OpsSets
<1>6. log' = Append(log, op)
  BY DEF RemoteEdit
<1>7. /\ log' \in Seq(insertOpSchema) /\ Len(log) \in Nat
      /\ Len(log') = Len(log) + 1 /\ DOMAIN log = 1..Len(log)
      /\ DOMAIN log' = 1..(Len(log) + 1)
      /\ \A k \in 1..Len(log) : log'[k] = log[k]
      /\ log'[Len(log) + 1] = op
  BY <1>1, <1>4, <1>6, QueueOps
<1>8. Saved' = Saved \cup {op}
  <2>1. \A k \in DOMAIN log' : k \in DOMAIN log \/ k = Len(log) + 1
    BY <1>7
  <2>2. \A k \in DOMAIN log : k \in DOMAIN log' /\ log'[k] = log[k]
    BY <1>7
  <2>3. Len(log) + 1 \in DOMAIN log'
    BY <1>7
  <2> QED
    BY <1>7, <2>1, <2>2, <2>3 DEF Saved
<1>9. Grown({op})
  <2>1. \A k \in (Len(log) + 1)..Len(log') : k = Len(log) + 1
    BY <1>7
  <2> QED
    BY <1>7, <1>8, <2>1 DEF Grown
<1>10. left' \in Budget /\ left'.mounts = left.mounts
  BY SpendTyped DEF RemoteEdit
<1>11. inst' = broadcast({op}, None) /\ Len(log') \in Nat
  BY <1>7 DEF RemoteEdit
<1>12. None \in RecordIds \cup {None}
  OBVIOUS
<1>13. /\ inst' \in InstType
       /\ \A i \in Instances :
            /\ inst'[i].phase # "none" <=> Alive(i)
            /\ Heard(i, None) =>
                 /\ inst[i] \in ClientType /\ Alive(i)
                 /\ Learned(inst'[i], inst[i], applyAll(inst[i].view, {op}),
                            inst[i].outbox, inst[i].lastAckedSeq,
                            inst[i].synced)
            /\ ~Heard(i, None) => inst'[i] = inst[i]
  BY <1>5, <1>11, <1>12, BroadcastSteps
<1> QED
  BY <1>3, <1>4, <1>5, <1>6, <1>9, <1>10, <1>13 DEF Alive

\* What an instance asks of IndexedDB after a message: its document, and that
\* the records of ids are removed.
Persisted(you, ids) ==
    /\ requests' \in RequestsType
    /\ requests'.documents =
         Append(requests.documents,
                [call |-> "put", record |-> [lastAckedSeq |-> you.lastAckedSeq,
                                             state |-> you.view]])
    /\ requests'.replica = requests.replica
    /\ Len(requests.outbox) \in Nat /\ Len(requests'.outbox) \in Nat
    /\ Len(requests.outbox) <= Len(requests'.outbox)
    /\ \A k \in 1..Len(requests.outbox) :
         requests'.outbox[k] = requests.outbox[k]
    /\ \A k \in (Len(requests.outbox) + 1)..Len(requests'.outbox) :
         requests'.outbox[k].call = "delete" /\ requests'.outbox[k].key \in ids

\* persistDocumentState and the removal from the outbox
LEMMA PersistSteps ==
    ASSUME Types, NEW you \in ClientType, NEW m, NEW ids \in SUBSET opIdSchema,
           IsFiniteSet(ids),
           \/ m.type = "ack" /\ m.opIds = ids
           \/ m.type # "ack" /\ ids = {},
           requests' = persist(requests, m, you)
    PROVE  Persisted(you, ids)
<1> DEFINE removed == {[call |-> "delete", key |-> id] : id \in ids}
           record == [lastAckedSeq |-> you.lastAckedSeq, state |-> you.view]
           put == [call |-> "put", record |-> record]
           dels == SetToSeq(removed)
<1>1. requests' = [requests EXCEPT !.outbox = @ \o dels,
                                   !.documents = Append(@, put)]
  <2>1. removed = IF m.type # "ack" THEN {}
                  ELSE {[call |-> "delete", key |-> id] : id \in m.opIds}
    OBVIOUS
  <2> QED
    BY <2>1 DEF persist
<1>2. IsFiniteSet(removed)
  <2> DEFINE f == [id \in ids |-> [call |-> "delete", key |-> id]]
  <2>1. f \in Surjection(ids, removed)
    BY DEF Surjection
  <2> QED
    BY <2>1, FS_Surjection
<1>3. removed \subseteq OutboxCalls
  BY DEF OutboxCalls
<1>4. /\ dels \in Seq(removed)
      /\ \A k \in 1..Len(dels) : dels[k] \in removed
  BY <1>2, SetToSeqFacts
<1>5. dels \in Seq(OutboxCalls)
  BY <1>3, <1>4
<1>6. put \in DocumentCalls
  BY DEF DocumentCalls, DocumentType, ClientType
<1>7. /\ requests.documents \in Seq(DocumentCalls) /\ requests \in RequestsType
      /\ requests.outbox \in Seq(OutboxCalls)
  BY RequestFields DEF Types
<1>8. \A x \in removed : x.call = "delete" /\ x.key \in ids
  OBVIOUS
<1> DEFINE q == requests.outbox \o dels
<1> HIDE DEF put, dels, removed
<1>9. /\ q \in Seq(OutboxCalls)
      /\ Len(q) = Len(requests.outbox) + Len(dels)
      /\ Len(requests.outbox) \in Nat /\ Len(dels) \in Nat
      /\ \A k \in 1..Len(requests.outbox) : q[k] = requests.outbox[k]
      /\ \A k \in (Len(requests.outbox) + 1)..(Len(requests.outbox) + Len(dels)) :
           q[k] = dels[k - Len(requests.outbox)]
             /\ k - Len(requests.outbox) \in 1..Len(dels)
  BY <1>5, <1>7, ConcatOps
<1>10. Append(requests.documents, put) \in Seq(DocumentCalls)
  BY <1>6, <1>7, QueueOps
<1>11. requests' = [requests EXCEPT !.outbox = q,
                                    !.documents = Append(requests.documents, put)]
  BY <1>1, <1>7 DEF RequestsType
<1> HIDE DEF q
<1>12. /\ requests' \in RequestsType /\ requests'.outbox = q
       /\ requests'.documents = Append(requests.documents, put)
       /\ requests'.replica = requests.replica
  BY <1>7, <1>9, <1>10, <1>11 DEF RequestsType
<1>13. \A k \in (Len(requests.outbox) + 1)..Len(q) :
         q[k].call = "delete" /\ q[k].key \in ids
  BY <1>4, <1>8, <1>9
<1> QED
  BY <1>9, <1>12, <1>13 DEF Persisted, put

\* applyLocalEdits, with the operation op.
Edited(i, op) ==
    /\ inst[i] \in ClientType /\ Current(i)
    /\ inst[i].phase = "init" => op.id.replicaId = <<"temp", i>>
    /\ inst[i].phase = "ready" =>
         op.id.replicaId = inst[i].replicaId /\ inst[i].replicaId \in RecordIds
    /\ op \in insertOpSchema /\ {op} \in Ops
    /\ \A o \in inst[i].view : o.id.counter < op.id.counter
    /\ inst' \in InstType
    /\ \A j \in Instances : j # i => inst'[j] = inst[j]
    /\ \A j \in Instances : Alive(j)' <=> Alive(j)
    /\ Learned(inst'[i], inst[i], inst[i].view \cup {op},
               {o \in inst[i].outbox : o.id # op.id} \cup {op},
               inst[i].lastAckedSeq, inst[i].synced)
    /\ [call |-> "put", op |-> op] \in OutboxCalls
    /\ requests' \in RequestsType
    /\ requests'.outbox =
         Append(requests.outbox, [call |-> "put", op |-> op])
    /\ requests'.documents = requests.documents
    /\ requests'.replica = requests.replica
    /\ [type |-> "op", ops |-> {op}] \in MessageType
    /\ socks' \in SocksType
    /\ \A t \in Sockets :
         /\ socks'[t].owner = socks[t].owner
         /\ socks'[t].server = socks[t].server
         /\ socks'[t].joined = socks[t].joined
         /\ socks'[t].state = socks[t].state
         /\ socks'[t].toServer =
              IF inst[i].ws # None /\ t = inst[i].ws
                 /\ socks[t].state = "open"
              THEN Append(socks[t].toServer,
                          [type |-> "op", ops |-> {op}])
              ELSE socks[t].toServer
    /\ made' = made \cup {op} /\ made' \in Ops /\ blind' \in Ops
    /\ blind' = (IF torn /\ ~inst[i].synced THEN blind \cup {op}
                 ELSE blind)
    /\ left' \in Budget /\ left'.mounts = left.mounts

\* An edit is one of these.
LEMMA EditSteps ==
    ASSUME Types, Named, NEW i \in Instances, Edit(i),
           NEW rid, rid = IF inst[i].phase = "init" THEN <<"temp", i>>
                          ELSE inst[i].replicaId,
           NEW op, op = [type |-> "insert", value |-> Cardinality(made) + 1,
                         id |-> [counter |-> nextCounter(inst[i].view),
                                 replicaId |-> rid]]
    PROVE  Edited(i, op)
<1>1. Current(i) /\ Alive(i) /\ inst[i] \in ClientType
  BY AliveTyped DEF Edit, Current
<1>2. /\ inst[i].view \in Ops /\ inst[i].outbox \in Ops
      /\ inst[i].phase \in {"init", "ready"}
      /\ inst[i].replicaId \in RecordIds \cup {None}
      /\ inst[i].lastAckedSeq \in Nat /\ inst[i].synced \in BOOLEAN
  BY <1>1 DEF ClientType
<1>3. /\ inst[i].phase = "init" => rid \in TempIds
      /\ inst[i].phase = "ready" => rid \in RecordIds
  BY <1>2 DEF TempIds, Named
<1>4. nextCounter(inst[i].view) \in Nat
      /\ \A o \in inst[i].view : o.id.counter < nextCounter(inst[i].view)
  BY <1>2, NextCounterGreater
<1>5. Cardinality(made) + 1 \in Nat /\ made \in Ops /\ blind \in Ops
  BY FS_CardinalityType DEF Ops, Types
<1>6. rid \in ReplicaIds
  BY <1>2, <1>3 DEF ReplicaIds
<1>7. op \in insertOpSchema /\ op.id.counter = nextCounter(inst[i].view)
  BY <1>4, <1>5, <1>6 DEF insertOpSchema, opIdSchema
<1>8. {op} \in Ops
  BY <1>7, OpsSets
<1>9. /\ inst' = [inst EXCEPT ![i].view = @ \cup {op},
                              ![i].outbox = {o \in @ : o.id # op.id} \cup {op}]
      /\ requests' = [requests EXCEPT !.outbox =
                        Append(@, [call |-> "put", op |-> op])]
      /\ socks' = send(socks, inst[i], [type |-> "op", ops |-> {op}])
      /\ made' = made \cup {op}
      /\ blind' = IF torn /\ ~inst[i].synced THEN blind \cup {op} ELSE blind
  BY DEF Edit
<1> DEFINE view == inst[i].view \cup {op}
           outbox == {o \in inst[i].outbox : o.id # op.id} \cup {op}
           me == [inst[i] EXCEPT !.view = view, !.outbox = outbox]
<1>10. view \in Ops /\ outbox \in Ops
  <2>1. {o \in inst[i].outbox : o.id # op.id} \in Ops
    BY <1>2, OpsSets
  <2> QED
    BY <1>2, <1>8, <2>1, OpsSets
<1>11. inst' = [inst EXCEPT ![i] = me]
  BY <1>1, <1>9 DEF Types, InstType
<1> HIDE DEF view, outbox
<1>12. me \in ClientType /\ Learned(me, inst[i], view, outbox,
                                    inst[i].lastAckedSeq, inst[i].synced)
  BY <1>1, <1>10 DEF ClientType, Learned, SameConnection
<1> HIDE DEF me
<1>13. /\ inst' \in InstType /\ inst'[i] = me
       /\ \A j \in Instances : j # i => inst'[j] = inst[j]
       /\ Alive(i)' /\ \A j \in Instances : j # i => (Alive(j)' <=> Alive(j))
  BY <1>11, <1>12, InstPut
<1>14. made' \in Ops /\ blind' \in Ops
  BY <1>5, <1>8, <1>9, OpsSets
<1>15. left' \in Budget /\ left'.mounts = left.mounts
  BY SpendTyped DEF Edit
<1>16. [type |-> "op", ops |-> {op}] \in MessageType
  BY <1>8 DEF MessageType
<1>17. socks \in SocksType
  BY DEF Types
<1> DEFINE message == [type |-> "op", ops |-> {op}]
<1> HIDE DEF message
<1>18. message \in MessageType /\ socks' = send(socks, inst[i], message)
  BY <1>9, <1>16 DEF message
<1>19. /\ socks' \in SocksType
       /\ \A t \in Sockets :
            /\ socks'[t].owner = socks[t].owner
            /\ socks'[t].server = socks[t].server
            /\ socks'[t].joined = socks[t].joined
            /\ socks'[t].state = socks[t].state
            /\ socks'[t].toServer =
                 IF inst[i].ws # None /\ t = inst[i].ws
                    /\ socks[t].state = "open"
                 THEN Append(socks[t].toServer, message)
                 ELSE socks[t].toServer
  BY <1>1, <1>17, <1>18, SendOps
<1> DEFINE put == [call |-> "put", op |-> op]
           queue == Append(requests.outbox, put)
<1>20. put \in OutboxCalls
  BY <1>7 DEF OutboxCalls
<1>21. requests \in RequestsType /\ requests.outbox \in Seq(OutboxCalls)
  BY RequestFields DEF Types
<1>22. queue \in Seq(OutboxCalls)
  BY <1>20, <1>21, QueueOps
<1>23. requests' = [requests EXCEPT !.outbox = queue]
  BY <1>9, <1>21 DEF RequestsType
<1> HIDE DEF queue
<1>24. /\ requests' \in RequestsType /\ requests'.outbox = queue
       /\ requests'.documents = requests.documents
       /\ requests'.replica = requests.replica
  BY <1>21, <1>22, <1>23 DEF RequestsType
<1>25. \A o \in inst[i].view : o.id.counter < op.id.counter
  BY <1>4, <1>7
<1>26. /\ inst[i].phase = "init" => op.id.replicaId = <<"temp", i>>
       /\ inst[i].phase = "ready" =>
            op.id.replicaId = inst[i].replicaId /\ inst[i].replicaId \in RecordIds
  <2>1. op.id.replicaId = rid
    OBVIOUS
  <2> QED
    BY <1>3, <2>1
<1> QED
  BY <1>1, <1>3, <1>7, <1>8, <1>9, <1>12, <1>13, <1>14, <1>15, <1>16, <1>19,
     <1>20, <1>24, <1>25, <1>26 DEF view, outbox, queue, message, Edited

-----------------------------------------------------------------------------
(* What the server does with a message *)

\* The queue of socket t when the first message of socket s is taken.
Taken(s, t) == IF t = s THEN Tail(socks[t].toServer) ELSE socks[t].toServer

\* The sockets are as before, but for that message.
OneTaken(sk, s) ==
    /\ sk \in SocksType
    /\ \A t \in Sockets :
         /\ sk[t].owner = socks[t].owner /\ sk[t].server = socks[t].server
         /\ sk[t].joined = socks[t].joined /\ sk[t].state = socks[t].state
         /\ sk[t].toServer = Taken(s, t)

\* What is taken is a message of one of two types.
LEMMA RestSteps ==
    ASSUME Types, NEW s \in Sockets, socks[s].toServer # <<>>,
           NEW m, m = Head(socks[s].toServer)
    PROVE  /\ OneTaken([socks EXCEPT ![s].toServer = Tail(@)], s)
           /\ m \in MessageType /\ m = socks[s].toServer[1]
           /\ 1 \in DOMAIN socks[s].toServer
           /\ m.type \in {"join", "op"}
           /\ m.type = "join" =>
                m.replicaId \in RecordIds \cup {None} /\ m.sinceSeq \in Nat
           /\ m.type = "op" => m.ops \in Ops
<1>1. socks \in SocksType /\ socks[s] \in SocketType
  BY DEF Types, SocksType
<1>2. socks[s].toServer \in Seq(MessageType)
  BY <1>1 DEF SocketType
<1> DEFINE rest == Tail(socks[s].toServer)
           new == [socks[s] EXCEPT !.toServer = rest]
           sk == [socks EXCEPT ![s].toServer = Tail(@)]
<1>3. /\ rest \in Seq(MessageType) /\ m \in MessageType
      /\ m = socks[s].toServer[1] /\ 1 \in DOMAIN socks[s].toServer
  BY <1>2, QueueOps
<1>4. sk = [socks EXCEPT ![s] = new]
  BY <1>1 DEF SocksType
<1> HIDE DEF rest, sk
<1>5. new \in SocketType
  BY <1>1, <1>3 DEF SocketType
<1>6. /\ new.owner = socks[s].owner /\ new.server = socks[s].server
      /\ new.joined = socks[s].joined /\ new.state = socks[s].state
      /\ new.toServer = rest
  BY <1>1 DEF SocketType
<1> HIDE DEF new
<1>7. /\ sk \in SocksType /\ sk[s] = new
      /\ \A t \in Sockets : t # s => sk[t] = socks[t]
  BY <1>1, <1>4, <1>5 DEF SocksType
<1>8. \A t \in Sockets : Taken(s, t) = IF t = s THEN rest ELSE socks[t].toServer
  BY DEF Taken, rest
<1>9. OneTaken(sk, s)
  BY <1>6, <1>7, <1>8 DEF OneTaken
<1>10. /\ m.type \in {"join", "op"}
       /\ m.type = "join" =>
            m.replicaId \in RecordIds \cup {None} /\ m.sinceSeq \in Nat
       /\ m.type = "op" => m.ops \in Ops
  BY <1>3 DEF MessageType
<1> QED
  BY <1>3, <1>9, <1>10 DEF sk

\* A join that the server takes names a replica, and a message of operations
\* that it takes is neither empty nor too long.
LEMMA AcceptedMessage ==
    ASSUME NEW m \in MessageType, parseClientMessage(m)
    PROVE  /\ m.type = "join" => m.replicaId \in RecordIds
           /\ m.type = "op" => m.ops # {}
<1>1. CASE m.type = "join"
  <2>1. m \notin opMessageSchema /\ m \notin presenceMessageSchema
        /\ m \notin leaveMessageSchema
    BY <1>1 DEF opMessageSchema, presenceMessageSchema, leaveMessageSchema
  <2>2. m \in joinMessageSchema
    BY <2>1 DEF parseClientMessage, clientMessageSchema
  <2>3. m.replicaId \in ReplicaIds
    BY <2>2 DEF joinMessageSchema
  <2>4. m.replicaId \in RecordIds \cup {None}
    BY <1>1 DEF MessageType
  <2>5. None \notin ReplicaIds
    <3>1. Elsewhere \in {"record", "temp", "elsewhere"} \X (0..MaxInstances)
      BY BrowserAssumption DEF Elsewhere
    <3> QED
      BY <3>1, BrowserAssumption DEF ReplicaIds, RecordIds, TempIds, Instances
  <2> QED
    BY <1>1, <2>3, <2>4, <2>5
<1>2. CASE m.type = "op"
  <2>1. m \notin joinMessageSchema /\ m \notin presenceMessageSchema
        /\ m \notin leaveMessageSchema
    BY <1>2 DEF joinMessageSchema, presenceMessageSchema, leaveMessageSchema
  <2>2. m \in opMessageSchema
    BY <2>1 DEF parseClientMessage, clientMessageSchema
  <2>3. Cardinality(m.ops) \in 1..MaxOpsPerMessage
    BY <2>2 DEF opMessageSchema
  <2>4. m.ops # {}
    BY <2>3, FS_EmptySet
  <2> QED
    BY <1>2, <2>4
<1> QED
  BY <1>1, <1>2 DEF MessageType

\* The answer to a join makes of the instance me, which has a view of its own,
\* one that has all that the server has.
CaughtUp(you, me, since) ==
    \/ Learned(you, me,
               applyAll(me.view, {log[k] : k \in (since + 1)..Len(log)}),
               me.outbox, Len(log), TRUE)
    \/ Learned(you, me, applyAll(Saved, me.outbox), me.outbox, Len(log), TRUE)

\* The socket that a join of replica r on socket s replaces.
Replaced(t, s, r) == /\ t = registered[r] /\ t # s
                     /\ socks[t].state \in {"connecting", "open"}

\* What the sockets are after a join; flushed is the instance that answers the
\* reply with its outbox, if any is reached.
AfterJoin(s, r, reached, flushed) ==
    /\ socks' \in SocksType
    /\ \A t \in Sockets :
         /\ socks'[t].owner = socks[t].owner
         /\ socks'[t].server = socks[t].server
         /\ socks'[t].joined = (IF t = s THEN r ELSE socks[t].joined)
         /\ socks'[t].state = (IF Replaced(t, s, r) THEN "closing"
                               ELSE socks[t].state)
         /\ socks'[t].toServer =
              IF /\ reached /\ flushed.outbox # {}
                 /\ t = flushed.ws /\ socks'[t].state = "open"
              THEN Append(Taken(s, t), [type |-> "op", ops |-> flushed.outbox])
              ELSE Taken(s, t)

\* dispatchMessage of a join
LEMMA JoinSteps ==
    ASSUME Types, Owned, NEW s \in Sockets, socks[s].toServer # <<>>,
           NEW m, m = Head(socks[s].toServer),
           Join(s, m, [socks EXCEPT ![s].toServer = Tail(@)]),
           NEW i, i = socks[s].owner
    PROVE  /\ m.type = "join" /\ m.replicaId \in RecordIds /\ m.sinceSeq \in Nat
           /\ socks[s].joined = None /\ log' = log
           /\ registered' \in [RecordIds -> Sockets \cup {None}]
           /\ \A r \in RecordIds :
                registered'[r] = IF r = m.replicaId THEN s ELSE registered[r]
           /\ inst' \in InstType /\ requests' \in RequestsType
           /\ AfterJoin(s, m.replicaId, Reaches(s), inst'[i])
           /\ \A j \in Instances : Alive(j)' <=> Alive(j)
           /\ IF Reaches(s)
              THEN /\ i \in Instances /\ inst[i] \in ClientType
                   /\ CaughtUp(inst'[i], inst[i], m.sinceSeq)
                   /\ \A j \in Instances : j # i => inst'[j] = inst[j]
                   /\ Persisted(inst'[i], {})
              ELSE inst' = inst /\ requests' = requests
<1> DEFINE rest == [socks EXCEPT ![s].toServer = Tail(@)]
           r == m.replicaId
           previous == registered[r]
           joined == [rest EXCEPT ![s].joined = r]
           replaced == IF previous = s THEN joined ELSE close(joined, previous)
           missed == {log[k] : k \in (m.sinceSeq + 1)..Len(log)}
           sync == [type |-> "sync", seq |-> Len(log), ops |-> missed]
           snapshot == [type |-> "snapshot", seq |-> Len(log), state |-> Saved]
<1>1. /\ parseClientMessage(m) /\ m.type = "join" /\ socks[s].joined = None
      /\ log' = log /\ registered' = [registered EXCEPT ![r] = s]
      /\ \/ Deliver(replaced, inst, s, sync)
         \/ Deliver(replaced, inst, s, snapshot)
  BY DEF Join
<1>2. /\ OneTaken(rest, s) /\ m \in MessageType /\ m.sinceSeq \in Nat
  BY <1>1, RestSteps
<1>3. r \in RecordIds
  BY <1>1, <1>2, AcceptedMessage
<1>4. /\ registered \in [RecordIds -> Sockets \cup {None}]
      /\ registered' \in [RecordIds -> Sockets \cup {None}]
      /\ \A q \in RecordIds :
           registered'[q] = IF q = r THEN s ELSE registered[q]
  BY <1>1, <1>3 DEF Types
<1>5. s # None
  BY BrowserAssumption DEF Sockets
<1>6. /\ replaced \in SocksType
      /\ \A t \in Sockets :
           /\ replaced[t].owner = socks[t].owner
           /\ replaced[t].server = socks[t].server
           /\ replaced[t].joined = (IF t = s THEN r ELSE socks[t].joined)
           /\ replaced[t].state = (IF Replaced(t, s, r) THEN "closing"
                                   ELSE socks[t].state)
           /\ replaced[t].toServer = Taken(s, t)
  <2> DEFINE new == [rest[s] EXCEPT !.joined = r]
  <2>1. rest \in SocksType /\ rest[s] \in SocketType
    BY <1>2 DEF OneTaken, SocksType
  <2>2. new \in SocketType
    BY <1>3, <2>1 DEF SocketType
  <2>3. /\ new.owner = rest[s].owner /\ new.server = rest[s].server
        /\ new.joined = r /\ new.state = rest[s].state
        /\ new.toServer = rest[s].toServer
    BY <2>1 DEF SocketType
  <2> HIDE DEF rest
  <2>4. joined = [rest EXCEPT ![s] = new]
    BY <2>1 DEF SocksType
  <2> HIDE DEF new, joined
  <2>5. /\ joined \in SocksType /\ joined[s] = new
        /\ \A t \in Sockets : t # s => joined[t] = rest[t]
    BY <2>1, <2>2, <2>4 DEF SocksType
  <2>6. \A t \in Sockets :
          /\ joined[t].owner = socks[t].owner
          /\ joined[t].server = socks[t].server
          /\ joined[t].joined = (IF t = s THEN r ELSE socks[t].joined)
          /\ joined[t].state = socks[t].state
          /\ joined[t].toServer = Taken(s, t)
    BY <1>2, <2>3, <2>5 DEF OneTaken
  <2>7. CASE previous = s
    BY <2>5, <2>6, <2>7 DEF Replaced
  <2>8. CASE previous # s
    <3>1. replaced = close(joined, previous)
      BY <2>8
    <3> HIDE DEF replaced, previous
    <3>0. joined \in SocksType
      BY <2>5
    <3>2. /\ replaced \in SocksType
          /\ \A t \in Sockets :
               /\ replaced[t].owner = joined[t].owner
               /\ replaced[t].server = joined[t].server
               /\ replaced[t].joined = joined[t].joined
               /\ replaced[t].toServer = joined[t].toServer
               /\ replaced[t].state =
                    IF previous # None /\ t = previous
                       /\ joined[t].state \in {"connecting", "open"}
                    THEN "closing" ELSE joined[t].state
      BY <3>0, <3>1, CloseOps
    <3>3. None \notin Sockets
      BY BrowserAssumption DEF Sockets
    <3>4. ASSUME NEW t \in Sockets
          PROVE  replaced[t].state = IF Replaced(t, s, r) THEN "closing"
                                     ELSE socks[t].state
      <4>1. joined[t].state = socks[t].state
        BY <2>6
      <4>2. Replaced(t, s, r) <=> /\ previous # None /\ t = previous
                                  /\ joined[t].state \in {"connecting", "open"}
        BY <2>8, <3>3, <4>1 DEF Replaced, previous
      <4> QED
        BY <3>2, <4>1, <4>2
    <3> QED
      BY <2>6, <3>2, <3>4
  <2> QED
    BY <2>7, <2>8
<1>7. missed \in Ops /\ Saved \in Ops /\ Len(log) \in Nat
  <2>1. log \in Seq(insertOpSchema)
    BY DEF Types
  <2> QED
    BY <1>2, <2>1, SavedTyped
<1> HIDE DEF rest, joined, replaced, missed
<1>8. CASE ~Reaches(s)
  <2>1. inst' = inst /\ requests' = requests /\ socks' = replaced
    BY <1>1, <1>8 DEF Deliver
  <2>2. AfterJoin(s, r, Reaches(s), inst'[i])
    BY <1>6, <1>8, <2>1 DEF AfterJoin
  <2>3. inst' \in InstType /\ requests' \in RequestsType
    BY <2>1 DEF Types
  <2> QED
    BY <1>1, <1>2, <1>3, <1>4, <1>8, <2>1, <2>2, <2>3 DEF Alive
<1>9. CASE Reaches(s)
  <2>1. i \in Instances /\ Alive(i) /\ inst[i] \in ClientType
    BY <1>9, ReachedAlive
  <2>2. PICK a \in {sync, snapshot} : Deliver(replaced, inst, s, a)
    BY <1>1
  <2>3. a.type # "ack"
    BY <2>2
  <2> DEFINE you == handleServerMessage(inst[i], a)
  <2>4. /\ inst' = [inst EXCEPT ![i] = you]
        /\ requests' = persist(requests, a, you)
        /\ socks' = flushOutbox(replaced, you)
    BY <1>9, <2>2, <2>3 DEF Deliver
  <2>5. CaughtUp(you, inst[i], m.sinceSeq)
    <3>1. {} \in SUBSET opIdSchema
      OBVIOUS
    <3>2. CASE a = sync
      <4>1. Learned(you, inst[i], applyAll(inst[i].view, missed),
                    inst[i].outbox, Len(log), TRUE)
        BY <1>7, <2>1, <3>1, <3>2, MessagesHandled
      <4> QED
        BY <4>1 DEF CaughtUp, missed
    <3>3. CASE a = snapshot
      <4>1. Learned(you, inst[i], applyAll(Saved, inst[i].outbox),
                    inst[i].outbox, Len(log), TRUE)
        BY <1>7, <2>1, <3>1, <3>3, MessagesHandled
      <4> QED
        BY <4>1 DEF CaughtUp
    <3> QED
      BY <2>2, <3>2, <3>3
  <2> HIDE DEF you
  <2>6. you \in ClientType
    BY <2>5 DEF CaughtUp, Learned
  <2>7. /\ inst' \in InstType /\ inst'[i] = you
        /\ \A j \in Instances : j # i => inst'[j] = inst[j]
        /\ Alive(i)' /\ \A j \in Instances : j # i => (Alive(j)' <=> Alive(j))
    BY <2>1, <2>4, <2>6, InstPut
  <2>8. Persisted(you, {})
    <3>1. {} \in SUBSET opIdSchema /\ IsFiniteSet({})
      BY FS_EmptySet
    <3> QED
      BY <2>3, <2>4, <2>6, <3>1, PersistSteps
  <2>9. AfterJoin(s, r, Reaches(s), you)
    <3>1. CASE you.outbox = {}
      <4>1. socks' = replaced
        BY <2>4, <3>1 DEF flushOutbox
      <4> QED
        BY <1>6, <3>1, <4>1 DEF AfterJoin
    <3>2. CASE you.outbox # {}
      <4> DEFINE message == [type |-> "op", ops |-> you.outbox]
      <4>1. message \in MessageType
        BY <2>6 DEF MessageType, ClientType
      <4>2. socks' = send(replaced, you, message)
        BY <2>4, <3>2 DEF flushOutbox
      <4> HIDE DEF message
      <4>3. /\ socks' \in SocksType
            /\ \A t \in Sockets :
                 /\ socks'[t].owner = replaced[t].owner
                 /\ socks'[t].server = replaced[t].server
                 /\ socks'[t].joined = replaced[t].joined
                 /\ socks'[t].state = replaced[t].state
                 /\ socks'[t].toServer =
                      IF you.ws # None /\ t = you.ws /\ replaced[t].state = "open"
                      THEN Append(replaced[t].toServer, message)
                      ELSE replaced[t].toServer
        BY <1>6, <2>6, <4>1, <4>2, SendOps
      <4>4. None \notin Sockets
        BY BrowserAssumption DEF Sockets
      <4>5. \A t \in Sockets :
              /\ socks'[t].owner = socks[t].owner
              /\ socks'[t].server = socks[t].server
              /\ socks'[t].joined = (IF t = s THEN r ELSE socks[t].joined)
              /\ socks'[t].state = (IF Replaced(t, s, r) THEN "closing"
                                    ELSE socks[t].state)
        BY <1>6, <4>3
      <4>6. \A t \in Sockets :
              socks'[t].toServer =
                IF you.outbox # {} /\ t = you.ws /\ socks'[t].state = "open"
                THEN Append(Taken(s, t), message) ELSE Taken(s, t)
        BY <1>6, <3>2, <4>3, <4>4
      <4> QED
        BY <1>9, <4>3, <4>5, <4>6 DEF AfterJoin, message
    <3> QED
      BY <3>1, <3>2
  <2>10. requests' \in RequestsType
    BY <2>8 DEF Persisted
  <2>11. \A j \in Instances : Alive(j)' <=> Alive(j)
    BY <2>1, <2>7
  <2> QED
    BY <1>1, <1>2, <1>3, <1>4, <1>9, <2>1, <2>5, <2>7, <2>8, <2>9, <2>10, <2>11
<1> QED
  BY <1>8, <1>9

\* What instance j makes of operations that replica r has sent, whose socket
\* is w: they are broadcast to the others and acked to the sender.
AfterOps(j, ops, r, w) ==
    LET view == IF Heard(j, r) THEN applyAll(inst[j].view, ops) ELSE inst[j].view
    IN  IF Reaches(w) /\ j = socks[w].owner
        THEN /\ inst[j] \in ClientType
             /\ Learned(inst'[j], inst[j], view,
                        {op \in inst[j].outbox : op.id \notin Ids(ops)},
                        Len(log'), inst[j].synced)
        ELSE IF Heard(j, r)
        THEN /\ inst[j] \in ClientType
             /\ Learned(inst'[j], inst[j], view, inst[j].outbox,
                        inst[j].lastAckedSeq, inst[j].synced)
        ELSE inst'[j] = inst[j]

\* dispatchMessage of operations
LEMMA ApplySteps ==
    ASSUME Types, Owned, NEW s \in Sockets, socks[s].toServer # <<>>,
           NEW m, m = Head(socks[s].toServer),
           ApplyClientOp(s, m, [socks EXCEPT ![s].toServer = Tail(@)]),
           NEW r, r = socks[s].joined, NEW w, w = registered[r],
           NEW fresh, fresh = {op \in m.ops : op.id \notin Ids(Saved)}
    PROVE  /\ m.type = "op" /\ m.ops \in Ops /\ m.ops # {} /\ r \in RecordIds
           /\ fresh \in Ops /\ Grown(fresh) /\ registered' = registered
           /\ OneTaken(socks', s)
           /\ inst' \in InstType /\ requests' \in RequestsType
           /\ \A j \in Instances : Alive(j)' <=> Alive(j)
           /\ \A j \in Instances : AfterOps(j, m.ops, r, w)
           /\ IF Reaches(w)
              THEN /\ socks[w].owner \in Instances
                   /\ Persisted(inst'[socks[w].owner], Ids(m.ops))
              ELSE requests' = requests
<1> DEFINE rest == [socks EXCEPT ![s].toServer = Tail(@)]
           in == broadcast(m.ops, r)
           ids == Ids(m.ops)
           ack == [type |-> "ack", seq |-> Len(log'), opIds |-> ids]
           i == socks[w].owner
           you == handleServerMessage(in[i], ack)
<1>1. /\ parseClientMessage(m) /\ m.type = "op" /\ r # None
      /\ log' = log \o SetToSeq(fresh) /\ registered' = registered
      /\ Deliver(rest, in, w, ack)
  BY DEF ApplyClientOp
<1>2. OneTaken(rest, s) /\ m \in MessageType /\ m.ops \in Ops
  BY <1>1, RestSteps
<1>3. m.ops # {}
  BY <1>1, <1>2, AcceptedMessage
<1>4. r \in RecordIds /\ w \in Sockets \cup {None}
  BY <1>1 DEF Types, SocksType, SocketType
<1>5. fresh \in Ops
  BY <1>2, OpsSets
<1>6. log \in Seq(insertOpSchema)
  BY DEF Types
<1>7. Grown(fresh)
  BY <1>1, <1>5, <1>6, LogGrows
<1>8. Len(log') \in Nat
  BY <1>7 DEF Grown
<1>9. /\ in \in InstType
      /\ \A j \in Instances :
           /\ in[j].phase # "none" <=> Alive(j)
           /\ Heard(j, r) =>
                /\ inst[j] \in ClientType /\ Alive(j)
                /\ Learned(in[j], inst[j], applyAll(inst[j].view, m.ops),
                           inst[j].outbox, inst[j].lastAckedSeq,
                           inst[j].synced)
           /\ ~Heard(j, r) => in[j] = inst[j]
  BY <1>2, <1>4, <1>8, BroadcastSteps
<1>10. ids \in SUBSET opIdSchema /\ IsFiniteSet(ids)
  BY <1>2, IdsTyped
<1> HIDE DEF rest, in, ids
<1>11. CASE ~Reaches(w)
  <2>1. inst' = in /\ socks' = rest /\ requests' = requests
    BY <1>1, <1>11 DEF Deliver
  <2>2. \A j \in Instances : AfterOps(j, m.ops, r, w)
    BY <1>9, <1>11, <2>1 DEF AfterOps
  <2>3. requests' \in RequestsType
    BY <2>1 DEF Types
  <2>4. \A j \in Instances : Alive(j)' <=> Alive(j)
    BY <1>9, <2>1 DEF Alive
  <2> QED
    BY <1>1, <1>2, <1>3, <1>4, <1>5, <1>7, <1>9, <1>11, <2>1, <2>2, <2>3, <2>4
<1>12. CASE Reaches(w)
  <2>1. i \in Instances /\ Alive(i) /\ inst[i] \in ClientType
    BY <1>4, <1>12, ReachedAlive
  <2>2. in[i] \in ClientType
    BY <1>9, <2>1 DEF Learned
  <2>3. /\ inst' = [in EXCEPT ![i] = you] /\ socks' = rest
        /\ requests' = persist(requests, ack, you)
    BY <1>1, <1>12 DEF Deliver
  <2> DEFINE view == IF Heard(i, r) THEN applyAll(inst[i].view, m.ops)
                     ELSE inst[i].view
             kept == {op \in inst[i].outbox : op.id \notin ids}
  <2>4. /\ SameConnection(in[i], inst[i]) /\ in[i].view = view
        /\ in[i].outbox = inst[i].outbox /\ in[i].synced = inst[i].synced
    BY <1>9, <2>1 DEF Learned, SameConnection
  <2>5. Learned(you, in[i], in[i].view,
                {op \in in[i].outbox : op.id \notin ids}, Len(log'),
                in[i].synced)
    <3>1. {} \in Ops
      BY OpsSets
    <3> QED
      BY <1>8, <1>10, <2>2, <3>1, MessagesHandled
  <2> HIDE DEF you, view
  <2>6. Learned(you, inst[i], view, kept, Len(log'), inst[i].synced)
    BY <2>4, <2>5 DEF Learned, SameConnection
  <2>7. inst' \in InstType /\ inst'[i] = you
        /\ \A j \in Instances : j # i => inst'[j] = in[j]
    <3>1. you \in ClientType
      BY <2>6 DEF Learned
    <3> QED
      BY <1>9, <2>1, <2>3, <3>1 DEF InstType
  <2>8. AfterOps(i, m.ops, r, w)
    BY <1>12, <2>1, <2>6, <2>7 DEF AfterOps, view, ids
  <2>9. \A j \in Instances \ {i} : AfterOps(j, m.ops, r, w)
    BY <1>9, <2>7 DEF AfterOps
  <2>10. Persisted(you, ids)
    <3>1. you \in ClientType
      BY <2>6 DEF Learned
    <3>2. ack.type = "ack" /\ ack.opIds = ids
      OBVIOUS
    <3> QED
      BY <1>10, <2>3, <3>1, <3>2, PersistSteps
  <2>11. requests' \in RequestsType
    BY <2>10 DEF Persisted
  <2>12. \A j \in Instances : Alive(j)' <=> Alive(j)
    <3>1. inst'[i].phase # "none"
      BY <2>6, <2>7 DEF Learned, ClientType
    <3> QED
      BY <1>9, <2>1, <2>7, <3>1 DEF Alive
  <2> QED
    BY <1>1, <1>2, <1>3, <1>4, <1>5, <1>7, <1>12, <2>1, <2>3, <2>7, <2>8, <2>9,
       <2>10, <2>11, <2>12 DEF ids
<1> QED
  BY <1>11, <1>12

-----------------------------------------------------------------------------
(* The typing invariant holds *)

\* Nothing is there to begin with.
LEMMA InitTyped ==
    ASSUME Init
    PROVE  Typed
<1>1. /\ db \in DbType /\ requests \in RequestsType /\ left \in Budget
  <2>1. {} \in Ops
    BY OpsSets
  <2>2. <<>> \in Seq(DocumentCalls) /\ <<>> \in Seq(OutboxCalls)
        /\ <<>> \in Seq(ReplicaCalls)
    OBVIOUS
  <2> QED
    BY <2>1, <2>2, BrowserAssumption
       DEF Init, DbType, DocumentType, RequestsType, NoRequests
<1>2. inst \in InstType /\ \A i \in Instances : inst[i].phase = "none"
  BY DEF Init, InstType, NoInstance
<1>3. FreeSocket \in SocketType
  <2>1. <<>> \in Seq(MessageType)
    OBVIOUS
  <2> QED
    BY <2>1 DEF FreeSocket, SocketType
<1>4. /\ socks \in SocksType
      /\ \A s \in Sockets : socks[s].owner = None /\ socks[s].state = "free"
  BY <1>3 DEF Init, SocksType, FreeSocket
<1>5. registered \in [RecordIds -> Sockets \cup {None}]
  BY DEF Init
<1>6. log \in Seq(insertOpSchema) /\ torn \in BOOLEAN
      /\ made \in Ops /\ stored \in Ops /\ blind \in Ops
  <2>1. <<>> \in Seq(insertOpSchema)
    OBVIOUS
  <2>2. log = <<>> /\ torn = FALSE /\ made = {} /\ stored = {} /\ blind = {}
    BY DEF Init
  <2>3. torn \in BOOLEAN
    BY <2>2
  <2> QED
    BY <2>1, <2>2, <2>3, OpsSets
<1>7. Types
  BY <1>1, <1>2, <1>4, <1>5, <1>6 DEF Types
<1>8. Asked
  BY DEF Init, NoRequests, Asked
<1> QED
  BY <1>2, <1>4, <1>7, <1>8 DEF Typed, Owned, NotYet, Named, Alive

\* Actions of an instance on its own socket that neither come nor go.
LEMMA ClosingTyped ==
    ASSUME Typed, NEW i \in Instances, Dispose(i) \/ GoOffline(i)
    PROVE  Typed'
<1>1. /\ inst' \in InstType /\ ClosedAt(inst[i].ws)
      /\ \A j \in Instances : j # i => inst'[j] = inst[j]
      /\ \A j \in Instances : Alive(j)' <=> Alive(j)
      /\ SameKnowledge(inst'[i], inst[i]) /\ inst'[i].ws \in {inst[i].ws, None}
      /\ left' \in Budget /\ left'.mounts = left.mounts
  BY DisposeSteps, GoOfflineSteps DEF Typed
<1>2. /\ db' = db /\ requests' = requests /\ registered' = registered
      /\ log' = log /\ histVars' = histVars
  BY DEF Dispose, GoOffline
<1>3. Types'
  BY <1>1, <1>2 DEF Typed, Types, ClosedAt, histVars
<1>4. Asked' /\ Owned' /\ NotYet'
  <2>1. \A j \in Instances : Alive(j) => inst'[j].ws \in {inst[j].ws, None}
    BY <1>1
  <2>2. \A s \in Sockets : socks'[s].owner = socks[s].owner
    BY <1>1 DEF ClosedAt
  <2>3. \A s \in Sockets : socks'[s].state = "free" <=> socks[s].state = "free"
    BY <1>1 DEF ClosedAt
  <2> QED
    BY <1>1, <1>2, <1>3, <2>1, <2>2, <2>3, LinksKept DEF Typed
<1>5. Named'
  BY <1>1 DEF Typed, Named, SameKnowledge
<1> QED
  BY <1>3, <1>4, <1>5 DEF Typed

\* The actions that give an instance a socket.
LEMMA ConnectingTyped ==
    ASSUME Typed, NEW i \in Instances,
           FinishInit(i) \/ Reconnect(i) \/ GoOnline(i)
    PROVE  Typed'
<1>1. /\ inst[i] \in ClientType /\ inst' \in InstType
      /\ \A j \in Instances : j # i => inst'[j] = inst[j]
      /\ \A j \in Instances : Alive(j)' <=> Alive(j)
      /\ \/ socks' = socks /\ inst'[i].ws = inst[i].ws
         \/ inst'[i].ws \in Sockets /\ ConnectedAt(inst'[i].ws, i)
      /\ inst'[i].phase = "ready" => inst'[i].replicaId # None
  <2>1. CASE FinishInit(i)
    <3>1. None \notin RecordIds
      BY BrowserAssumption DEF RecordIds, Instances
    <3> QED
      BY <2>1, <3>1, FinishInitSteps DEF Typed
  <2>2. CASE Reconnect(i) \/ GoOnline(i)
    <3>1. inst[i].phase = "ready" => inst[i].replicaId # None
      BY DEF Typed, Named
    <3>2. SameKnowledge(inst'[i], inst[i])
      BY <2>2, ConnectAgainSteps DEF Typed
    <3> QED
      BY <2>2, <3>1, <3>2, ConnectAgainSteps DEF Typed, SameKnowledge
  <2> QED
    BY <2>1, <2>2
<1>2. /\ db' = db /\ requests' = requests /\ registered' = registered
      /\ log' = log /\ histVars' = histVars /\ left' = left
  BY DEF FinishInit, Reconnect, GoOnline
<1>3. socks \in SocksType /\ socks' \in SocksType
  BY <1>1 DEF Typed, Types, ConnectedAt
<1>4. Types'
  BY <1>1, <1>2, <1>3 DEF Typed, Types, histVars
<1>5. Named'
  BY <1>1 DEF Typed, Named
<1>6. NotYet'
  BY <1>1, <1>2 DEF Typed, NotYet
<1>7. Asked'
  BY <1>1, <1>2, RequestFields DEF Typed, Asked
<1>8. Alive(i)
  BY <1>1 DEF Alive, ClientType
<1>9. CASE socks' = socks /\ inst'[i].ws = inst[i].ws
  <2>1. \A j \in Instances : inst'[j].ws = inst[j].ws
    BY <1>1, <1>9
  <2>2. Owned
    BY DEF Typed
  <2>3. Owned'
    BY <1>1, <1>9, <2>1, <2>2 DEF Owned, Alive
  <2> QED
    BY <1>4, <1>5, <1>6, <1>7, <2>3 DEF Typed
<1>10. CASE inst'[i].ws \in Sockets /\ ConnectedAt(inst'[i].ws, i)
  <2> DEFINE s == inst'[i].ws
  <2>1. /\ socks[s].owner = None /\ socks[s].state = "free"
        /\ \A t \in Sockets : t # s => socks'[t] = socks[t]
        /\ socks'[s].owner = i /\ socks'[s].state = "connecting"
    BY <1>10 DEF ConnectedAt, FreeSocket
  <2>2. \A t \in Sockets :
          IF socks'[t].state = "free" THEN socks'[t].owner = None
          ELSE /\ socks'[t].owner \in Instances
               /\ inst'[socks'[t].owner].phase # "none"
    <3> SUFFICES ASSUME NEW t \in Sockets
                 PROVE  IF socks'[t].state = "free" THEN socks'[t].owner = None
                        ELSE /\ socks'[t].owner \in Instances
                             /\ inst'[socks'[t].owner].phase # "none"
      OBVIOUS
    <3>1. CASE t = s
      BY <1>1, <1>8, <2>1, <3>1 DEF Alive
    <3>2. CASE t # s
      BY <1>1, <2>1, <3>2 DEF Typed, Owned, Alive
    <3> QED
      BY <3>1, <3>2
  <2>3. \A j \in Instances : inst'[j].phase # "none" /\ inst'[j].ws # None =>
          socks'[inst'[j].ws].owner = j
    <3> SUFFICES ASSUME NEW j \in Instances, inst'[j].phase # "none",
                        inst'[j].ws # None
                 PROVE  socks'[inst'[j].ws].owner = j
      OBVIOUS
    <3>1. CASE j = i
      BY <2>1, <3>1
    <3>2. CASE j # i
      <4>1. Alive(j) /\ inst[j] \in ClientType /\ inst'[j] = inst[j]
        BY <1>1, <3>2, AliveTyped DEF Typed, Alive
      <4>2. inst[j].ws \in Sockets /\ socks[inst[j].ws].owner = j
        BY <4>1 DEF ClientType, Typed, Owned
      <4>3. inst[j].ws # s
        BY <2>1, <4>2, BrowserAssumption DEF Instances
      <4> QED
        BY <2>1, <4>1, <4>2, <4>3
    <3> QED
      BY <3>1, <3>2
  <2>4. Owned'
    BY <2>2, <2>3 DEF Owned, Alive
  <2> QED
    BY <1>4, <1>5, <1>6, <1>7, <2>4 DEF Typed
<1> QED
  BY <1>1, <1>4, <1>5, <1>6, <1>7, <1>9, <1>10 DEF Typed

\* The events of a socket, those of the client's side and the server's.
LEMMA SocketTyped ==
    ASSUME Typed, NEW s \in Sockets, Open(s) \/ Break(s) \/ CloseEvent(s) \/ ServerClose(s)
    PROVE  Typed'
<1> DEFINE i == socks[s].owner
<1>1. /\ db' = db /\ requests' = requests /\ log' = log /\ histVars' = histVars
  BY DEF Open, Break, CloseEvent, ServerClose
<1>2. CASE Open(s)
  <2>1. /\ i \in Instances /\ inst' \in InstType /\ socks' \in SocksType
        /\ socks[s].state = "connecting"
        /\ \A j \in Instances : j # i => inst'[j] = inst[j]
        /\ \A j \in Instances : Alive(j)' <=> Alive(j)
        /\ SameKnowledge(inst'[i], inst[i]) /\ SameConnection(inst'[i], inst[i])
        /\ \A t \in Sockets :
             /\ socks'[t].owner = socks[t].owner
             /\ socks'[t].state = IF t = s THEN "open" ELSE socks[t].state
    BY <1>2, OpenSteps DEF Typed
  <2>2. registered' = registered /\ left' = left
    BY <1>2 DEF Open
  <2>3. Types'
    BY <1>1, <2>1, <2>2 DEF Typed, Types, histVars
  <2>4. \A j \in Instances : Alive(j) => inst'[j].ws \in {inst[j].ws, None}
    BY <2>1 DEF SameConnection
  <2>5. Asked' /\ Owned' /\ NotYet'
    BY <1>1, <2>1, <2>2, <2>3, <2>4, LinksKept DEF Typed
  <2>6. Named'
    BY <2>1 DEF Typed, Named, SameKnowledge
  <2> QED
    BY <2>3, <2>5, <2>6 DEF Typed
<1>3. CASE Break(s)
  <2>1. /\ inst' = inst /\ socks' \in SocksType
        /\ left' \in Budget /\ left'.mounts = left.mounts
        /\ socks[s].state \in {"connecting", "open"}
        /\ \A t \in Sockets :
             /\ socks'[t].owner = socks[t].owner
             /\ socks'[t].state = IF t = s THEN "closing" ELSE socks[t].state
    BY <1>3, BreakSteps DEF Typed
  <2>2. registered' = registered
    BY <1>3 DEF Break
  <2>3. Types'
    BY <1>1, <2>1, <2>2 DEF Typed, Types, histVars
  <2>4. /\ \A j \in Instances : Alive(j)' <=> Alive(j)
        /\ \A j \in Instances : Alive(j) => inst'[j].ws \in {inst[j].ws, None}
    BY <2>1 DEF Alive
  <2>5. Asked' /\ Owned' /\ NotYet'
    BY <1>1, <2>1, <2>3, <2>4, LinksKept DEF Typed
  <2>6. Named'
    BY <2>1 DEF Typed, Named
  <2> QED
    BY <2>3, <2>5, <2>6 DEF Typed
<1>4. CASE CloseEvent(s)
  <2>1. /\ i \in Instances /\ inst' \in InstType /\ socks' \in SocksType
        /\ socks[s].state = "closing"
        /\ \A j \in Instances : j # i => inst'[j] = inst[j]
        /\ \A j \in Instances : Alive(j)' <=> Alive(j)
        /\ SameKnowledge(inst'[i], inst[i])
        /\ inst'[i].ws = (IF inst[i].ws = s THEN None ELSE inst[i].ws)
        /\ \A t \in Sockets : t # s => socks'[t] = socks[t]
        /\ socks'[s].owner = None /\ socks'[s].state = "free"
    BY <1>4, CloseEventSteps DEF Typed
  <2>2. registered' = registered /\ left' = left
    BY <1>4 DEF CloseEvent
  <2>3. Types'
    BY <1>1, <2>1, <2>2 DEF Typed, Types, histVars
  <2>4. Asked'
    BY <1>1, <2>1, RequestFields DEF Typed, Asked
  <2>5. NotYet' /\ Named'
    BY <2>1, <2>2 DEF Typed, NotYet, Named, SameKnowledge
  <2>6. \A t \in Sockets :
          IF socks'[t].state = "free" THEN socks'[t].owner = None
          ELSE /\ socks'[t].owner \in Instances
               /\ inst'[socks'[t].owner].phase # "none"
    BY <2>1 DEF Typed, Owned, Alive
  <2>7. \A j \in Instances : inst'[j].phase # "none" /\ inst'[j].ws # None =>
          socks'[inst'[j].ws].owner = j
    <3> SUFFICES ASSUME NEW j \in Instances, inst'[j].phase # "none",
                        inst'[j].ws # None
                 PROVE  socks'[inst'[j].ws].owner = j
      OBVIOUS
    <3>1. Alive(j) /\ inst[j] \in ClientType
      BY <2>1, AliveTyped DEF Typed, Alive
    <3>2. inst'[j].ws = inst[j].ws /\ inst[j].ws # None
      BY <2>1
    <3>3. inst[j].ws \in Sockets /\ socks[inst[j].ws].owner = j
      BY <3>1, <3>2 DEF ClientType, Typed, Owned
    <3>4. inst[j].ws # s
      BY <2>1, <3>2, <3>3
    <3> QED
      BY <2>1, <3>2, <3>3, <3>4
  <2>8. Owned'
    BY <2>6, <2>7 DEF Owned, Alive
  <2> QED
    BY <2>3, <2>4, <2>5, <2>8 DEF Typed
<1>5. CASE ServerClose(s)
  <2>1. /\ inst' = inst /\ socks' \in SocksType
        /\ registered' \in [RecordIds -> Sockets \cup {None}]
        /\ \A t \in Sockets : t # s => socks'[t] = socks[t]
        /\ socks'[s].state = socks[s].state
        /\ IF socks[s].state = "free" THEN socks'[s].owner = None
           ELSE socks'[s].owner = socks[s].owner
    BY <1>5, ServerCloseSteps DEF Typed
  <2>2. left' = left
    BY <1>5 DEF ServerClose
  <2>3. Types'
    BY <1>1, <2>1, <2>2 DEF Typed, Types, histVars
  <2>4. \A t \in Sockets : socks'[t].owner = socks[t].owner
                           /\ socks'[t].state = socks[t].state
    BY <2>1 DEF Typed, Owned
  <2>5. /\ \A j \in Instances : Alive(j)' <=> Alive(j)
        /\ \A j \in Instances : Alive(j) => inst'[j].ws \in {inst[j].ws, None}
    BY <2>1 DEF Alive
  <2>6. Asked' /\ Owned' /\ NotYet'
    BY <1>1, <2>2, <2>3, <2>4, <2>5, LinksKept DEF Typed
  <2>7. Named'
    BY <2>1 DEF Typed, Named
  <2> QED
    BY <2>3, <2>6, <2>7 DEF Typed
<1> QED
  BY <1>2, <1>3, <1>4, <1>5

\* A page that opens and one that closes.
LEMMA PageTyped ==
    ASSUME Typed, Mount \/ ClosePage
    PROVE  Typed'
<1>1. CASE Mount
  <2> DEFINE i == MaxInstances - left.mounts + 1
  <2>1. /\ i \in Instances /\ ~Alive(i) /\ inst'[i] = NewInstance
        /\ inst' \in InstType
        /\ \A j \in Instances : j # i => inst'[j] = inst[j]
        /\ left' \in Budget /\ left'.mounts = left.mounts - 1
        /\ left.mounts \in Nat
        /\ requests' \in RequestsType
        /\ requests'.documents =
             Append(requests.documents, [call |-> "get", by |-> i])
        /\ requests'.outbox =
             Append(requests.outbox, [call |-> "get", by |-> i])
        /\ requests'.replica =
             Append(requests.replica, [call |-> "get", by |-> i])
    BY <1>1, MountSteps DEF Typed
  <2> HIDE DEF i
  <2>2. /\ db' = db /\ socks' = socks /\ registered' = registered /\ log' = log
        /\ histVars' = histVars
    BY <1>1 DEF Mount
  <2>3. Types'
    BY <2>1, <2>2 DEF Typed, Types, histVars
  <2>4. inst'[i].phase = "init" /\ inst'[i].ws = None
    BY <2>1 DEF NewInstance
  <2>5. \A j \in Instances : Alive(j) => inst'[j] = inst[j] /\ Alive(j)'
    BY <2>1 DEF Alive
  <2>6. Asked'
    <3> DEFINE get == [call |-> "get", by |-> i]
    <3>1. inst'[get.by].phase # "none"
      BY <2>4
    <3>2. get.call = "get" /\ get.by = i
      OBVIOUS
    <3> HIDE DEF get
    <3>3. /\ \A k \in DOMAIN requests'.documents :
               \/ k \in DOMAIN requests.documents
                    /\ requests'.documents[k] = requests.documents[k]
               \/ requests'.documents[k] = get
          /\ \A k \in DOMAIN requests'.outbox :
               \/ k \in DOMAIN requests.outbox
                    /\ requests'.outbox[k] = requests.outbox[k]
               \/ requests'.outbox[k] = get
          /\ \A k \in DOMAIN requests'.replica :
               \/ k \in DOMAIN requests.replica
                    /\ requests'.replica[k] = requests.replica[k]
               \/ requests'.replica[k] = get
      <4>1. /\ requests.documents \in Seq(DocumentCalls)
            /\ requests.outbox \in Seq(OutboxCalls)
            /\ requests.replica \in Seq(ReplicaCalls)
        BY RequestFields DEF Typed
      <4>2. /\ requests'.documents = Append(requests.documents, get)
            /\ requests'.outbox = Append(requests.outbox, get)
            /\ requests'.replica = Append(requests.replica, get)
        BY <2>1 DEF get
      <4> QED
        BY <4>1, <4>2
    <3>4. \A j \in Instances : inst[j].phase # "none" => inst'[j].phase # "none"
      BY <2>5 DEF Alive
    <3>5. Types /\ Asked
      BY DEF Typed
    <3>6. \A k \in DOMAIN requests'.documents :
            requests'.documents[k].call = "get" =>
              inst'[requests'.documents[k].by].phase # "none"
      BY <3>1, <3>3, <3>4, <3>5, RequestFields DEF Asked, Alive
    <3>7. \A k \in DOMAIN requests'.outbox :
            requests'.outbox[k].call = "get" =>
              inst'[requests'.outbox[k].by].phase # "none"
      BY <3>1, <3>3, <3>4, <3>5, RequestFields DEF Asked, Alive
    <3>8. \A k \in DOMAIN requests'.replica :
            inst'[requests'.replica[k].by].phase # "none"
      BY <3>1, <3>3, <3>4, <3>5, RequestFields DEF Asked, Alive
    <3> QED
      BY <3>6, <3>7, <3>8 DEF Asked, Alive
  <2>7. Owned'
    <3>1. \A s \in Sockets :
            IF socks'[s].state = "free" THEN socks'[s].owner = None
            ELSE /\ socks'[s].owner \in Instances
                 /\ inst'[socks'[s].owner].phase # "none"
      BY <2>2, <2>5 DEF Typed, Owned, Alive
    <3>2. \A j \in Instances : inst'[j].phase # "none" /\ inst'[j].ws # None =>
            socks'[inst'[j].ws].owner = j
      BY <2>1, <2>2, <2>4 DEF Typed, Owned, Alive
    <3> QED
      BY <3>1, <3>2 DEF Owned, Alive
  <2>8. NotYet'
    <3>1. \A j \in Instances :
            j > MaxInstances - left'.mounts => j > MaxInstances - left.mounts /\ j # i
      BY <2>1, BrowserAssumption DEF Instances, i
    <3> QED
      BY <2>1, <3>1 DEF Typed, NotYet, Alive
  <2>9. Named'
    BY <2>1, <2>4 DEF Typed, Named
  <2> QED
    BY <2>3, <2>6, <2>7, <2>8, <2>9 DEF Typed
<1>2. CASE ClosePage
  <2>1. /\ inst' = [i \in Instances |-> NoInstance]
        /\ \A i \in Instances : inst'[i].phase = "none"
        /\ requests' \in RequestsType /\ torn' \in BOOLEAN
        /\ requests'.documents = <<>> /\ requests'.outbox = <<>>
        /\ requests'.replica = <<>>
        /\ socks' \in SocksType
        /\ \A t \in Sockets : socks'[t].owner = None /\ socks'[t].state = "free"
    BY <1>2, ClosePageSteps DEF Typed
  <2>2. /\ db' = db /\ registered' = registered /\ log' = log /\ left' = left
        /\ made' = made /\ stored' = stored /\ blind' = blind
    BY <1>2 DEF ClosePage
  <2>3. Types'
    BY <2>1, <2>2 DEF Typed, Types, InstType
  <2>4. Asked'
    BY <2>1 DEF Asked
  <2>5. Owned' /\ NotYet' /\ Named'
    BY <2>1 DEF Owned, NotYet, Named, Alive
  <2> QED
    BY <2>3, <2>4, <2>5 DEF Typed
<1> QED
  BY <1>1, <1>2

\* Where sockets stay with their owners, and requests are those of before, or
\* of instances that are still there.
LEMMA StayTyped ==
    ASSUME Typed, Types', left'.mounts = left.mounts,
           \A i \in Instances : Alive(i)' <=> Alive(i),
           \A i \in Instances : Alive(i) =>
             /\ inst'[i].ws = inst[i].ws /\ inst'[i].phase = inst[i].phase
             /\ inst'[i].replicaId = inst[i].replicaId,
           \A s \in Sockets : socks'[s].owner = socks[s].owner,
           \A s \in Sockets : socks'[s].state = "free" <=> socks[s].state = "free",
           \A k \in DOMAIN requests'.documents :
             requests'.documents[k].call = "get" =>
               \E l \in DOMAIN requests.documents :
                 requests'.documents[k] = requests.documents[l],
           \A k \in DOMAIN requests'.outbox :
             requests'.outbox[k].call = "get" =>
               \E l \in DOMAIN requests.outbox :
                 requests'.outbox[k] = requests.outbox[l],
           \A k \in DOMAIN requests'.replica :
             \E l \in DOMAIN requests.replica :
               requests'.replica[k].by = requests.replica[l].by
    PROVE  Typed'
<1>1. Types /\ Asked /\ Owned /\ NotYet /\ Named
  BY DEF Typed
<1>2. \A i \in Instances : inst[i].phase # "none" => inst'[i].phase # "none"
  BY DEF Alive
<1>3. \A k \in DOMAIN requests'.documents :
        requests'.documents[k].call = "get" =>
          inst'[requests'.documents[k].by].phase # "none"
  BY <1>1, <1>2, RequestFields DEF Asked, Alive
<1>4. \A k \in DOMAIN requests'.outbox :
        requests'.outbox[k].call = "get" =>
          inst'[requests'.outbox[k].by].phase # "none"
  BY <1>1, <1>2, RequestFields DEF Asked, Alive
<1>5. \A k \in DOMAIN requests'.replica :
        inst'[requests'.replica[k].by].phase # "none"
  BY <1>1, <1>2, RequestFields DEF Asked, Alive
<1>6. Asked'
  BY <1>3, <1>4, <1>5 DEF Asked, Alive
<1>7. NotYet'
  BY <1>1 DEF NotYet
<1>8. \A s \in Sockets :
        IF socks'[s].state = "free" THEN socks'[s].owner = None
        ELSE /\ socks'[s].owner \in Instances
             /\ inst'[socks'[s].owner].phase # "none"
  BY <1>1, <1>2 DEF Owned, Alive
<1>9. \A i \in Instances : inst'[i].phase # "none" /\ inst'[i].ws # None =>
        socks'[inst'[i].ws].owner = i
  <2> SUFFICES ASSUME NEW i \in Instances, inst'[i].phase # "none",
                      inst'[i].ws # None
               PROVE  socks'[inst'[i].ws].owner = i
    OBVIOUS
  <2>1. Alive(i)
    BY DEF Alive
  <2>2. inst[i] \in ClientType /\ inst'[i].ws = inst[i].ws
    BY <1>1, <2>1, AliveTyped
  <2>3. inst[i].ws \in Sockets /\ socks[inst[i].ws].owner = i
    BY <1>1, <2>1, <2>2 DEF ClientType, Owned
  <2> QED
    BY <2>2, <2>3
<1>10. Owned'
  BY <1>8, <1>9 DEF Owned, Alive
<1>11. Named'
  BY <1>1 DEF Named, Alive
<1> QED
  BY <1>6, <1>7, <1>10, <1>11 DEF Typed

\* Every request of a queue that lost its first was in the queue.
LEMMA TailKept ==
    ASSUME NEW T, NEW queue \in Seq(T), queue # <<>>
    PROVE  \A k \in DOMAIN Tail(queue) :
             k + 1 \in DOMAIN queue /\ Tail(queue)[k] = queue[k + 1]
BY QueueOps

\* IndexedDB serves a request.
LEMMA ServeTyped ==
    ASSUME Typed, ServeDocuments \/ ServeOutbox \/ ServeReplica
    PROVE  Typed'
<1>1. /\ requests.documents \in Seq(DocumentCalls)
      /\ requests.outbox \in Seq(OutboxCalls)
      /\ requests.replica \in Seq(ReplicaCalls)
  BY RequestFields DEF Typed
<1>2. /\ socks' = socks /\ registered' = registered /\ log' = log
      /\ made' = made /\ blind' = blind /\ torn' = torn /\ left' = left
  BY DEF ServeDocuments, ServeOutbox, ServeReplica, histVars
<1>3. Types /\ Asked
  BY DEF Typed
<1>4. ASSUME NEW i, NEW store, NEW record, i \in Instances, ReadOf(i, store, record)
      PROVE  /\ inst' \in InstType
             /\ \A j \in Instances : Alive(j)' <=> Alive(j)
             /\ \A j \in Instances : Alive(j) =>
                  /\ inst'[j].ws = inst[j].ws /\ inst'[j].phase = inst[j].phase
                  /\ inst'[j].replicaId = inst[j].replicaId
  BY <1>4 DEF ReadOf
<1>5. /\ inst' = inst => /\ inst' \in InstType
                         /\ \A j \in Instances : Alive(j)' <=> Alive(j)
  BY <1>3 DEF Types, Alive
<1>6. CASE ServeDocuments
  <2> DEFINE r == Head(requests.documents)
  <2>1. /\ requests.documents # <<>> /\ requests' \in RequestsType
        /\ requests'.documents = Tail(requests.documents)
        /\ requests'.outbox = requests.outbox
        /\ requests'.replica = requests.replica
        /\ \/ /\ r.by \in Instances
              /\ ReadOf(r.by, "document", db.document) /\ db' = db
           \/ inst' = inst /\ db' \in DbType
    BY <1>3, <1>6, ServeDocumentsSteps
  <2>2. stored' = stored /\ db' \in DbType
    BY <1>3, <1>6, <2>1 DEF ServeDocuments, histVars, Types
  <2>3. Types'
    BY <1>2, <1>3, <1>4, <1>5, <2>1, <2>2 DEF Types
  <2>4. \A k \in DOMAIN requests'.documents :
          \E l \in DOMAIN requests.documents :
            requests'.documents[k] = requests.documents[l]
    BY <1>1, <2>1, TailKept
  <2> QED
    BY <1>2, <1>4, <1>5, <2>1, <2>3, <2>4, StayTyped
<1>7. CASE ServeOutbox
  <2> DEFINE r == Head(requests.outbox)
  <2>1. /\ requests.outbox # <<>> /\ requests' \in RequestsType
        /\ requests'.documents = requests.documents
        /\ requests'.outbox = Tail(requests.outbox)
        /\ requests'.replica = requests.replica
        /\ \/ /\ r.by \in Instances /\ ReadOf(r.by, "outbox", db.outbox)
              /\ db' = db /\ stored' = stored
           \/ inst' = inst /\ db' \in DbType
                /\ (stored' = stored \/ stored' \in Ops)
    BY <1>3, <1>7, ServeOutboxSteps
  <2>2. stored' \in Ops /\ db' \in DbType
    BY <1>3, <2>1 DEF Types
  <2>3. Types'
    BY <1>2, <1>3, <1>4, <1>5, <2>1, <2>2 DEF Types
  <2>4. \A k \in DOMAIN requests'.outbox :
          \E l \in DOMAIN requests.outbox :
            requests'.outbox[k] = requests.outbox[l]
    BY <1>1, <2>1, TailKept
  <2> QED
    BY <1>2, <1>4, <1>5, <2>1, <2>3, <2>4, StayTyped
<1>8. CASE ServeReplica
  <2> DEFINE r == Head(requests.replica)
  <2>1. /\ requests.replica # <<>> /\ r = requests.replica[1]
        /\ r.by \in Instances /\ requests' \in RequestsType
        /\ requests'.documents = requests.documents
        /\ requests'.outbox = requests.outbox /\ db' \in DbType
        /\ \/ inst' = inst
           \/ \E id \in RecordIds : ReadOf(r.by, "replica", id)
        /\ \/ requests'.replica = Tail(requests.replica)
           \/ requests'.replica = Append(Tail(requests.replica),
                                         [call |-> "put", by |-> r.by])
    BY <1>3, <1>8, ServeReplicaSteps
  <2>2. stored' = stored
    BY <1>8 DEF ServeReplica, histVars
  <2>3. Types'
    BY <1>2, <1>3, <1>4, <1>5, <2>1, <2>2 DEF Types
  <2>4. \A k \in DOMAIN requests'.replica :
          \E l \in DOMAIN requests.replica :
            requests'.replica[k].by = requests.replica[l].by
    <3>1. 1 \in DOMAIN requests.replica
      BY <1>1, <2>1, QueueOps
    <3>2. CASE requests'.replica = Tail(requests.replica)
      BY <1>1, <2>1, <3>2, TailKept
    <3>3. CASE requests'.replica = Append(Tail(requests.replica),
                                          [call |-> "put", by |-> r.by])
      <4> DEFINE put == [call |-> "put", by |-> r.by]
      <4>1. put.by = requests.replica[1].by
        BY <2>1
      <4> HIDE DEF put
      <4>2. Tail(requests.replica) \in Seq(ReplicaCalls)
        BY <1>1, <2>1, QueueOps
      <4>3. \A k \in DOMAIN requests'.replica :
              \/ k \in DOMAIN Tail(requests.replica)
                   /\ requests'.replica[k] = Tail(requests.replica)[k]
              \/ requests'.replica[k] = put
        BY <3>3, <4>2 DEF put
      <4> QED
        BY <1>1, <2>1, <3>1, <4>1, <4>3, TailKept
    <3> QED
      BY <2>1, <3>2, <3>3
  <2> QED
    BY <1>2, <1>4, <1>5, <2>1, <2>3, <2>4, StayTyped
<1> QED
  BY <1>6, <1>7, <1>8

\* An edit, here or elsewhere
LEMMA EditTyped ==
    ASSUME Typed, RemoteEdit \/ \E i \in Instances : Edit(i)
    PROVE  Typed'
<1>1. Types /\ Named /\ Owned
  BY DEF Typed
<1>2. ASSUME NEW i \in Instances, Edit(i) PROVE Typed'
  <2>1. PICK rid : rid = IF inst[i].phase = "init" THEN <<"temp", i>>
                         ELSE inst[i].replicaId
    OBVIOUS
  <2>2. PICK op : op = [type |-> "insert", value |-> Cardinality(made) + 1,
                        id |-> [counter |-> nextCounter(inst[i].view),
                                replicaId |-> rid]]
    OBVIOUS
  <2> DEFINE put == [call |-> "put", op |-> op]
  <2>3. Edited(i, op)
    BY <1>1, <1>2, <2>1, <2>2, EditSteps
  <2>4. /\ inst' \in InstType
        /\ \A j \in Instances : j # i => inst'[j] = inst[j]
        /\ \A j \in Instances : Alive(j)' <=> Alive(j)
        /\ SameConnection(inst'[i], inst[i])
        /\ requests' \in RequestsType
        /\ requests'.outbox = Append(requests.outbox, put)
        /\ requests'.documents = requests.documents
        /\ requests'.replica = requests.replica
        /\ socks' \in SocksType
        /\ \A t \in Sockets : socks'[t].owner = socks[t].owner
                              /\ socks'[t].state = socks[t].state
        /\ made' \in Ops /\ blind' \in Ops
        /\ left' \in Budget /\ left'.mounts = left.mounts
    BY <2>3 DEF Edited, Learned
  <2>5. /\ db' = db /\ registered' = registered /\ log' = log
        /\ stored' = stored /\ torn' = torn
    BY <1>2 DEF Edit
  <2>6. Types'
    BY <1>1, <2>4, <2>5 DEF Types
  <2>7. put.call = "put"
    OBVIOUS
  <2> HIDE DEF put
  <2>8. \A k \in DOMAIN requests'.outbox :
          requests'.outbox[k].call = "get" =>
            \E l \in DOMAIN requests.outbox :
              requests'.outbox[k] = requests.outbox[l]
    <3>1. requests.outbox \in Seq(OutboxCalls)
      BY <1>1, RequestFields
    <3>2. \A k \in DOMAIN requests'.outbox :
            \/ k \in DOMAIN requests.outbox
                 /\ requests'.outbox[k] = requests.outbox[k]
            \/ requests'.outbox[k] = put
      BY <2>4, <3>1
    <3> QED
      BY <2>7, <3>2
  <2>9. \A j \in Instances : Alive(j) =>
          /\ inst'[j].ws = inst[j].ws /\ inst'[j].phase = inst[j].phase
          /\ inst'[j].replicaId = inst[j].replicaId
    BY <2>4 DEF SameConnection
  <2> QED
    BY <2>4, <2>6, <2>8, <2>9, StayTyped
<1>3. CASE RemoteEdit
  <2> DEFINE n == Cardinality({o \in Saved : o.id.replicaId = Elsewhere}) + 1
             op == [type |-> "insert", value |-> 0,
                    id |-> [counter |-> n, replicaId |-> Elsewhere]]
  <2>1. /\ Grown({op}) /\ inst' \in InstType
        /\ left' \in Budget /\ left'.mounts = left.mounts
        /\ \A i \in Instances :
             /\ Alive(i)' <=> Alive(i)
             /\ Heard(i, None) =>
                  Learned(inst'[i], inst[i], applyAll(inst[i].view, {op}),
                          inst[i].outbox, inst[i].lastAckedSeq, inst[i].synced)
             /\ ~Heard(i, None) => inst'[i] = inst[i]
    BY <1>1, <1>3, RemoteEditSteps
  <2>2. /\ db' = db /\ requests' = requests /\ socks' = socks
        /\ registered' = registered /\ histVars' = histVars
    BY <1>3 DEF RemoteEdit
  <2> HIDE DEF op
  <2>3. Types'
    BY <1>1, <2>1, <2>2 DEF Types, histVars, Grown
  <2>4. \A j \in Instances : Alive(j) =>
          /\ inst'[j].ws = inst[j].ws /\ inst'[j].phase = inst[j].phase
          /\ inst'[j].replicaId = inst[j].replicaId
    BY <2>1 DEF Learned, SameConnection
  <2> QED
    BY <2>1, <2>2, <2>3, <2>4, StayTyped
<1> QED
  BY <1>2, <1>3

\* A message that the server handles
LEMMA DispatchTyped ==
    ASSUME Typed, NEW s \in Sockets, DispatchMessage(s)
    PROVE  Typed'
<1> DEFINE m == Head(socks[s].toServer)
           rest == [socks EXCEPT ![s].toServer = Tail(@)]
           i == socks[s].owner
           r == socks[s].joined
           w == registered[r]
           fresh == {op \in m.ops : op.id \notin Ids(Saved)}
<1>1. /\ Types /\ Owned /\ socks[s].toServer # <<>>
      /\ db' = db /\ histVars' = histVars /\ left' = left
      /\ Refuse(s, m, rest) \/ Join(s, m, rest) \/ ApplyClientOp(s, m, rest)
  BY DEF Typed, DispatchMessage
<1>2. OneTaken(rest, s)
  BY <1>1, RestSteps
<1>3. ASSUME NEW you, NEW ids, Persisted(you, ids)
      PROVE  /\ \A k \in DOMAIN requests'.documents :
                  requests'.documents[k].call = "get" =>
                    \E l \in DOMAIN requests.documents :
                      requests'.documents[k] = requests.documents[l]
             /\ \A k \in DOMAIN requests'.outbox :
                  requests'.outbox[k].call = "get" =>
                    \E l \in DOMAIN requests.outbox :
                      requests'.outbox[k] = requests.outbox[l]
             /\ \A k \in DOMAIN requests'.replica :
                  \E l \in DOMAIN requests.replica :
                    requests'.replica[k].by = requests.replica[l].by
  <2> DEFINE put == [call |-> "put",
                     record |-> [lastAckedSeq |-> you.lastAckedSeq,
                                 state |-> you.view]]
  <2>1. put.call = "put"
    OBVIOUS
  <2> HIDE DEF put
  <2>2. /\ requests.documents \in Seq(DocumentCalls)
        /\ requests.outbox \in Seq(OutboxCalls) /\ requests' \in RequestsType
        /\ requests'.documents = Append(requests.documents, put)
        /\ requests'.replica = requests.replica
    BY <1>1, <1>3, RequestFields DEF Persisted, put
  <2>3. \A k \in DOMAIN requests'.documents :
          \/ k \in DOMAIN requests.documents
               /\ requests'.documents[k] = requests.documents[k]
          \/ requests'.documents[k] = put
    BY <2>2
  <2>4. requests'.outbox \in Seq(OutboxCalls)
    BY <2>2 DEF RequestsType
  <2>5. \A k \in DOMAIN requests'.outbox :
          \/ k \in DOMAIN requests.outbox
               /\ requests'.outbox[k] = requests.outbox[k]
          \/ requests'.outbox[k].call = "delete"
    <3> SUFFICES ASSUME NEW k \in DOMAIN requests'.outbox
                 PROVE  \/ k \in DOMAIN requests.outbox
                             /\ requests'.outbox[k] = requests.outbox[k]
                        \/ requests'.outbox[k].call = "delete"
      OBVIOUS
    <3>1. k \in 1..Len(requests'.outbox) /\ DOMAIN requests.outbox = 1..Len(requests.outbox)
      BY <2>2, <2>4
    <3> QED
      BY <1>3, <3>1 DEF Persisted
  <2> QED
    BY <2>1, <2>2, <2>3, <2>5
<1> HIDE DEF rest
<1>4. CASE Refuse(s, m, rest)
  <2>1. /\ socks' = rest /\ inst' = inst /\ requests' = requests
        /\ registered' = registered /\ log' = log
    BY <1>4 DEF Refuse
  <2>2. Types'
    BY <1>1, <1>2, <2>1 DEF Types, OneTaken, histVars
  <2>3. \A t \in Sockets : socks'[t].owner = socks[t].owner
                           /\ socks'[t].state = socks[t].state
    BY <1>2, <2>1 DEF OneTaken
  <2>4. \A j \in Instances : Alive(j)' <=> Alive(j)
    BY <2>1 DEF Alive
  <2> QED
    BY <1>1, <2>1, <2>2, <2>3, <2>4, StayTyped
<1>5. CASE Join(s, m, rest)
  <2>1. /\ log' = log /\ registered' \in [RecordIds -> Sockets \cup {None}]
        /\ inst' \in InstType /\ requests' \in RequestsType
        /\ AfterJoin(s, m.replicaId, Reaches(s), inst'[i])
        /\ \A j \in Instances : Alive(j)' <=> Alive(j)
        /\ IF Reaches(s)
           THEN /\ CaughtUp(inst'[i], inst[i], m.sinceSeq)
                /\ \A j \in Instances : j # i => inst'[j] = inst[j]
                /\ Persisted(inst'[i], {})
           ELSE inst' = inst /\ requests' = requests
    BY <1>1, <1>5, JoinSteps DEF rest
  <2>2. Types'
    BY <1>1, <2>1 DEF Types, AfterJoin, histVars
  <2>3. \A t \in Sockets :
          /\ socks'[t].owner = socks[t].owner
          /\ socks'[t].state = "free" <=> socks[t].state = "free"
    BY <2>1 DEF AfterJoin, Replaced
  <2>4. \A j \in Instances : Alive(j) =>
          /\ inst'[j].ws = inst[j].ws /\ inst'[j].phase = inst[j].phase
          /\ inst'[j].replicaId = inst[j].replicaId
    BY <2>1 DEF CaughtUp, Learned, SameConnection
  <2>5. CASE Reaches(s)
    <3>1. Persisted(inst'[i], {})
      BY <2>1, <2>5
    <3> QED
      BY <1>1, <1>3, <2>1, <2>2, <2>3, <2>4, <3>1, StayTyped
  <2>6. CASE ~Reaches(s)
    BY <1>1, <2>1, <2>2, <2>3, <2>4, <2>6, StayTyped
  <2> QED
    BY <2>5, <2>6
<1>6. CASE ApplyClientOp(s, m, rest)
  <2>1. /\ Grown(fresh) /\ registered' = registered /\ OneTaken(socks', s)
        /\ inst' \in InstType /\ requests' \in RequestsType
        /\ \A j \in Instances : Alive(j)' <=> Alive(j)
        /\ \A j \in Instances : AfterOps(j, m.ops, r, w)
        /\ IF Reaches(w) THEN Persisted(inst'[socks[w].owner], Ids(m.ops))
           ELSE requests' = requests
    BY <1>1, <1>6, ApplySteps DEF rest
  <2>2. Types'
    BY <1>1, <2>1 DEF Types, OneTaken, Grown, histVars
  <2>3. \A t \in Sockets : socks'[t].owner = socks[t].owner
                           /\ socks'[t].state = socks[t].state
    BY <2>1 DEF OneTaken
  <2>4. \A j \in Instances : Alive(j) =>
          /\ inst'[j].ws = inst[j].ws /\ inst'[j].phase = inst[j].phase
          /\ inst'[j].replicaId = inst[j].replicaId
    BY <2>1 DEF AfterOps, Learned, SameConnection
  <2>5. CASE Reaches(w)
    <3>1. Persisted(inst'[socks[w].owner], Ids(m.ops))
      BY <2>1, <2>5
    <3> QED
      BY <1>1, <1>3, <2>1, <2>2, <2>3, <2>4, <3>1, StayTyped
  <2>6. CASE ~Reaches(w)
    BY <1>1, <2>1, <2>2, <2>3, <2>4, <2>6, StayTyped
  <2> QED
    BY <2>5, <2>6
<1> QED
  BY <1>1, <1>4, <1>5, <1>6

\* Every action keeps the typing invariant.
LEMMA NextTyped ==
    ASSUME Typed, [Next]_vars
    PROVE  Typed'
<1>1. CASE UNCHANGED vars
  BY <1>1 DEF Typed, Types, Asked, Owned, NotYet, Named, Alive, vars, histVars
<1>2. CASE Next
  BY <1>2, PageTyped, ServeTyped, EditTyped, ClosingTyped, ConnectingTyped,
     SocketTyped, DispatchTyped DEF Next
<1> QED
  BY <1>1, <1>2

\* The typing invariant holds in every behaviour: of what is kept, of who asked,
\* of who owns which socket, and that a client that is ready has a replica id.
THEOREM BrowserTyped == Spec => []Typed
<1>1. Init => Typed
  BY InitTyped
<1>2. Typed /\ [Next]_vars => Typed'
  BY NextTyped
<1> QED
  BY <1>1, <1>2, PTL DEF Spec

\* TypeOK follows from the typing invariant.
LEMMA TypedTypeOK ==
    ASSUME Typed
    PROVE  TypeOK
<1>1. Types /\ Owned
  BY DEF Typed
<1>2. /\ left \in Budget /\ db.replica \in RecordIds \cup {None}
      /\ db.document.lastAckedSeq \in Nat /\ db.outbox \in Ops
  BY <1>1 DEF Types, DbType, DocumentType
<1>3. \A op \in made \cup stored \cup blind \cup db.outbox \cup Saved :
        op \in insertOpSchema
  BY <1>1, <1>2, SavedTyped DEF Types, Ops
<1>4. ASSUME NEW s \in Sockets
      PROVE  /\ socks[s].owner \in Instances \cup {None}
             /\ socks[s].state \in {"free", "connecting", "open", "closing"}
             /\ socks[s].state # "free" => Alive(socks[s].owner)
  BY <1>1 DEF Types, SocksType, SocketType, Owned
<1>5. ASSUME NEW i \in Instances, Alive(i)
      PROVE  /\ inst[i].view \subseteq insertOpSchema
             /\ inst[i].lastAckedSeq \in Nat
             /\ inst[i].ws \in Sockets \cup {None}
             /\ inst[i].ws # None => socks[inst[i].ws].owner = i
  <2>1. inst[i] \in ClientType
    BY <1>1, <1>5, AliveTyped
  <2> QED
    BY <1>1, <1>5, <2>1 DEF ClientType, Ops, Owned
<1> QED
  BY <1>2, <1>3, <1>4, <1>5 DEF TypeOK

\* Whatever instances come and go: what the page, IndexedDB and the server keep
\* are operations that pass the schema, a socket belongs to an instance that is
\* there until its close event, and the current socket of an instance is its own.
THEOREM BrowserTypeCorrect == Spec => []TypeOK
<1>1. Typed => TypeOK
  BY TypedTypeOK
<1> QED
  BY <1>1, BrowserTyped, PTL

=============================================================================
