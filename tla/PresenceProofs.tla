--------------------------- MODULE PresenceProofs ---------------------------
(***************************************************************************)
(* Proofs about Presence.tla, for any number of clients, processes and     *)
(* failures.                                                               *)
(***************************************************************************)
EXTENDS Presence, FiniteSetTheorems, TLAPS

-----------------------------------------------------------------------------
(* The inductive invariant *)

TaskType == Change \cup [kind : {"sweep"}, pc : {"range", "loop"},
                         ids : (SUBSET Clients) \ {{}}]

\* The sockets of a client are used in turn, and no client runs out of them
\* before its budget is spent.
ConnsLeft ==
    /\ \A c \in Clients : ConnsOf(c) + left.conns[c] <= MaxConns
    /\ \A s \in Sockets : sockets[s].proc # None => s[2] <= ConnsOf(clientOf(s))

\* A socket that is in use leads to a process; a room has sockets of its own
\* process that have joined it, under their clients; a process without a room
\* has nothing to hear.
Located ==
    /\ \A s \in Sockets :
         sockets[s].joined \/ sockets[s].open \/ sockets[s].up \/ wire[s] # <<>>
           => sockets[s].proc \in Procs
    /\ \A p \in Procs, c \in Clients : rooms[p] # None /\ rooms[p][c] # None =>
         /\ clientOf(rooms[p][c]) = c
         /\ sockets[rooms[p][c]].joined /\ sockets[rooms[p][c]].proc = p
    /\ \A p \in Procs : rooms[p] = None => inbox[p] = <<>>

\* A client that was never away has had at most one socket; it shows nobody until
\* that has joined, and while it is up it is in its room.
FirstSocket ==
    /\ \A c \in Clients : client[c].ws # None =>
         clientOf(client[c].ws) = c /\ sockets[client[c].ws].proc \in Procs
    /\ \A c \in Clients, s \in Sockets :
         ~client[c].away /\ clientOf(s) = c /\ sockets[s].proc # None
           => s = client[c].ws
    /\ \A c \in Clients :
         ~client[c].away /\ (client[c].ws = None \/ ~sockets[client[c].ws].joined)
           => client[c].shown = {}
    /\ \A c \in Clients : Watching(c) =>
         LET s == client[c].ws IN
         rooms[sockets[s].proc] # None /\ rooms[sockets[s].proc][c] = s

\* The leave of d, or the loop of a sweep that will come to d.
LeaveTask(x, d) ==
    x = Leave(d) \/ (x.kind = "sweep" /\ x.pc = "loop" /\ d \in x.ids)

HasLeave(queue, d) == \E k \in DOMAIN queue : LeaveTask(queue[k], d)

\* Every update of d in the queue comes before a leave of d.
Followed(queue, d) ==
    \A k \in DOMAIN queue : queue[k] = Update(d) =>
        \E j \in DOMAIN queue : j > k /\ LeaveTask(queue[j], d)

\* The entry of d is gone, and every change of d that is on its way was made in
\* time.
Removed(d) == entry[d] = "absent" /\ d \notin forgotten

\* The last that a process announces of someone whose entry is gone is his leave.
TasksEndInLeave ==
    \A d \in Clients : Removed(d) => \A p \in Procs : Followed(tasks[p], d)

\* The last that it hears of him is his leave too, or another has still to say.
InboxEndsInLeave ==
    \A d \in Clients : Removed(d) => \A q \in Procs :
        Followed(inbox[q], d) \/ \E p \in Procs \ {q} : HasLeave(tasks[p], d)

\* Whoever still shows him is going to be told.
WatchersAreTold ==
    \A c \in Clients, d \in Clients :
        c # d /\ Removed(d) /\ Watching(c) /\ d \in client[c].shown =>
            \/ HasLeave(inbox[sockets[client[c].ws].proc], d)
            \/ \E p \in Procs : HasLeave(tasks[p], d)

Typed == TypeOK /\ ConnsLeft /\ Located
Told == TasksEndInLeave /\ InboxEndsInLeave /\ WatchersAreTold
PInv == Typed /\ FirstSocket /\ Told


-----------------------------------------------------------------------------
(* Queues *)

\* What Append and Tail leave where.
LEMMA QueueOps ==
    ASSUME NEW T, NEW queue \in Seq(T), NEW x
    PROVE  /\ DOMAIN queue = 1..Len(queue) /\ Len(queue) \in Nat
           /\ DOMAIN Append(queue, x) = 1..(Len(queue) + 1)
           /\ \A k \in 1..Len(queue) : Append(queue, x)[k] = queue[k]
           /\ Append(queue, x)[Len(queue) + 1] = x
           /\ queue # <<>> =>
                /\ Tail(queue) \in Seq(T) /\ Head(queue) \in T
                /\ Len(queue) > 0 /\ DOMAIN Tail(queue) = 1..(Len(queue) - 1)
                /\ Head(queue) = queue[1]
                /\ \A k \in 1..(Len(queue) - 1) : Tail(queue)[k] = queue[k + 1]
OBVIOUS

\* The queues of the processes, one of which grows, shrinks or does both.
LEMMA QueueTypes ==
    ASSUME NEW T, NEW f \in [Procs -> Seq(T)], NEW p \in Procs, NEW x \in T
    PROVE  /\ [f EXCEPT ![p] = Append(@, x)] \in [Procs -> Seq(T)]
           /\ f[p] # <<>> =>
                /\ [f EXCEPT ![p] = Tail(@)] \in [Procs -> Seq(T)]
                /\ [f EXCEPT ![p] = Append(Tail(@), x)] \in [Procs -> Seq(T)]
<1>1. f[p] \in Seq(T) /\ Append(f[p], x) \in Seq(T)
  OBVIOUS
<1>2. f[p] # <<>> => Tail(f[p]) \in Seq(T) /\ Append(Tail(f[p]), x) \in Seq(T)
  <2>1. f[p] # <<>> => Tail(f[p]) \in Seq(T)
    BY <1>1
  <2> QED
    BY <2>1
<1>3. ASSUME NEW q \in Seq(T) PROVE [f EXCEPT ![p] = q] \in [Procs -> Seq(T)]
  OBVIOUS
<1> QED
  BY <1>1, <1>2, <1>3

\* A leave at the end follows every update.
LEMMA LeaveFollows ==
    ASSUME NEW T, NEW queue \in Seq(T), NEW x, NEW d, LeaveTask(x, d)
    PROVE  /\ Followed(Append(queue, x), d)
           /\ HasLeave(Append(queue, x), d)
<1> DEFINE n == Len(queue)
           longer == Append(queue, x)
<1>1. /\ n \in Nat /\ DOMAIN longer = 1..(n + 1) /\ longer[n + 1] = x
  BY QueueOps
<1>2. x # Update(d)
  BY DEF LeaveTask, Leave, Update
<1> HIDE DEF n, longer
<1>3. Followed(longer, d)
  <2> SUFFICES ASSUME NEW k \in DOMAIN longer, longer[k] = Update(d)
               PROVE  \E j \in DOMAIN longer : j > k /\ LeaveTask(longer[j], d)
    BY DEF Followed
  <2>1. k # n + 1
    BY <1>1, <1>2
  <2>2. n + 1 \in DOMAIN longer /\ n + 1 > k
    BY <1>1, <2>1
  <2> QED
    BY <1>1, <2>2
<1>4. HasLeave(longer, d)
  BY <1>1 DEF HasLeave
<1> QED
  BY <1>3, <1>4 DEF longer

\* Anything else at the end disturbs nothing, unless it is an update of d.
LEMMA AppendKeeps ==
    ASSUME NEW T, NEW queue \in Seq(T), NEW x, NEW d
    PROVE  /\ HasLeave(queue, d) => HasLeave(Append(queue, x), d)
           /\ Followed(queue, d) /\ x # Update(d) => Followed(Append(queue, x), d)
<1> DEFINE n == Len(queue)
           longer == Append(queue, x)
<1>1. /\ n \in Nat /\ DOMAIN longer = 1..(n + 1) /\ longer[n + 1] = x
      /\ DOMAIN queue = 1..n /\ \A k \in 1..n : longer[k] = queue[k]
  BY QueueOps
<1> HIDE DEF n, longer
<1>2. ASSUME HasLeave(queue, d) PROVE HasLeave(longer, d)
  <2>1. PICK k \in 1..n : LeaveTask(queue[k], d)
    BY <1>1, <1>2 DEF HasLeave
  <2>2. k \in DOMAIN longer /\ longer[k] = queue[k]
    BY <1>1
  <2> QED
    BY <2>1, <2>2 DEF HasLeave
<1>3. ASSUME Followed(queue, d), x # Update(d) PROVE Followed(longer, d)
  <2> SUFFICES ASSUME NEW k \in DOMAIN longer, longer[k] = Update(d)
               PROVE  \E j \in DOMAIN longer : j > k /\ LeaveTask(longer[j], d)
    BY DEF Followed
  <2>1. k \in 1..n /\ queue[k] = Update(d)
    BY <1>1, <1>3
  <2>2. PICK j \in 1..n : j > k /\ LeaveTask(queue[j], d)
    BY <1>1, <1>3, <2>1 DEF Followed
  <2>3. j \in DOMAIN longer /\ longer[j] = queue[j]
    BY <1>1
  <2> QED
    BY <2>2, <2>3
<1> QED
  BY <1>2, <1>3 DEF longer

\* The head goes: what follows the updates behind it is still there, and what
\* follows it is there now.
LEMMA TailKeeps ==
    ASSUME NEW T, NEW queue \in Seq(T), queue # <<>>, NEW d
    PROVE  /\ Followed(queue, d) => Followed(Tail(queue), d)
           /\ HasLeave(queue, d) => LeaveTask(Head(queue), d)
                                    \/ HasLeave(Tail(queue), d)
           /\ Followed(queue, d) /\ Head(queue) = Update(d)
                => HasLeave(Tail(queue), d)
<1> DEFINE n == Len(queue)
           rest == Tail(queue)
<1>1. /\ n \in Nat /\ n > 0 /\ DOMAIN rest = 1..(n - 1) /\ DOMAIN queue = 1..n
      /\ \A k \in 1..(n - 1) : rest[k] = queue[k + 1]
      /\ Head(queue) = queue[1]
  BY QueueOps
<1> HIDE DEF n, rest
<1>2. ASSUME NEW j \in 1..n, j > 1
      PROVE  j - 1 \in DOMAIN rest /\ rest[j - 1] = queue[j]
  <2>1. j - 1 \in 1..(n - 1) /\ (j - 1) + 1 = j
    BY <1>1, <1>2
  <2> QED
    BY <1>1, <2>1
<1>3. ASSUME Followed(queue, d) PROVE Followed(rest, d)
  <2> SUFFICES ASSUME NEW k \in DOMAIN rest, rest[k] = Update(d)
               PROVE  \E j \in DOMAIN rest : j > k /\ LeaveTask(rest[j], d)
    BY DEF Followed
  <2>1. k \in Nat /\ k + 1 \in DOMAIN queue /\ queue[k + 1] = Update(d)
    BY <1>1
  <2>2. PICK j \in DOMAIN queue : j > k + 1 /\ LeaveTask(queue[j], d)
    BY <1>3, <2>1 DEF Followed
  <2>3. j \in 1..n /\ j > 1 /\ j - 1 > k
    BY <1>1, <2>1, <2>2
  <2> QED
    BY <1>2, <2>2, <2>3
<1>4. ASSUME HasLeave(queue, d) PROVE LeaveTask(Head(queue), d) \/ HasLeave(rest, d)
  <2>1. PICK j \in 1..n : LeaveTask(queue[j], d)
    BY <1>1, <1>4 DEF HasLeave
  <2>2. CASE j = 1
    BY <1>1, <2>1, <2>2
  <2>3. CASE j > 1
    BY <1>2, <2>1, <2>3 DEF HasLeave
  <2> QED
    BY <2>2, <2>3
<1>5. ASSUME Followed(queue, d), Head(queue) = Update(d) PROVE HasLeave(rest, d)
  <2>1. 1 \in DOMAIN queue /\ queue[1] = Update(d)
    BY <1>1, <1>5
  <2>2. PICK j \in DOMAIN queue : j > 1 /\ LeaveTask(queue[j], d)
    BY <1>5, <2>1 DEF Followed
  <2>3. j \in 1..n
    BY <1>1
  <2> QED
    BY <1>2, <2>2, <2>3 DEF HasLeave
<1> QED
  BY <1>3, <1>4, <1>5 DEF rest

\* A queue without an update of d has nothing to follow.
LEMMA NoUpdate ==
    ASSUME NEW queue, NEW d, ~Has(queue, Update(d))
    PROVE  Followed(queue, d)
BY DEF Followed, Has


-----------------------------------------------------------------------------
(* Types and sockets *)

\* The connections of a client are finitely many.
LEMMA ConnsFinite ==
    ASSUME NEW c \in Clients
    PROVE  /\ IsFiniteSet({s \in Sockets : clientOf(s) = c
                                           /\ sockets[s].proc # None})
           /\ ConnsOf(c) \in Nat
<1> DEFINE mine == {s \in Sockets : clientOf(s) = c /\ sockets[s].proc # None}
           all == {c} \X (1..MaxConns)
<1>1. IsFiniteSet(all)
  <2>1. IsFiniteSet(1..MaxConns)
    BY FS_Interval, PresenceAssumption
  <2>2. IsFiniteSet({c})
    BY FS_Singleton
  <2> QED
    BY <2>1, <2>2, FS_Product
<1>2. mine \subseteq all
  BY DEF Sockets, clientOf
<1>3. IsFiniteSet(mine) /\ Cardinality(mine) \in Nat
  BY <1>1, <1>2, FS_Subset, FS_CardinalityType
<1> QED
  BY <1>3 DEF ConnsOf

\* A step that opens no connection uses up no socket number.
LEMMA ConnsKept ==
    ASSUME Typed, \A s \in Sockets : sockets'[s].proc = sockets[s].proc,
           \A c \in Clients : left'.conns[c] <= left.conns[c],
           left' \in Budget
    PROVE  ConnsLeft'
<1>1. ASSUME NEW c PROVE ConnsOf(c)' = ConnsOf(c)
  BY DEF ConnsOf
<1>2. ASSUME NEW c \in Clients PROVE ConnsOf(c)' + left'.conns[c] <= MaxConns
  <2>1. left.conns[c] \in 0..MaxConns /\ left'.conns[c] \in 0..MaxConns
    BY DEF Typed, TypeOK, Budget
  <2>2. ConnsOf(c) \in Nat /\ MaxConns \in Nat
    BY ConnsFinite, PresenceAssumption
  <2>3. ConnsOf(c) + left.conns[c] <= MaxConns /\ left'.conns[c] <= left.conns[c]
    BY DEF Typed, ConnsLeft
  <2> QED
    BY <1>1, <2>1, <2>2, <2>3
<1>3. ASSUME NEW s \in Sockets, sockets'[s].proc # None
      PROVE  s[2] <= ConnsOf(clientOf(s))'
  BY <1>1, <1>3 DEF Typed, ConnsLeft
<1> QED
  BY <1>2, <1>3 DEF ConnsLeft, clientOf

\* A failure is paid for.
LEMMA BudgetKept ==
    ASSUME TypeOK, Works \/ \E kind : Fails(kind)
    PROVE  left' \in Budget /\ \A c \in Clients : left'.conns[c] <= left.conns[c]
<1>1. left \in Budget /\ \A c \in Clients : left.conns[c] \in Nat
  BY PresenceAssumption DEF TypeOK, Budget
<1>2. CASE Works
  BY <1>1, <1>2 DEF Works
<1>3. CASE \E kind : Fails(kind)
  <2>1. left' = [left EXCEPT !.faults = @ - 1] /\ left.faults > 0
    BY <1>3 DEF Fails
  <2>2. left' \in Budget /\ left'.conns = left.conns
    BY <1>1, <2>1 DEF Budget
  <2> QED
    BY <1>1, <2>2
<1> QED
  BY <1>2, <1>3

\* The initial state.
LEMMA TypedInit == Init => Typed /\ FirstSocket
<1> SUFFICES ASSUME Init PROVE Typed /\ FirstSocket
  OBVIOUS
<1> USE DEF Init
<1>1. TypeOK
  BY PresenceAssumption DEF TypeOK, NoSocket
<1>2. ConnsLeft
  <2>1. ASSUME NEW c \in Clients PROVE ConnsOf(c) + left.conns[c] <= MaxConns
    <3>1. {s \in Sockets : clientOf(s) = c /\ sockets[s].proc # None} = {}
      BY DEF NoSocket
    <3>2. ConnsOf(c) = 0
      BY <3>1, FS_EmptySet DEF ConnsOf
    <3>3. left.conns[c] \in 0..MaxConns /\ MaxConns \in Nat
      BY PresenceAssumption DEF Budget
    <3> QED
      BY <3>2, <3>3
  <2>2. \A s \in Sockets : sockets[s].proc = None
    BY DEF NoSocket
  <2> QED
    BY <2>1, <2>2 DEF ConnsLeft
<1>3. Located
  BY DEF Located, NoSocket
<1>4. FirstSocket
  BY DEF FirstSocket, NoSocket, Watching, Up
<1> QED
  BY <1>1, <1>2, <1>3, <1>4 DEF Typed


\* A connection is made over a socket that was never used.
LEMMA FreshSocket ==
    ASSUME Typed, NEW c \in Clients, left.conns[c] > 0
    PROVE  /\ <<c, ConnsOf(c) + 1>> \in Sockets
           /\ sockets[<<c, ConnsOf(c) + 1>>].proc = None
<1> DEFINE n == ConnsOf(c)
<1>1. n \in Nat /\ MaxConns \in Nat
  BY ConnsFinite, PresenceAssumption
<1>2. left.conns[c] \in 0..MaxConns
  BY DEF Typed, TypeOK, Budget
<1>3. n + left.conns[c] <= MaxConns
  BY DEF Typed, ConnsLeft
<1> HIDE DEF n
<1>4. n + 1 \in 1..MaxConns
  BY <1>1, <1>2, <1>3
<1>5. <<c, n + 1>> \in Sockets
  BY <1>4 DEF Sockets
<1>6. sockets[<<c, n + 1>>].proc = None
  <2>1. SUFFICES ASSUME sockets[<<c, n + 1>>].proc # None PROVE FALSE
    OBVIOUS
  <2>2. n + 1 <= n
    BY <1>5, <2>1 DEF Typed, ConnsLeft, clientOf, n
  <2> QED
    BY <1>1, <2>2
<1> QED
  BY <1>5, <1>6 DEF n

\* A new connection is counted, and no other.
LEMMA ConnectCounts ==
    ASSUME Typed, NEW c \in Clients, NEW p \in Procs, Connect(c, p)
    PROVE  ConnsLeft' /\ left' \in Budget
<1> DEFINE s == <<c, ConnsOf(c) + 1>>
           mine(d) == {t \in Sockets : clientOf(t) = d /\ sockets[t].proc # None}
           new(d) == {t \in Sockets : clientOf(t) = d /\ sockets'[t].proc # None}
<1>1. /\ left.conns[c] > 0 /\ left' = [left EXCEPT !.conns[c] = @ - 1]
      /\ left \in Budget
      /\ sockets' = [sockets EXCEPT ![s] = [proc |-> p, up |-> TRUE,
                                            open |-> TRUE, joined |-> FALSE]]
  BY DEF Connect, Typed, TypeOK
<1>2. s \in Sockets /\ sockets[s].proc = None /\ clientOf(s) = c /\ s[2] = ConnsOf(c) + 1
  BY <1>1, FreshSocket DEF clientOf
<1> HIDE DEF s
<1>3. \A t \in Sockets : sockets'[t].proc = IF t = s THEN p ELSE sockets[t].proc
  BY <1>1, <1>2 DEF Typed, TypeOK
<1>4. p # None
  BY PresenceAssumption
<1>5. new(c) = mine(c) \cup {s} /\ s \notin mine(c)
  BY <1>2, <1>3, <1>4
<1>6. \A d : d # c => new(d) = mine(d)
  BY <1>2, <1>3
<1>7. \A d : ConnsOf(d) = Cardinality(mine(d)) /\ ConnsOf(d)' = Cardinality(new(d))
  BY DEF ConnsOf
<1>8. IsFiniteSet(mine(c))
  BY ConnsFinite
<1> HIDE DEF mine, new
<1>9. Cardinality(new(c)) = Cardinality(mine(c)) + 1
  BY <1>5, <1>8, FS_AddElement
<1>10. ConnsOf(c)' = ConnsOf(c) + 1 /\ \A d : d # c => ConnsOf(d)' = ConnsOf(d)
  BY <1>6, <1>7, <1>9
<1>11. /\ left' \in Budget
       /\ \A d \in Clients : left'.conns[d] = IF d = c THEN left.conns[d] - 1
                                              ELSE left.conns[d]
  <2>1. left.conns \in [Clients -> 0..MaxConns] /\ MaxConns \in Nat
    BY <1>1, PresenceAssumption DEF Budget
  <2>2. left'.conns = [left.conns EXCEPT ![c] = @ - 1]
        /\ left'.breaks = left.breaks /\ left'.faults = left.faults
        /\ left' = [conns |-> left'.conns, breaks |-> left'.breaks,
                    faults |-> left'.faults]
    BY <1>1 DEF Budget
  <2>3. left'.conns \in [Clients -> 0..MaxConns]
    BY <1>1, <2>1, <2>2
  <2> QED
    BY <1>1, <2>1, <2>2, <2>3 DEF Budget
<1>12. ASSUME NEW d \in Clients PROVE ConnsOf(d)' + left'.conns[d] <= MaxConns
  <2>1. left.conns[d] \in 0..MaxConns /\ ConnsOf(d) \in Nat /\ MaxConns \in Nat
    BY <1>1, ConnsFinite, PresenceAssumption DEF Budget
  <2>2. ConnsOf(d) + left.conns[d] <= MaxConns
    BY DEF Typed, ConnsLeft
  <2>3. CASE d = c
    BY <1>10, <1>11, <2>1, <2>2, <2>3
  <2>4. CASE d # c
    BY <1>10, <1>11, <2>1, <2>2, <2>4
  <2> QED
    BY <2>3, <2>4
<1>13. ASSUME NEW t \in Sockets, sockets'[t].proc # None
       PROVE  t[2] <= ConnsOf(clientOf(t))'
  <2>1. t[2] \in Nat /\ clientOf(t) \in Clients
    BY PresenceAssumption DEF Sockets, clientOf
  <2>2. ConnsOf(c) \in Nat
    BY ConnsFinite
  <2>3. CASE t = s
    BY <1>2, <1>10, <2>2, <2>3
  <2>4. CASE t # s
    <3>1. t[2] <= ConnsOf(clientOf(t))
      BY <1>3, <1>13, <2>4 DEF Typed, ConnsLeft
    <3>2. ConnsOf(clientOf(t)) \in Nat
      BY <2>1, ConnsFinite
    <3> QED
      BY <1>10, <2>1, <3>1, <3>2
  <2> QED
    BY <2>3, <2>4
<1>14. ConnsLeft'
  BY <1>12, <1>13 DEF ConnsLeft, clientOf
<1> QED
  BY <1>11, <1>14

\* connect keeps the types; it is the first socket of a client that was never
\* away.
LEMMA ConnectTyped ==
    ASSUME Typed, FirstSocket, NEW c \in Clients, NEW p \in Procs, Connect(c, p)
    PROVE  Typed' /\ FirstSocket'
<1> DEFINE s == <<c, ConnsOf(c) + 1>>
<1>1. /\ client[c].ws = None /\ left.conns[c] > 0
      /\ sockets' = [sockets EXCEPT ![s] = [proc |-> p, up |-> TRUE,
                                            open |-> TRUE, joined |-> FALSE]]
      /\ wire' = [wire EXCEPT ![s] = <<"join">>]
      /\ client' = [client EXCEPT ![c].ws = s]
      /\ UNCHANGED <<entry, rooms, tasks, inbox, forgotten>>
  BY DEF Connect
<1>2. s \in Sockets /\ sockets[s].proc = None /\ clientOf(s) = c
  BY <1>1, FreshSocket DEF clientOf
<1>3. ConnsLeft' /\ left' \in Budget
  BY ConnectCounts
<1> HIDE DEF s
<1>4. TypeOK'
  <2>1. sockets' \in [Sockets -> [proc : Procs \cup {None}, up : BOOLEAN,
                                  open : BOOLEAN, joined : BOOLEAN]]
    BY <1>1 DEF Typed, TypeOK
  <2>2. wire' \in [Sockets -> Seq({"join", "presence"})]
    <3>1. <<"join">> \in Seq({"join", "presence"})
      OBVIOUS
    <3> QED
      BY <1>1, <3>1 DEF Typed, TypeOK
  <2>3. client' \in [Clients -> [ws : Sockets \cup {None}, away : BOOLEAN,
                                 shown : SUBSET Clients]]
    BY <1>1, <1>2 DEF Typed, TypeOK
  <2> QED
    BY <1>1, <1>3, <2>1, <2>2, <2>3 DEF Typed, TypeOK
<1>5. /\ \A t \in Sockets : t # s => sockets'[t] = sockets[t] /\ wire'[t] = wire[t]
      /\ sockets'[s].proc = p /\ ~sockets'[s].joined
      /\ \A d \in Clients : d # c => client'[d] = client[d]
      /\ client'[c].ws = s /\ client'[c].away = client[c].away
      /\ client'[c].shown = client[c].shown
  BY <1>1, <1>2 DEF Typed, TypeOK
<1>6. Located'
  <2>1. ASSUME NEW t \in Sockets,
               sockets'[t].joined \/ sockets'[t].open \/ sockets'[t].up \/ wire'[t] # <<>>
        PROVE  sockets'[t].proc \in Procs
    BY <1>5, <2>1 DEF Typed, Located
  <2>2. ASSUME NEW q \in Procs, NEW d \in Clients, rooms[q] # None,
               rooms[q][d] # None
        PROVE  /\ clientOf(rooms[q][d]) = d
               /\ sockets'[rooms[q][d]].joined /\ sockets'[rooms[q][d]].proc = q
    <3>1. /\ clientOf(rooms[q][d]) = d
          /\ sockets[rooms[q][d]].joined /\ sockets[rooms[q][d]].proc = q
          /\ rooms[q][d] \in Sockets
      BY <2>2 DEF Typed, TypeOK, Located
    <3>2. rooms[q][d] # s
      BY <1>2, <3>1, PresenceAssumption
    <3> QED
      BY <1>5, <3>1, <3>2
  <2> QED
    BY <1>1, <2>1, <2>2 DEF Typed, Located, clientOf
<1>7. FirstSocket'
  <2>1. ASSUME NEW d \in Clients, client'[d].ws # None
        PROVE  clientOf(client'[d].ws) = d /\ sockets'[client'[d].ws].proc \in Procs
    <3>1. CASE d = c
      BY <1>2, <1>5, <3>1
    <3>2. CASE d # c
      <4>1. clientOf(client[d].ws) = d /\ sockets[client[d].ws].proc \in Procs
            /\ client[d].ws \in Sockets
        BY <1>5, <2>1, <3>2 DEF FirstSocket, Typed, TypeOK
      <4> QED
        BY <1>2, <1>5, <3>2, <4>1
    <3> QED
      BY <3>1, <3>2
  <2>2. ASSUME NEW d \in Clients, NEW t \in Sockets, ~client'[d].away,
               clientOf(t) = d, sockets'[t].proc # None
        PROVE  t = client'[d].ws
    <3>1. CASE t = s
      BY <1>2, <1>5, <2>2, <3>1
    <3>2. CASE t # s
      <4>1. t = client[d].ws
        BY <1>5, <2>2, <3>2 DEF FirstSocket
      <4> QED
        BY <1>1, <1>5, <4>1, SocketsAssumption
    <3> QED
      BY <3>1, <3>2
  <2>3. ASSUME NEW d \in Clients, ~client'[d].away,
               client'[d].ws = None \/ ~sockets'[client'[d].ws].joined
        PROVE  client'[d].shown = {}
    <3>1. CASE d = c
      BY <1>1, <1>5, <2>3, <3>1 DEF FirstSocket
    <3>2. CASE d # c
      <4>1. client[d].ws = None \/ client[d].ws # s
        BY <1>2, <3>2 DEF FirstSocket
      <4> QED
        BY <1>5, <2>3, <3>2, <4>1 DEF FirstSocket, Typed, TypeOK
    <3> QED
      BY <3>1, <3>2
  <2>4. ASSUME NEW d \in Clients, Watching(d)'
        PROVE  /\ rooms[sockets'[client'[d].ws].proc] # None
               /\ rooms[sockets'[client'[d].ws].proc][d] = client'[d].ws
    <3>1. d # c /\ client[d].ws # s
      <4>1. d # c
        BY <1>5, <2>4 DEF Watching
      <4> QED
        BY <1>2, <4>1, SocketsAssumption DEF FirstSocket
    <3>2. client'[d] = client[d] /\ client[d].ws \in Sockets
      BY <1>5, <2>4, <3>1 DEF Watching, Up, Typed, TypeOK
    <3>3. Watching(d) /\ sockets'[client[d].ws] = sockets[client[d].ws]
      BY <1>5, <2>4, <3>1, <3>2 DEF Watching, Up
    <3> QED
      BY <3>2, <3>3 DEF FirstSocket
  <2> QED
    BY <1>1, <2>1, <2>2, <2>3, <2>4 DEF FirstSocket, clientOf
<1> QED
  BY <1>3, <1>4, <1>6, <1>7 DEF Typed


\* No socket is opened or joined; some may break or be closed.
SocketsKeep ==
    \A t \in Sockets :
        /\ sockets'[t].proc = sockets[t].proc
        /\ sockets'[t].joined = sockets[t].joined
        /\ sockets'[t].up => sockets[t].up
        /\ sockets'[t].open => sockets[t].open
        /\ wire'[t] # <<>> => sockets[t].proc \in Procs

\* Rooms may go, and lose sockets that are not up.
RoomsKeep ==
    /\ \A p \in Procs : rooms'[p] = None => inbox'[p] = <<>>
    /\ \A p \in Procs, c \in Clients : rooms'[p] # None /\ rooms'[p][c] # None =>
         rooms[p] # None /\ rooms[p][c] = rooms'[p][c]
    /\ \A p \in Procs, c \in Clients, s \in Sockets :
         sockets'[s].up /\ sockets[s].proc = p /\ rooms[p] # None /\ rooms[p][c] = s
           => rooms'[p] # None /\ rooms'[p][c] = s

\* Whom a client shows changes only while it is in a room.
ClientsKeep ==
    \A c \in Clients :
        /\ client'[c].ws = client[c].ws /\ client'[c].away = client[c].away
        /\ \/ client'[c].shown = client[c].shown
           \/ \E p \in Procs : rooms[p] # None /\ rooms[p][c] # None

\* A step that opens no socket and joins none keeps the sockets in order.
LEMMA SocketsFrame ==
    ASSUME Typed, FirstSocket, TypeOK', SocketsKeep, RoomsKeep, ClientsKeep
    PROVE  Located' /\ FirstSocket'
<1>1. Located'
  <2>1. ASSUME NEW t \in Sockets,
               sockets'[t].joined \/ sockets'[t].open \/ sockets'[t].up \/ wire'[t] # <<>>
        PROVE  sockets'[t].proc \in Procs
    BY <2>1 DEF Typed, Located, SocketsKeep
  <2>2. ASSUME NEW q \in Procs, NEW d \in Clients, rooms'[q] # None,
               rooms'[q][d] # None
        PROVE  /\ clientOf(rooms'[q][d]) = d
               /\ sockets'[rooms'[q][d]].joined /\ sockets'[rooms'[q][d]].proc = q
    <3>1. rooms[q] # None /\ rooms[q][d] = rooms'[q][d] /\ rooms'[q][d] \in Sockets
      BY <2>2 DEF RoomsKeep, TypeOK
    <3>2. /\ clientOf(rooms[q][d]) = d
          /\ sockets[rooms[q][d]].joined /\ sockets[rooms[q][d]].proc = q
      BY <2>2, <3>1 DEF Typed, Located
    <3> QED
      BY <3>1, <3>2 DEF SocketsKeep
  <2>3. \A p \in Procs : rooms'[p] = None => inbox'[p] = <<>>
    BY DEF RoomsKeep
  <2> QED
    BY <2>1, <2>2, <2>3 DEF Located, clientOf
<1>2. ASSUME NEW d \in Clients, client'[d].ws # None
      PROVE  /\ clientOf(client'[d].ws) = d /\ sockets'[client'[d].ws].proc \in Procs
             /\ client[d].ws \in Sockets /\ client'[d].ws = client[d].ws
  <2>1. client'[d].ws = client[d].ws /\ client[d].ws \in Sockets
    BY <1>2 DEF ClientsKeep, Typed, TypeOK
  <2>2. clientOf(client[d].ws) = d /\ sockets[client[d].ws].proc \in Procs
    BY <1>2, <2>1 DEF FirstSocket
  <2> QED
    BY <2>1, <2>2 DEF SocketsKeep
<1>3. ASSUME NEW d \in Clients, NEW t \in Sockets, ~client'[d].away,
             clientOf(t) = d, sockets'[t].proc # None
      PROVE  t = client'[d].ws
  BY <1>3 DEF FirstSocket, SocketsKeep, ClientsKeep
<1>4. ASSUME NEW d \in Clients, ~client'[d].away,
             client'[d].ws = None \/ ~sockets'[client'[d].ws].joined
      PROVE  client'[d].shown = {}
  <2>1. ~client[d].away /\ client'[d].ws = client[d].ws
    BY <1>4 DEF ClientsKeep
  <2>2. client[d].ws = None \/ ~sockets[client[d].ws].joined
    BY <1>2, <1>4, <2>1 DEF SocketsKeep
  <2>3. ASSUME NEW p \in Procs, rooms[p] # None, rooms[p][d] # None PROVE FALSE
    <3>1. /\ rooms[p][d] \in Sockets /\ clientOf(rooms[p][d]) = d
          /\ sockets[rooms[p][d]].joined /\ sockets[rooms[p][d]].proc = p
      BY <2>3 DEF Typed, TypeOK, Located
    <3>2. rooms[p][d] = client[d].ws
      BY <2>1, <3>1, PresenceAssumption DEF FirstSocket
    <3> QED
      BY <2>2, <2>3, <3>1, <3>2
  <2>4. client[d].shown = {}
    BY <2>1, <2>2 DEF FirstSocket
  <2> QED
    BY <2>3, <2>4 DEF ClientsKeep
<1>5. ASSUME NEW d \in Clients, Watching(d)'
      PROVE  /\ rooms'[sockets'[client'[d].ws].proc] # None
             /\ rooms'[sockets'[client'[d].ws].proc][d] = client'[d].ws
  <2> DEFINE s == client[d].ws
             p == sockets[s].proc
  <2>1. /\ s \in Sockets /\ client'[d].ws = s /\ sockets'[s].up /\ sockets'[s].joined
        /\ ~client'[d].away
    BY <1>2, <1>5 DEF Watching, Up
  <2>2. sockets[s].up /\ sockets[s].joined /\ sockets'[s].proc = p /\ ~client[d].away
    BY <2>1 DEF SocketsKeep, ClientsKeep
  <2>3. Watching(d)
    BY <2>1, <2>2, SocketsAssumption DEF Watching, Up
  <2>4. rooms[p] # None /\ rooms[p][d] = s /\ p \in Procs
    BY <2>1, <2>3, SocketsAssumption DEF FirstSocket
  <2> HIDE DEF s, p
  <2>5. rooms'[p] # None /\ rooms'[p][d] = s
    BY <2>1, <2>4 DEF RoomsKeep, p
  <2> QED
    BY <2>1, <2>2, <2>5
<1>6. FirstSocket'
  BY <1>2, <1>3, <1>4, <1>5 DEF FirstSocket, clientOf
<1> QED
  BY <1>1, <1>6

\* What a broadcast does to each client.
LEMMA BroadcastEffect ==
    ASSUME Typed, NEW p \in Procs, NEW change \in Change, NEW except,
           broadcast(p, change, except)
    PROVE  /\ client' \in [Clients -> [ws : Sockets \cup {None}, away : BOOLEAN,
                                       shown : SUBSET Clients]]
           /\ ClientsKeep
           /\ \A c \in Clients : client'[c].shown =
                IF rooms[p] # None /\ c # except /\ Up(rooms[p][c])
                THEN shownAfter(client[c].shown, change) ELSE client[c].shown
<1>1. ASSUME NEW c \in Clients
      PROVE  /\ client'[c] = [client[c] EXCEPT !.shown =
                  IF rooms[p] # None /\ c # except /\ Up(rooms[p][c])
                  THEN shownAfter(client[c].shown, change) ELSE client[c].shown]
             /\ client[c] \in [ws : Sockets \cup {None}, away : BOOLEAN,
                               shown : SUBSET Clients]
             /\ shownAfter(client[c].shown, change) \subseteq Clients
  BY DEF broadcast, Typed, TypeOK, shownAfter, Change
<1>2. ASSUME NEW c \in Clients
      PROVE  /\ client'[c].ws = client[c].ws /\ client'[c].away = client[c].away
             /\ client'[c].shown =
                  IF rooms[p] # None /\ c # except /\ Up(rooms[p][c])
                  THEN shownAfter(client[c].shown, change) ELSE client[c].shown
             /\ client'[c] \in [ws : Sockets \cup {None}, away : BOOLEAN,
                                shown : SUBSET Clients]
  BY <1>1
<1>3. ClientsKeep
  BY <1>2 DEF ClientsKeep, Up
<1>4. client' = [c \in Clients |-> client'[c]]
  BY DEF broadcast
<1> QED
  BY <1>2, <1>3, <1>4


\* A step that leaves the sockets, their wires and the rooms alone.
LEMMA NetFrame ==
    ASSUME Typed, FirstSocket, UNCHANGED <<sockets, wire, rooms>>, ClientsKeep,
           TypeOK', \A p \in Procs : rooms[p] = None => inbox'[p] = <<>>,
           \A c \in Clients : left'.conns[c] <= left.conns[c]
    PROVE  Typed' /\ FirstSocket'
<1>1. SocketsKeep
  BY DEF SocketsKeep, Typed, Located
<1>2. RoomsKeep
  BY DEF RoomsKeep
<1>3. left' \in Budget
  BY DEF TypeOK
<1>4. ConnsLeft'
  BY <1>1, <1>3, ConnsKept DEF SocketsKeep
<1> QED
  BY <1>1, <1>2, <1>4, SocketsFrame DEF Typed

\* The budget of connections does not grow by itself.
LEMMA ConnsOrdered == ASSUME TypeOK PROVE \A c \in Clients : left.conns[c] <= left.conns[c]
<1> SUFFICES ASSUME NEW c \in Clients PROVE left.conns[c] <= left.conns[c]
  OBVIOUS
<1>1. left.conns[c] \in 0..MaxConns /\ MaxConns \in Nat
  BY PresenceAssumption DEF TypeOK, Budget
<1> QED
  BY <1>1

\* A heartbeat goes over a socket that is up.
LEMMA SendTyped ==
    ASSUME Typed, FirstSocket, NEW c \in Clients, SendPresence(c)
    PROVE  Typed' /\ FirstSocket'
<1> DEFINE s == client[c].ws
<1>1. /\ Up(s) /\ wire' = [wire EXCEPT ![s] = Append(@, "presence")]
      /\ UNCHANGED <<entry, rooms, tasks, inbox, sockets, client, forgotten, left>>
  BY DEF SendPresence
<1>2. s \in Sockets /\ sockets[s].proc \in Procs
  BY <1>1 DEF Up, Typed, TypeOK, FirstSocket
<1> HIDE DEF s
<1>3. wire' \in [Sockets -> Seq({"join", "presence"})]
  BY <1>1, <1>2 DEF Typed, TypeOK
<1>4. TypeOK'
  BY <1>1, <1>3 DEF Typed, TypeOK
<1>5. SocketsKeep
  BY <1>1, <1>2 DEF SocketsKeep, Typed, TypeOK, Located
<1>6. RoomsKeep /\ ClientsKeep
  BY <1>1 DEF RoomsKeep, ClientsKeep, Typed, Located
<1>7. ConnsLeft'
  BY <1>1, <1>4, <1>5, ConnsKept, ConnsOrdered DEF SocketsKeep, Typed, TypeOK
<1> QED
  BY <1>4, <1>5, <1>6, <1>7, SocketsFrame DEF Typed

\* A link breaks.
LEMMA BreakTyped ==
    ASSUME Typed, FirstSocket, NEW s \in Sockets, Break(s)
    PROVE  Typed' /\ FirstSocket'
<1>1. /\ left.breaks[clientOf(s)] > 0
      /\ left' = [left EXCEPT !.breaks[clientOf(s)] = @ - 1]
      /\ sockets' = [sockets EXCEPT ![s].up = FALSE]
      /\ UNCHANGED <<entry, rooms, tasks, inbox, wire, client, forgotten>>
  BY DEF Break
<1>2. left' \in Budget /\ left'.conns = left.conns
  <2>1. clientOf(s) \in Clients
    BY DEF Sockets, clientOf
  <2>2. left \in Budget /\ left.breaks[clientOf(s)] - 1 \in Nat
    BY <1>1, <2>1 DEF Typed, TypeOK, Budget
  <2> QED
    BY <1>1, <2>1, <2>2 DEF Budget
<1>3. sockets' \in [Sockets -> [proc : Procs \cup {None}, up : BOOLEAN,
                                open : BOOLEAN, joined : BOOLEAN]]
  BY <1>1 DEF Typed, TypeOK
<1>4. TypeOK'
  BY <1>1, <1>2, <1>3 DEF Typed, TypeOK
<1>5. SocketsKeep
  BY <1>1 DEF SocketsKeep, Typed, TypeOK, Located
<1>6. RoomsKeep /\ ClientsKeep
  BY <1>1 DEF RoomsKeep, ClientsKeep, Typed, Located
<1>7. ConnsLeft'
  BY <1>2, <1>5, ConnsKept, ConnsOrdered DEF SocketsKeep, Typed
<1> QED
  BY <1>4, <1>5, <1>6, <1>7, SocketsFrame DEF Typed

\* The client that is told of the close was away from then on.
LEMMA CloseTyped ==
    ASSUME Typed, FirstSocket, NEW c \in Clients, ClientClose(c)
    PROVE  Typed' /\ FirstSocket'
<1>1. /\ client' = [client EXCEPT ![c].ws = None, ![c].away = TRUE]
      /\ UNCHANGED <<entry, rooms, tasks, inbox, sockets, wire, forgotten, left>>
  BY DEF ClientClose
<1>2. /\ client' \in [Clients -> [ws : Sockets \cup {None}, away : BOOLEAN,
                                  shown : SUBSET Clients]]
      /\ client'[c].ws = None /\ client'[c].away
      /\ \A d \in Clients : d # c => client'[d] = client[d]
  <2> DEFINE T == [ws : Sockets \cup {None}, away : BOOLEAN, shown : SUBSET Clients]
             new == [client[c] EXCEPT !.ws = None, !.away = TRUE]
  <2>1. client \in [Clients -> T]
    BY DEF Typed, TypeOK
  <2>2. new \in T /\ new.ws = None /\ new.away
    BY <2>1
  <2>3. client' = [client EXCEPT ![c] = new]
    BY <1>1, <2>1
  <2> HIDE DEF T, new
  <2>4. client' \in [Clients -> T] /\ client'[c] = new
        /\ \A d \in Clients : d # c => client'[d] = client[d]
    BY <2>1, <2>2, <2>3
  <2> QED
    BY <2>2, <2>4 DEF T
<1>3. TypeOK'
  BY <1>1, <1>2 DEF Typed, TypeOK
<1>4. Located'
  BY <1>1 DEF Typed, Located
<1>5. ConnsLeft'
  BY <1>1, <1>3, ConnsKept, ConnsOrdered DEF Typed, TypeOK
<1>6. ASSUME NEW d \in Clients, d # c PROVE Watching(d)' <=> Watching(d)
  BY <1>1, <1>2, <1>6 DEF Watching, Up
<1>7. ~Watching(c)'
  BY <1>2 DEF Watching
<1>8. FirstSocket'
  BY <1>1, <1>2, <1>6, <1>7 DEF FirstSocket
<1> QED
  BY <1>3, <1>4, <1>5, <1>8 DEF Typed

\* An entry expires.
LEMMA ExpireTyped ==
    ASSUME Typed, FirstSocket, NEW c \in Clients, Expire(c)
    PROVE  Typed' /\ FirstSocket'
<1>1. /\ entry' = [entry EXCEPT ![c] = "stale"]
      /\ UNCHANGED <<rooms, tasks, inbox, sockets, wire, client, forgotten, left>>
  BY DEF Expire
<1>2. TypeOK'
  BY <1>1 DEF Typed, TypeOK
<1>3. ClientsKeep
  BY <1>1 DEF ClientsKeep
<1> QED
  BY <1>1, <1>2, <1>3, NetFrame, ConnsOrdered DEF Typed, Located

\* A heartbeat sets the entry, which will be announced.
LEMMA PresenceTyped ==
    ASSUME Typed, FirstSocket, NEW s \in Sockets, DispatchPresence(s)
    PROVE  Typed' /\ FirstSocket'
<1> DEFINE c == clientOf(s)
           p == sockets[s].proc
<1>1. /\ wire[s] # <<>> /\ wire' = [wire EXCEPT ![s] = Tail(@)]
      /\ Works \/ \E kind : Fails(kind)
      /\ \/ /\ entry' = [entry EXCEPT ![c] = "fresh"]
            /\ tasks' = [tasks EXCEPT ![p] = Append(@, Update(c))]
         \/ UNCHANGED <<entry, tasks>>
      /\ UNCHANGED <<rooms, inbox, sockets, client, forgotten>>
  BY DEF DispatchPresence, set
<1>2. p \in Procs /\ c \in Clients
  BY <1>1 DEF Typed, Located, Sockets, clientOf
<1>3. left' \in Budget /\ \A d \in Clients : left'.conns[d] <= left.conns[d]
  BY <1>1, BudgetKept DEF Typed
<1>4. wire' \in [Sockets -> Seq({"join", "presence"})]
  BY <1>1 DEF Typed, TypeOK
<1>5. entry' \in [Clients -> {"absent", "fresh", "stale"}]
      /\ tasks' \in [Procs -> Seq(TaskType)]
  <2>1. Update(c) \in TaskType
    BY <1>2 DEF TaskType, Update, Change
  <2>2. tasks \in [Procs -> Seq(TaskType)]
    BY DEF Typed, TypeOK, TaskType
  <2>3. entry \in [Clients -> {"absent", "fresh", "stale"}]
    BY DEF Typed, TypeOK
  <2> HIDE DEF c, p, TaskType
  <2>4. entry' \in [Clients -> {"absent", "fresh", "stale"}]
    BY <1>1, <1>2, <2>3
  <2>5. [tasks EXCEPT ![p] = Append(@, Update(c))] \in [Procs -> Seq(TaskType)]
    BY <1>2, <2>1, <2>2, QueueTypes
  <2>6. tasks' \in [Procs -> Seq(TaskType)]
    BY <1>1, <2>2, <2>5
  <2> QED
    BY <2>4, <2>6
<1>6. TypeOK'
  BY <1>1, <1>3, <1>4, <1>5 DEF Typed, TypeOK, TaskType
<1>7. SocketsKeep
  BY <1>1, <1>2 DEF SocketsKeep, Typed, TypeOK, Located
<1>8. RoomsKeep /\ ClientsKeep
  BY <1>1 DEF RoomsKeep, ClientsKeep, Typed, Located
<1>9. ConnsLeft'
  BY <1>3, <1>7, ConnsKept DEF SocketsKeep
<1> QED
  BY <1>6, <1>7, <1>8, <1>9, SocketsFrame DEF Typed


\* The change at the head of a process's queue.
LEMMA HeadTask ==
    ASSUME Typed, NEW p \in Procs, tasks[p] # <<>>
    PROVE  /\ tasks \in [Procs -> Seq(TaskType)]
           /\ Head(tasks[p]) \in TaskType
           /\ [tasks EXCEPT ![p] = Tail(@)] \in [Procs -> Seq(TaskType)]
<1>1. tasks \in [Procs -> Seq(TaskType)]
  BY DEF Typed, TypeOK, TaskType
<1>2. Head(tasks[p]) \in TaskType
  BY <1>1
<1> QED
  BY <1>1, <1>2, QueueTypes

\* A published change is one that the others can hear.
LEMMA PublishTyped ==
    ASSUME Typed, NEW p \in Procs, NEW change \in Change, publish(p, change)
    PROVE  /\ inbox' \in [Procs -> Seq(Change)]
           /\ \A q \in Procs : rooms[q] = None => inbox'[q] = <<>>
           /\ inbox'[p] = inbox[p]
           /\ \A q \in Procs : inbox'[q] = IF q # p /\ rooms[q] # None
                                           THEN Append(inbox[q], change)
                                           ELSE inbox[q]
<1>1. inbox \in [Procs -> Seq(Change)]
  BY DEF Typed, TypeOK
<1>2. \A q \in Procs : inbox'[q] = IF q # p /\ rooms[q] # None
                                   THEN Append(inbox[q], change) ELSE inbox[q]
  BY DEF publish
<1>3. ASSUME NEW q \in Procs
      PROVE  inbox[q] \in Seq(Change) /\ Append(inbox[q], change) \in Seq(Change)
  <2>1. inbox[q] \in Seq(Change)
    BY <1>1
  <2> QED
    BY <2>1
<1>4. inbox' \in [Procs -> Seq(Change)]
  BY <1>3 DEF publish
<1> QED
  BY <1>2, <1>4 DEF Typed, Located

\* updatePresence and removePresence announce what they did.
LEMMA AnnounceTyped ==
    ASSUME Typed, FirstSocket, NEW p \in Procs, Announce(p)
    PROVE  Typed' /\ FirstSocket'
<1> DEFINE t == Head(tasks[p])
<1>1. /\ tasks[p] # <<>> /\ t \in Change /\ broadcast(p, t, t.of)
      /\ Works \/ \E kind : Fails(kind)
      /\ publish(p, t) \/ UNCHANGED inbox
      /\ forgotten' \subseteq forgotten \cup {t.of}
      /\ tasks' = [tasks EXCEPT ![p] = Tail(@)]
      /\ UNCHANGED <<entry, rooms, sockets, wire>>
  BY DEF Announce
<1> HIDE DEF t
<1>2. t.of \in Clients
  BY <1>1 DEF Change
<1>3. left' \in Budget /\ \A d \in Clients : left'.conns[d] <= left.conns[d]
  BY <1>1, BudgetKept DEF Typed
<1>4. tasks' \in [Procs -> Seq(TaskType)]
  BY <1>1, HeadTask
<1>5. /\ inbox' \in [Procs -> Seq(Change)]
      /\ \A q \in Procs : rooms[q] = None => inbox'[q] = <<>>
  BY <1>1, PublishTyped DEF Typed, TypeOK, Located
<1>6. /\ ClientsKeep
      /\ client' \in [Clients -> [ws : Sockets \cup {None}, away : BOOLEAN,
                                  shown : SUBSET Clients]]
  BY <1>1, BroadcastEffect
<1>7. TypeOK'
  BY <1>1, <1>2, <1>3, <1>4, <1>5, <1>6 DEF Typed, TypeOK, TaskType
<1> QED
  BY <1>1, <1>3, <1>5, <1>6, <1>7, NetFrame

\* A change of another process is heard.
LEMMA RemoteTyped ==
    ASSUME Typed, FirstSocket, NEW p \in Procs, HandleRemotePresence(p)
    PROVE  Typed' /\ FirstSocket'
<1> DEFINE x == Head(inbox[p])
<1>1. /\ inbox[p] # <<>> /\ broadcast(p, x, None)
      /\ inbox' = [inbox EXCEPT ![p] = Tail(@)]
      /\ UNCHANGED <<entry, rooms, tasks, sockets, wire, forgotten, left>>
  BY DEF HandleRemotePresence
<1>2. inbox \in [Procs -> Seq(Change)] /\ x \in Change
  BY <1>1 DEF Typed, TypeOK
<1> HIDE DEF x
<1>3. inbox' \in [Procs -> Seq(Change)]
  BY <1>1, <1>2, QueueTypes
<1>4. \A q \in Procs : rooms[q] = None => inbox'[q] = <<>>
  BY <1>1, <1>2 DEF Typed, Located
<1>5. /\ ClientsKeep
      /\ client' \in [Clients -> [ws : Sockets \cup {None}, away : BOOLEAN,
                                  shown : SUBSET Clients]]
  BY <1>1, <1>2, BroadcastEffect
<1>6. TypeOK'
  BY <1>1, <1>3, <1>5 DEF Typed, TypeOK
<1> QED
  BY <1>1, <1>4, <1>5, <1>6, NetFrame, ConnsOrdered DEF Typed

\* A sweep asks who has expired, if somebody has.
LEMMA SweepTyped ==
    ASSUME Typed, FirstSocket, NEW p \in Procs, TickSweep(p)
    PROVE  Typed' /\ FirstSocket'
<1> DEFINE x == Sweep("range", expired)
<1>1. /\ tasks' = [tasks EXCEPT ![p] = Append(@, x)] /\ expired # {}
      /\ UNCHANGED <<entry, rooms, inbox, sockets, wire, client, forgotten, left>>
  BY DEF TickSweep
<1>2. x \in TaskType
  <2>1. expired \in (SUBSET Clients) \ {{}}
    BY <1>1 DEF expired
  <2> QED
    BY <2>1 DEF TaskType, Sweep
<1>3. tasks \in [Procs -> Seq(TaskType)]
  BY DEF Typed, TypeOK, TaskType
<1> HIDE DEF x
<1>4. tasks' \in [Procs -> Seq(TaskType)]
  BY <1>1, <1>2, <1>3, QueueTypes
<1>5. TypeOK'
  BY <1>1, <1>4 DEF Typed, TypeOK, TaskType
<1>6. ClientsKeep
  BY <1>1 DEF ClientsKeep
<1> QED
  BY <1>1, <1>5, <1>6, NetFrame, ConnsOrdered DEF Typed, Located

\* The sweep removes those it found.
LEMMA SweepRemoveTyped ==
    ASSUME Typed, FirstSocket, NEW p \in Procs, SweepRemove(p)
    PROVE  Typed' /\ FirstSocket'
<1> DEFINE t == Head(tasks[p])
           x == Sweep("loop", t.ids)
<1>1. /\ tasks[p] # <<>> /\ t.kind = "sweep"
      /\ Works \/ \E kind : Fails(kind)
      /\ UNCHANGED entry \/ remove(t.ids)
      /\ forgotten' \subseteq forgotten \cup t.ids
      /\ \/ tasks' = [tasks EXCEPT ![p] = Append(Tail(@), x)]
         \/ tasks' = [tasks EXCEPT ![p] = Tail(@)]
      /\ UNCHANGED <<rooms, inbox, sockets, wire, client>>
  BY DEF SweepRemove
<1>2. t \in TaskType /\ tasks \in [Procs -> Seq(TaskType)]
  BY <1>1, HeadTask
<1>3. t.ids \in (SUBSET Clients) \ {{}}
  BY <1>1, <1>2 DEF TaskType, Change
<1>4. x \in TaskType
  BY <1>3 DEF TaskType, Sweep
<1> HIDE DEF t, x
<1>5. tasks' \in [Procs -> Seq(TaskType)]
  <2>1. /\ [tasks EXCEPT ![p] = Append(Tail(@), x)] \in [Procs -> Seq(TaskType)]
        /\ [tasks EXCEPT ![p] = Tail(@)] \in [Procs -> Seq(TaskType)]
    BY <1>1, <1>2, <1>4, QueueTypes
  <2> QED
    BY <1>1, <2>1
<1>6. left' \in Budget /\ \A d \in Clients : left'.conns[d] <= left.conns[d]
  BY <1>1, BudgetKept DEF Typed
<1>7. entry' \in [Clients -> {"absent", "fresh", "stale"}]
  BY <1>1 DEF Typed, TypeOK, remove
<1>8. TypeOK'
  BY <1>1, <1>3, <1>5, <1>6, <1>7 DEF Typed, TypeOK, TaskType
<1>9. ClientsKeep
  BY <1>1 DEF ClientsKeep
<1> QED
  BY <1>1, <1>6, <1>8, <1>9, NetFrame DEF Typed, Located

\* One of those that a sweep removed is announced.
LEMMA SweepAnnounceTyped ==
    ASSUME Typed, FirstSocket, NEW p \in Procs, SweepAnnounce(p)
    PROVE  Typed' /\ FirstSocket'
<1> DEFINE t == Head(tasks[p])
<1>1. /\ tasks[p] # <<>> /\ t.kind = "sweep"
      /\ UNCHANGED <<entry, rooms, sockets, wire>>
  BY DEF SweepAnnounce
<1>2. t \in TaskType /\ tasks \in [Procs -> Seq(TaskType)]
  BY <1>1, HeadTask
<1>3. t.ids \in (SUBSET Clients) \ {{}}
  BY <1>1, <1>2 DEF TaskType, Change
<1>4. PICK c \in t.ids :
        /\ broadcast(p, Leave(c), None)
        /\ Works \/ \E kind : Fails(kind)
        /\ publish(p, Leave(c)) \/ UNCHANGED inbox
        /\ \/ tasks' = [tasks EXCEPT ![p] = Tail(@)]
           \/ /\ t.ids # {c}
              /\ tasks' = [tasks EXCEPT ![p] =
                             Append(Tail(@), Sweep("loop", t.ids \ {c}))]
        /\ forgotten' \subseteq forgotten \cup t.ids
  BY DEF SweepAnnounce
<1> DEFINE x == Sweep("loop", t.ids \ {c})
<1>5. t.ids # {c} => x \in TaskType
  BY <1>3 DEF TaskType, Sweep
<1>6. c \in Clients /\ Leave(c) \in Change
  BY <1>3 DEF Leave, Change
<1> HIDE DEF t, x
<1>7. tasks' \in [Procs -> Seq(TaskType)]
  <2>1. CASE tasks' = [tasks EXCEPT ![p] = Tail(@)]
    BY <1>1, <2>1, HeadTask
  <2>2. CASE x \in TaskType /\ tasks' = [tasks EXCEPT ![p] = Append(Tail(@), x)]
    BY <1>1, <1>2, <2>2, QueueTypes
  <2> QED
    BY <1>4, <1>5, <2>1, <2>2 DEF x
<1>8. left' \in Budget /\ \A d \in Clients : left'.conns[d] <= left.conns[d]
  BY <1>4, BudgetKept DEF Typed
<1>9. /\ inbox' \in [Procs -> Seq(Change)]
      /\ \A q \in Procs : rooms[q] = None => inbox'[q] = <<>>
  BY <1>4, <1>6, PublishTyped DEF Typed, TypeOK, Located
<1>10. /\ ClientsKeep
       /\ client' \in [Clients -> [ws : Sockets \cup {None}, away : BOOLEAN,
                                   shown : SUBSET Clients]]
  BY <1>4, <1>6, BroadcastEffect
<1>11. TypeOK'
  BY <1>1, <1>3, <1>4, <1>7, <1>8, <1>9, <1>10 DEF Typed, TypeOK, TaskType
<1> QED
  BY <1>1, <1>8, <1>9, <1>10, <1>11, NetFrame


\* An empty room goes.
LEMMA EvictTyped ==
    ASSUME Typed, FirstSocket, NEW p \in Procs, TickEvict(p)
    PROVE  Typed' /\ FirstSocket'
<1>1. /\ rooms[p] = [c \in Clients |-> None] /\ inbox[p] = <<>>
      /\ rooms' = [rooms EXCEPT ![p] = None]
      /\ UNCHANGED <<entry, tasks, inbox, sockets, wire, client, forgotten, left>>
  BY DEF TickEvict
<1>2. rooms' \in [Procs -> [Clients -> Sockets \cup {None}] \cup {None}]
  BY <1>1 DEF Typed, TypeOK
<1>3. TypeOK'
  BY <1>1, <1>2 DEF Typed, TypeOK
<1>4. SocketsKeep /\ ClientsKeep
  BY <1>1 DEF SocketsKeep, ClientsKeep, Typed, Located
<1>5. \A q \in Procs : rooms'[q] = IF q = p THEN None ELSE rooms[q]
  BY <1>1 DEF Typed, TypeOK
<1>6. RoomsKeep
  BY <1>1, <1>5, SocketsAssumption DEF RoomsKeep, Typed, Located
<1>7. ConnsLeft'
  BY <1>1, <1>3, ConnsKept, ConnsOrdered DEF Typed, TypeOK
<1> QED
  BY <1>3, <1>4, <1>6, <1>7, SocketsFrame DEF Typed

\* A process dies: its sockets go down with its room.
LEMMA CrashTyped ==
    ASSUME Typed, FirstSocket, NEW p \in Procs, Crash(p)
    PROVE  Typed' /\ FirstSocket'
<1>1. /\ \E kind : Fails(kind)
      /\ forgotten' \subseteq forgotten \cup Clients
      /\ rooms' = [rooms EXCEPT ![p] = None]
      /\ tasks' = [tasks EXCEPT ![p] = <<>>]
      /\ inbox' = [inbox EXCEPT ![p] = <<>>]
      /\ sockets' = [s \in Sockets |->
                       IF sockets[s].proc = p
                       THEN [sockets[s] EXCEPT !.up = FALSE, !.open = FALSE]
                       ELSE sockets[s]]
      /\ wire' = [s \in Sockets |-> IF sockets[s].proc = p THEN <<>> ELSE wire[s]]
      /\ UNCHANGED <<entry, client>>
  BY DEF Crash
<1>2. left' \in Budget /\ \A d \in Clients : left'.conns[d] <= left.conns[d]
  BY <1>1, BudgetKept DEF Typed
<1>3. /\ rooms' \in [Procs -> [Clients -> Sockets \cup {None}] \cup {None}]
      /\ \A q \in Procs : rooms'[q] = IF q = p THEN None ELSE rooms[q]
  BY <1>1 DEF Typed, TypeOK
<1>4. tasks' \in [Procs -> Seq(TaskType)]
  <2>1. tasks \in [Procs -> Seq(TaskType)]
    BY DEF Typed, TypeOK, TaskType
  <2>2. <<>> \in Seq(TaskType)
    OBVIOUS
  <2> QED
    BY <1>1, <2>1, <2>2
<1>5. /\ inbox' \in [Procs -> Seq(Change)]
      /\ \A q \in Procs : inbox'[q] = IF q = p THEN <<>> ELSE inbox[q]
  <2>1. inbox \in [Procs -> Seq(Change)] /\ <<>> \in Seq(Change)
    BY DEF Typed, TypeOK
  <2> QED
    BY <1>1, <2>1
<1>6. ASSUME NEW s \in Sockets
      PROVE  /\ sockets'[s] \in [proc : Procs \cup {None}, up : BOOLEAN,
                                 open : BOOLEAN, joined : BOOLEAN]
             /\ sockets'[s].proc = sockets[s].proc
             /\ sockets'[s].joined = sockets[s].joined
             /\ sockets'[s].up => sockets[s].up /\ sockets[s].proc # p
             /\ sockets'[s].open => sockets[s].open
             /\ wire'[s] # <<>> => wire[s] # <<>>
             /\ wire'[s] \in Seq({"join", "presence"})
  <2>1. /\ sockets[s] \in [proc : Procs \cup {None}, up : BOOLEAN,
                           open : BOOLEAN, joined : BOOLEAN]
        /\ wire[s] \in Seq({"join", "presence"})
        /\ <<>> \in Seq({"join", "presence"})
    BY DEF Typed, TypeOK
  <2>2. CASE sockets[s].proc = p
    <3>1. /\ sockets'[s] = [sockets[s] EXCEPT !.up = FALSE, !.open = FALSE]
          /\ wire'[s] = <<>>
      BY <1>1, <2>2
    <3> QED
      BY <2>1, <3>1
  <2>3. CASE sockets[s].proc # p
    <3>1. sockets'[s] = sockets[s] /\ wire'[s] = wire[s]
      BY <1>1, <2>3
    <3> QED
      BY <2>1, <2>3, <3>1
  <2> QED
    BY <2>2, <2>3
<1>7. TypeOK'
  <2>1. sockets' \in [Sockets -> [proc : Procs \cup {None}, up : BOOLEAN,
                                  open : BOOLEAN, joined : BOOLEAN]]
    BY <1>1, <1>6
  <2>2. wire' \in [Sockets -> Seq({"join", "presence"})]
    BY <1>1, <1>6
  <2> QED
    BY <1>1, <1>2, <1>3, <1>4, <1>5, <2>1, <2>2 DEF Typed, TypeOK, TaskType
<1>8. SocketsKeep
  BY <1>6 DEF SocketsKeep, Typed, Located
<1>9. ClientsKeep
  BY <1>1 DEF ClientsKeep
<1>10. RoomsKeep
  BY <1>3, <1>5, <1>6 DEF RoomsKeep, Typed, Located
<1>11. ConnsLeft'
  BY <1>2, <1>6, ConnsKept
<1> QED
  BY <1>7, <1>8, <1>9, <1>10, <1>11, SocketsFrame DEF Typed

\* The server sees a socket close, and its presence is removed.
LEMMA ServerCloseTyped ==
    ASSUME Typed, FirstSocket, NEW s \in Sockets, ServerClose(s)
    PROVE  Typed' /\ FirstSocket'
<1> DEFINE c == clientOf(s)
           p == sockets[s].proc
<1>1. /\ sockets[s].open /\ ~sockets[s].up
      /\ sockets' = [sockets EXCEPT ![s].open = FALSE]
      /\ wire' = [wire EXCEPT ![s] = <<>>]
      /\ \/ /\ rooms[p] # None /\ rooms[p][c] = s
            /\ rooms' = [rooms EXCEPT ![p][c] = None]
         \/ rooms' = rooms
      /\ entry' = entry \/ remove({c})
      /\ tasks' = tasks \/ tasks' = [tasks EXCEPT ![p] = Append(@, Leave(c))]
      /\ forgotten' \subseteq forgotten \cup {c}
      /\ Works \/ \E kind : Fails(kind)
      /\ UNCHANGED <<inbox, client>>
  BY DEF ServerClose, removePresence, Works
<1>2. p \in Procs /\ c \in Clients
  BY <1>1 DEF Typed, Located, Sockets, clientOf
<1> HIDE DEF c, p
<1>3. left' \in Budget /\ \A d \in Clients : left'.conns[d] <= left.conns[d]
  BY <1>1, BudgetKept DEF Typed
<1>4. /\ rooms' \in [Procs -> [Clients -> Sockets \cup {None}] \cup {None}]
      /\ \A q \in Procs : rooms'[q] = None <=> rooms[q] = None
      /\ \A q \in Procs, d \in Clients : rooms[q] # None =>
           \/ rooms'[q][d] = rooms[q][d]
           \/ rooms'[q][d] = None /\ rooms[q][d] = s
  <2>1. CASE rooms' = rooms
    BY <2>1 DEF Typed, TypeOK
  <2>2. CASE /\ rooms[p] # None /\ rooms[p][c] = s
             /\ rooms' = [rooms EXCEPT ![p][c] = None]
    <3> DEFINE new == [rooms[p] EXCEPT ![c] = None]
               R == [Clients -> Sockets \cup {None}]
    <3>1. rooms \in [Procs -> R \cup {None}] /\ rooms[p] \in R
      BY <1>2, <2>2 DEF Typed, TypeOK
    <3>2. new \in R /\ \A d \in Clients : new[d] = IF d = c THEN None ELSE rooms[p][d]
      BY <1>2, <3>1
    <3>3. rooms' = [rooms EXCEPT ![p] = new] /\ new # None
      <4>1. rooms' = [rooms EXCEPT ![p] = new]
        BY <2>2
      <4>2. rooms'[p] = new
        BY <1>2, <3>1, <4>1
      <4> QED
        BY <3>2, <4>1, SocketsAssumption
    <3> HIDE DEF new, R
    <3>4. /\ rooms' \in [Procs -> R \cup {None}] /\ rooms'[p] = new
          /\ \A q \in Procs : q # p => rooms'[q] = rooms[q]
      BY <1>2, <3>1, <3>2, <3>3
    <3> QED
      BY <1>2, <2>2, <3>2, <3>3, <3>4 DEF R
  <2> QED
    BY <1>1, <2>1, <2>2
<1>5. tasks' \in [Procs -> Seq(TaskType)]
  <2>1. Leave(c) \in TaskType /\ tasks \in [Procs -> Seq(TaskType)]
    BY <1>2 DEF TaskType, Leave, Change, Typed, TypeOK
  <2>2. [tasks EXCEPT ![p] = Append(@, Leave(c))] \in [Procs -> Seq(TaskType)]
    BY <1>2, <2>1, QueueTypes
  <2> QED
    BY <1>1, <2>1, <2>2
<1>6. /\ sockets' \in [Sockets -> [proc : Procs \cup {None}, up : BOOLEAN,
                                   open : BOOLEAN, joined : BOOLEAN]]
      /\ \A t \in Sockets : /\ sockets'[t].proc = sockets[t].proc
                            /\ sockets'[t].joined = sockets[t].joined
                            /\ sockets'[t].up = sockets[t].up
                            /\ sockets'[t].open => sockets[t].open
  BY <1>1 DEF Typed, TypeOK
<1>7. /\ wire' \in [Sockets -> Seq({"join", "presence"})]
      /\ \A t \in Sockets : wire'[t] # <<>> => wire[t] # <<>>
  <2>1. <<>> \in Seq({"join", "presence"})
    OBVIOUS
  <2> QED
    BY <1>1, <2>1 DEF Typed, TypeOK
<1>8. entry' \in [Clients -> {"absent", "fresh", "stale"}]
  BY <1>1 DEF Typed, TypeOK, remove
<1>9. TypeOK'
  BY <1>1, <1>2, <1>3, <1>4, <1>5, <1>6, <1>7, <1>8 DEF Typed, TypeOK, TaskType
<1>10. SocketsKeep /\ ClientsKeep
  BY <1>1, <1>6, <1>7 DEF SocketsKeep, ClientsKeep, Typed, Located
<1>11. RoomsKeep
  <2>1. \A q \in Procs : rooms'[q] = None => inbox'[q] = <<>>
    BY <1>1, <1>4 DEF Typed, Located
  <2>2. ASSUME NEW q \in Procs, NEW d \in Clients, rooms'[q] # None,
               rooms'[q][d] # None
        PROVE  rooms[q] # None /\ rooms[q][d] = rooms'[q][d]
    BY <1>4, <2>2
  <2>3. ASSUME NEW q \in Procs, NEW d \in Clients, NEW t \in Sockets,
               sockets'[t].up, rooms[q] # None, rooms[q][d] = t
        PROVE  rooms'[q] # None /\ rooms'[q][d] = t
    BY <1>1, <1>4, <1>6, <2>3
  <2> QED
    BY <2>1, <2>2, <2>3 DEF RoomsKeep
<1>12. ConnsLeft'
  BY <1>3, <1>6, ConnsKept
<1> QED
  BY <1>9, <1>10, <1>11, <1>12, SocketsFrame DEF Typed

\* What a join leaves: the room has the socket, which is marked as joined, and
\* no other socket is but closed.
LEMMA JoinEffect ==
    ASSUME Typed, NEW s \in Sockets, DispatchJoin(s)
    PROVE  LET c == clientOf(s)
               p == sockets[s].proc
           IN  /\ p \in Procs /\ c \in Clients
               /\ rooms' \in [Procs -> [Clients -> Sockets \cup {None}] \cup {None}]
               /\ \A q \in Procs : q # p => rooms'[q] = rooms[q]
               /\ rooms'[p] # None /\ rooms'[p][c] = s
               /\ \A d \in Clients : d # c => rooms'[p][d] =
                    IF rooms[p] = None THEN None ELSE rooms[p][d]
               /\ sockets' \in [Sockets -> [proc : Procs \cup {None}, up : BOOLEAN,
                                            open : BOOLEAN, joined : BOOLEAN]]
               /\ \A t \in Sockets :
                    /\ sockets'[t].proc = sockets[t].proc
                    /\ sockets'[t].joined => sockets[t].joined \/ t = s
                    /\ sockets[t].joined \/ t = s => sockets'[t].joined
                    /\ sockets'[t].open => sockets[t].open
                    /\ sockets'[t].up => sockets[t].up
                    /\ t = s \/ clientOf(t) # c => sockets'[t].up = sockets[t].up
               /\ wire' \in [Sockets -> Seq({"join", "presence"})]
               /\ \A t \in Sockets : wire'[t] # <<>> => wire[t] # <<>>
<1> DEFINE c == clientOf(s)
           p == sockets[s].proc
           R == [Clients -> Sockets \cup {None}]
           room == IF rooms[p] = None THEN [d \in Clients |-> None] ELSE rooms[p]
           new == [room EXCEPT ![c] = s]
<1>1. /\ wire[s] # <<>>
      /\ rooms' = [rooms EXCEPT ![p] = new]
      /\ sockets' = [t \in Sockets |->
           CASE t = s -> [sockets[t] EXCEPT !.joined = TRUE]
             [] t = room[c] /\ t # s -> [sockets[t] EXCEPT !.up = FALSE]
             [] OTHER -> sockets[t]]
      /\ wire' = [wire EXCEPT ![s] = Tail(@)]
  BY DEF DispatchJoin
<1>2. p \in Procs /\ c \in Clients
  BY <1>1 DEF Typed, Located, Sockets, clientOf
<1>3. room \in R /\ rooms \in [Procs -> R \cup {None}]
  BY <1>2 DEF Typed, TypeOK
<1>4. room[c] # None => clientOf(room[c]) = c
  BY <1>2 DEF Typed, Located
<1>5. \A d \in Clients : room[d] = IF rooms[p] = None THEN None ELSE rooms[p][d]
  BY <1>2
<1> HIDE DEF c, p, room
<1>6. new \in R /\ \A d \in Clients : new[d] = IF d = c THEN s ELSE room[d]
  BY <1>2, <1>3
<1> HIDE DEF new
<1>7. /\ rooms' \in [Procs -> R \cup {None}] /\ rooms'[p] = new
      /\ \A q \in Procs : q # p => rooms'[q] = rooms[q]
  BY <1>1, <1>2, <1>3, <1>6
<1>8. new # None
  BY <1>6, SocketsAssumption
<1>9. ASSUME NEW t \in Sockets
      PROVE  /\ sockets'[t] \in [proc : Procs \cup {None}, up : BOOLEAN,
                                 open : BOOLEAN, joined : BOOLEAN]
             /\ sockets'[t].proc = sockets[t].proc
             /\ sockets'[t].joined => sockets[t].joined \/ t = s
             /\ sockets[t].joined \/ t = s => sockets'[t].joined
             /\ sockets'[t].open => sockets[t].open
             /\ sockets'[t].up => sockets[t].up
             /\ t = s \/ clientOf(t) # c => sockets'[t].up = sockets[t].up
  <2>1. sockets[t] \in [proc : Procs \cup {None}, up : BOOLEAN,
                        open : BOOLEAN, joined : BOOLEAN]
    BY DEF Typed, TypeOK
  <2>2. CASE t = s
    <3>1. sockets'[t] = [sockets[t] EXCEPT !.joined = TRUE]
      BY <1>1, <2>2
    <3> QED
      BY <2>1, <2>2, <3>1
  <2>3. CASE t # s /\ t = room[c]
    <3>1. sockets'[t] = [sockets[t] EXCEPT !.up = FALSE]
      BY <1>1, <2>3
    <3>2. clientOf(t) = c
      BY <1>4, <2>3, SocketsAssumption
    <3> QED
      BY <2>1, <2>3, <3>1, <3>2
  <2>4. CASE t # s /\ t # room[c]
    <3>1. sockets'[t] = sockets[t]
      BY <1>1, <2>4
    <3> QED
      BY <2>1, <2>4, <3>1
  <2> QED
    BY <2>2, <2>3, <2>4
<1>10. sockets' \in [Sockets -> [proc : Procs \cup {None}, up : BOOLEAN,
                                 open : BOOLEAN, joined : BOOLEAN]]
  BY <1>1, <1>9
<1>11. /\ wire' \in [Sockets -> Seq({"join", "presence"})]
       /\ \A t \in Sockets : wire'[t] # <<>> => wire[t] # <<>>
  <2>1. wire[s] \in Seq({"join", "presence"})
    BY DEF Typed, TypeOK
  <2>2. Tail(wire[s]) \in Seq({"join", "presence"})
    BY <1>1, <2>1
  <2> QED
    BY <1>1, <2>2 DEF Typed, TypeOK
<1>12. \A d \in Clients : d # c => rooms'[p][d] =
         IF rooms[p] = None THEN None ELSE rooms[p][d]
  BY <1>5, <1>6, <1>7
<1>13. rooms'[p] # None /\ rooms'[p][c] = s
  BY <1>2, <1>6, <1>7, <1>8
<1> QED
  BY <1>2, <1>7, <1>9, <1>10, <1>11, <1>12, <1>13 DEF c, p

\* A socket joins.
LEMMA JoinTyped ==
    ASSUME Typed, FirstSocket, NEW s \in Sockets, DispatchJoin(s)
    PROVE  Typed' /\ FirstSocket'
<1> DEFINE c == clientOf(s)
           p == sockets[s].proc
<1>1. UNCHANGED <<entry, tasks, inbox, client, forgotten, left>>
  BY DEF DispatchJoin
<1>2. /\ p \in Procs /\ c \in Clients
      /\ rooms' \in [Procs -> [Clients -> Sockets \cup {None}] \cup {None}]
      /\ \A q \in Procs : q # p => rooms'[q] = rooms[q]
      /\ rooms'[p] # None /\ rooms'[p][c] = s
      /\ \A d \in Clients : d # c => rooms'[p][d] =
           IF rooms[p] = None THEN None ELSE rooms[p][d]
  BY JoinEffect
<1>3. /\ sockets' \in [Sockets -> [proc : Procs \cup {None}, up : BOOLEAN,
                                   open : BOOLEAN, joined : BOOLEAN]]
      /\ \A t \in Sockets :
           /\ sockets'[t].proc = sockets[t].proc
           /\ sockets'[t].joined => sockets[t].joined \/ t = s
           /\ sockets[t].joined \/ t = s => sockets'[t].joined
           /\ sockets'[t].open => sockets[t].open
           /\ sockets'[t].up => sockets[t].up
      /\ wire' \in [Sockets -> Seq({"join", "presence"})]
      /\ \A t \in Sockets : wire'[t] # <<>> => wire[t] # <<>>
  BY JoinEffect
<1>4. c = clientOf(s) /\ p = sockets[s].proc
  OBVIOUS
<1> HIDE DEF c, p
<1>5. TypeOK'
  BY <1>1, <1>2, <1>3 DEF Typed, TypeOK
<1>6. ConnsLeft'
  BY <1>1, <1>3, ConnsKept, ConnsOrdered DEF Typed, TypeOK
<1>7. Located'
  <2>1. ASSUME NEW t \in Sockets,
               sockets'[t].joined \/ sockets'[t].open \/ sockets'[t].up \/ wire'[t] # <<>>
        PROVE  sockets'[t].proc \in Procs
    <3>1. CASE t = s
      BY <1>2, <1>3, <1>4, <3>1
    <3>2. CASE t # s
      <4>1. sockets[t].joined \/ sockets[t].open \/ sockets[t].up \/ wire[t] # <<>>
        BY <1>3, <2>1, <3>2
      <4> QED
        BY <1>3, <4>1 DEF Typed, Located
    <3> QED
      BY <3>1, <3>2
  <2>2. ASSUME NEW q \in Procs, NEW d \in Clients, rooms'[q] # None,
               rooms'[q][d] # None
        PROVE  /\ clientOf(rooms'[q][d]) = d
               /\ sockets'[rooms'[q][d]].joined /\ sockets'[rooms'[q][d]].proc = q
    <3>1. CASE q = p /\ d = c
      BY <1>2, <1>3, <1>4, <3>1
    <3>2. CASE ~(q = p /\ d = c)
      <4>1. rooms[q] # None /\ rooms'[q][d] = rooms[q][d] /\ rooms[q][d] \in Sockets
        BY <1>2, <2>2, <3>2 DEF Typed, TypeOK
      <4>2. /\ clientOf(rooms[q][d]) = d
            /\ sockets[rooms[q][d]].joined /\ sockets[rooms[q][d]].proc = q
        BY <2>2, <4>1 DEF Typed, Located
      <4> QED
        BY <1>3, <4>1, <4>2
    <3> QED
      BY <3>1, <3>2
  <2>3. \A q \in Procs : rooms'[q] = None => inbox'[q] = <<>>
    BY <1>1, <1>2 DEF Typed, Located
  <2> QED
    BY <2>1, <2>2, <2>3 DEF Located, clientOf
<1>8. ASSUME NEW d \in Clients, client'[d].ws # None
      PROVE  clientOf(client'[d].ws) = d /\ sockets'[client'[d].ws].proc \in Procs
  <2>1. /\ client[d].ws \in Sockets /\ clientOf(client[d].ws) = d
        /\ sockets[client[d].ws].proc \in Procs
    BY <1>1, <1>8 DEF FirstSocket, Typed, TypeOK
  <2> QED
    BY <1>1, <1>3, <2>1
<1>9. ASSUME NEW d \in Clients, NEW t \in Sockets, ~client'[d].away,
             clientOf(t) = d, sockets'[t].proc # None
      PROVE  t = client'[d].ws
  BY <1>1, <1>3, <1>9 DEF FirstSocket
<1>10. ASSUME NEW d \in Clients, ~client'[d].away,
              client'[d].ws = None \/ ~sockets'[client'[d].ws].joined
       PROVE  client'[d].shown = {}
  <2>1. client[d].ws = None \/ ~sockets[client[d].ws].joined
    BY <1>1, <1>3, <1>10 DEF Typed, TypeOK
  <2> QED
    BY <1>1, <1>10, <2>1 DEF FirstSocket
<1>11. ASSUME NEW d \in Clients, Watching(d)'
       PROVE  /\ rooms'[sockets'[client'[d].ws].proc] # None
              /\ rooms'[sockets'[client'[d].ws].proc][d] = client'[d].ws
  <2> DEFINE w == client[d].ws
  <2>1. /\ w \in Sockets /\ client'[d].ws = w /\ sockets'[w].up /\ sockets'[w].joined
        /\ ~client[d].away
    BY <1>1, <1>11 DEF Watching, Up, Typed, TypeOK
  <2>2. clientOf(w) = d /\ sockets[w].proc \in Procs
    BY <2>1, SocketsAssumption DEF FirstSocket
  <2>3. CASE d = c
    <3>1. sockets[s].proc # None
      BY <1>2, <1>4, PresenceAssumption
    <3>2. w = s
      BY <1>4, <2>1, <2>3, <3>1 DEF FirstSocket
    <3> QED
      BY <1>2, <1>3, <1>4, <2>1, <2>3, <3>2
  <2>4. CASE d # c
    <3>1. w # s
      BY <1>4, <2>2, <2>4
    <3>2. Watching(d)
      <4> HIDE DEF w
      <4>1. w # None /\ sockets[w].up /\ sockets[w].joined
        BY <1>3, <2>1, <3>1, SocketsAssumption
      <4> QED
        BY <2>1, <4>1 DEF Watching, Up, w
    <3>3. rooms[sockets[w].proc] # None /\ rooms[sockets[w].proc][d] = w
      BY <3>2 DEF FirstSocket
    <3> HIDE DEF w
    <3> QED
      BY <1>2, <1>3, <2>1, <2>2, <2>4, <3>3
  <2> QED
    BY <2>3, <2>4
<1>12. FirstSocket'
  BY <1>8, <1>9, <1>10, <1>11 DEF FirstSocket, clientOf
<1> QED
  BY <1>5, <1>6, <1>7, <1>12 DEF Typed

\* Every step keeps the types and the sockets in order.
LEMMA TypedNext == Typed /\ FirstSocket /\ [Next]_vars => Typed' /\ FirstSocket'
<1> SUFFICES ASSUME Typed, FirstSocket, [Next]_vars PROVE Typed' /\ FirstSocket'
  OBVIOUS
<1>1. CASE UNCHANGED vars
  <2>1. UNCHANGED <<sockets, wire, rooms>> /\ ClientsKeep /\ TypeOK'
    BY <1>1 DEF vars, ClientsKeep, Typed, TypeOK
  <2>2. inbox' = inbox /\ left' = left
    BY <1>1 DEF vars
  <2> QED
    BY <2>1, <2>2, NetFrame, ConnsOrdered DEF Typed, Located
<1>2. ASSUME NEW c \in Clients, NEW p \in Procs, Connect(c, p)
      PROVE  Typed' /\ FirstSocket'
  BY <1>2, ConnectTyped
<1>3. ASSUME NEW c \in Clients, SendPresence(c) \/ ClientClose(c) \/ Expire(c)
      PROVE  Typed' /\ FirstSocket'
  BY <1>3, SendTyped, CloseTyped, ExpireTyped
<1>4. ASSUME NEW s \in Sockets, \/ Break(s) \/ DispatchJoin(s)
                                \/ DispatchPresence(s) \/ ServerClose(s)
      PROVE  Typed' /\ FirstSocket'
  BY <1>4, BreakTyped, JoinTyped, PresenceTyped, ServerCloseTyped
<1>5. ASSUME NEW p \in Procs,
             \/ Announce(p) \/ HandleRemotePresence(p) \/ TickSweep(p)
             \/ SweepRemove(p) \/ SweepAnnounce(p) \/ TickEvict(p) \/ Crash(p)
      PROVE  Typed' /\ FirstSocket'
  BY <1>5, AnnounceTyped, RemoteTyped, SweepTyped, SweepRemoveTyped,
     SweepAnnounceTyped, EvictTyped, CrashTyped
<1> QED
  BY <1>1, <1>2, <1>3, <1>4, <1>5 DEF Next

\* Rooms, queues, sockets, wires and clients keep their types: among others, a
\* client never runs out of socket numbers before its budget is spent, and a
\* sweep that announces has somebody left to announce.
THEOREM PresenceTypeCorrect == Spec => []TypeOK
<1>1. Init => Typed /\ FirstSocket
  BY TypedInit
<1>2. Typed /\ FirstSocket /\ [Next]_vars => Typed' /\ FirstSocket'
  BY TypedNext
<1>3. Typed => TypeOK
  BY DEF Typed
<1> QED
  BY <1>1, <1>2, <1>3, PTL DEF Spec

-----------------------------------------------------------------------------
(* Whoever shows someone who is gone is going to be told *)

\* What Told says of one whose entry is gone.
ToldOf(d) ==
    /\ \A p \in Procs : Followed(tasks[p], d)
    /\ \A q \in Procs :
         Followed(inbox[q], d) \/ \E p \in Procs \ {q} : HasLeave(tasks[p], d)
    /\ \A c \in Clients :
         c # d /\ Watching(c) /\ d \in client[c].shown =>
            \/ HasLeave(inbox[sockets[client[c].ws].proc], d)
            \/ \E p \in Procs : HasLeave(tasks[p], d)

\* Told, for each of them.
LEMMA ToldEach ==
    /\ Told => \A d \in Clients : Removed(d) => ToldOf(d)
    /\ (\A d \in Clients : Removed(d) => ToldOf(d)) => Told
BY DEF Told, ToldOf, TasksEndInLeave, InboxEndsInLeave, WatchersAreTold

\* The same, for the state after a step.
LEMMA ToldEachNext ==
    ASSUME \A d \in Clients : Removed(d)' => ToldOf(d)'
    PROVE  Told'
BY DEF Told, ToldOf, TasksEndInLeave, InboxEndsInLeave, WatchersAreTold

\* The parts of it, for the state after a step.
LEMMA ToldParts ==
    ASSUME NEW d \in Clients,
           \A p \in Procs : Followed(tasks'[p], d),
           \A q \in Procs : \/ Followed(inbox'[q], d)
                            \/ \E p \in Procs \ {q} : HasLeave(tasks'[p], d),
           \A c \in Clients :
             c # d /\ Watching(c)' /\ d \in client'[c].shown =>
                \/ HasLeave(inbox'[sockets'[client'[c].ws].proc], d)
                \/ \E p \in Procs : HasLeave(tasks'[p], d)
    PROVE  ToldOf(d)'
BY DEF ToldOf, Followed, HasLeave, LeaveTask, Leave, Update

\* A leave task is no update, and of the changes it is the leave.
LEMMA LeaveTasks ==
    ASSUME NEW x, NEW d
    PROVE  /\ x = Update(d) => ~LeaveTask(x, d)
           /\ x \in Change /\ LeaveTask(x, d) => x = Leave(d)
BY DEF LeaveTask, Leave, Update, Change

\* A client that is connected after a step that opens and joins no socket was so
\* before it.
LEMMA WatchKeeps ==
    ASSUME Typed, FirstSocket, NEW c \in Clients, Watching(c)',
           \A t \in Sockets : /\ sockets'[t].proc = sockets[t].proc
                              /\ sockets'[t].joined => sockets[t].joined
                              /\ sockets'[t].up => sockets[t].up,
           client'[c].ws = client[c].ws, client'[c].away = client[c].away
    PROVE  LET s == client[c].ws
               p == sockets[s].proc
           IN  /\ Watching(c) /\ s \in Sockets /\ sockets[s].up /\ sockets'[s].up
               /\ p \in Procs /\ sockets'[client'[c].ws].proc = p
               /\ rooms[p] # None /\ rooms[p][c] = s /\ Up(rooms[p][c])
<1> DEFINE s == client[c].ws
<1>1. s \in Sockets /\ s # None /\ sockets'[s].up /\ sockets'[s].joined /\ ~client[c].away
  BY DEF Watching, Up, Typed, TypeOK
<1>2. sockets[s].up /\ sockets[s].joined /\ sockets'[s].proc = sockets[s].proc
  BY <1>1
<1>3. Watching(c)
  BY <1>1, <1>2 DEF Watching, Up
<1>4. sockets[s].proc \in Procs
  BY <1>1 DEF FirstSocket
<1>5. rooms[sockets[s].proc] # None /\ rooms[sockets[s].proc][c] = s
  BY <1>3 DEF FirstSocket
<1> QED
  BY <1>1, <1>2, <1>3, <1>4, <1>5 DEF Up

\* Nothing that said that d is gone is lost, nothing new is said of d, and nobody
\* new shows him.
LEMMA ToldFrame ==
    ASSUME NEW d \in Clients, ToldOf(d),
           \A p \in Procs :
             /\ Followed(tasks[p], d) => Followed(tasks'[p], d)
             /\ HasLeave(tasks[p], d) => HasLeave(tasks'[p], d)
             /\ Followed(inbox[p], d) => Followed(inbox'[p], d)
             /\ HasLeave(inbox[p], d) => HasLeave(inbox'[p], d),
           \A c \in Clients :
             c # d /\ Watching(c)' /\ d \in client'[c].shown =>
               /\ Watching(c) /\ d \in client[c].shown
               /\ sockets[client[c].ws].proc \in Procs
               /\ sockets'[client'[c].ws].proc = sockets[client[c].ws].proc
    PROVE  ToldOf(d)'
<1>1. \A p \in Procs : Followed(tasks'[p], d)
  BY DEF ToldOf
<1>2. ASSUME NEW q \in Procs
      PROVE  \/ Followed(inbox'[q], d)
             \/ \E p \in Procs \ {q} : HasLeave(tasks'[p], d)
  BY DEF ToldOf
<1>3. ASSUME NEW c \in Clients, c # d, Watching(c)', d \in client'[c].shown
      PROVE  \/ HasLeave(inbox'[sockets'[client'[c].ws].proc], d)
             \/ \E p \in Procs : HasLeave(tasks'[p], d)
  <2>1. /\ Watching(c) /\ d \in client[c].shown
        /\ sockets[client[c].ws].proc \in Procs
        /\ sockets'[client'[c].ws].proc = sockets[client[c].ws].proc
    BY <1>3
  <2>2. \/ HasLeave(inbox[sockets[client[c].ws].proc], d)
        \/ \E p \in Procs : HasLeave(tasks[p], d)
    BY <1>3, <2>1 DEF ToldOf
  <2> QED
    BY <2>1, <2>2
<1> QED
  BY <1>1, <1>2, <1>3, ToldParts

\* A step that changes neither queues nor entries, and shows nobody to anybody
\* who did not show him before.
LEMMA QuietTold ==
    ASSUME Typed, FirstSocket, Told, UNCHANGED <<tasks, inbox, forgotten>>,
           \A d \in Clients : entry'[d] = "absent" => entry[d] = "absent",
           \A c \in Clients : Watching(c)' /\ client'[c].shown # {} =>
               /\ Watching(c) /\ client'[c].shown = client[c].shown
               /\ sockets[client[c].ws].proc \in Procs
               /\ sockets'[client'[c].ws].proc = sockets[client[c].ws].proc
    PROVE  Told'
<1> SUFFICES ASSUME NEW d \in Clients, Removed(d)' PROVE ToldOf(d)'
  BY ToldEachNext
<1>1. Removed(d)
  BY DEF Removed
<1>2. ToldOf(d)
  BY <1>1, ToldEach
<1>3. tasks' = tasks /\ inbox' = inbox
  OBVIOUS
<1>4. ASSUME NEW c \in Clients, Watching(c)', d \in client'[c].shown
      PROVE  /\ Watching(c) /\ d \in client[c].shown
             /\ sockets[client[c].ws].proc \in Procs
             /\ sockets'[client'[c].ws].proc = sockets[client[c].ws].proc
  BY <1>4
<1> QED
  BY <1>2, <1>3, <1>4, ToldFrame

\* Connecting, sending, breaking, closing, expiring, joining and evicting.
LEMMA QuietSteps ==
    ASSUME Typed, FirstSocket, Told,
           \/ UNCHANGED vars
           \/ \E c \in Clients : \/ \E p \in Procs : Connect(c, p)
                                 \/ SendPresence(c) \/ ClientClose(c) \/ Expire(c)
           \/ \E s \in Sockets : Break(s) \/ DispatchJoin(s)
           \/ \E p \in Procs : TickEvict(p)
    PROVE  Told'
<1> DEFINE Kept(c) ==
             /\ Watching(c) /\ client'[c].shown = client[c].shown
             /\ sockets[client[c].ws].proc \in Procs
             /\ sockets'[client'[c].ws].proc = sockets[client[c].ws].proc
<1>1. ASSUME UNCHANGED <<sockets, client>>, NEW c \in Clients, Watching(c)'
      PROVE  Kept(c)
  BY <1>1, WatchKeeps
<1>2. ASSUME UNCHANGED <<tasks, inbox, forgotten, sockets, client>>,
             \A d \in Clients : entry'[d] = "absent" => entry[d] = "absent"
      PROVE  Told'
  BY <1>1, <1>2, QuietTold
<1>3. CASE UNCHANGED vars
  BY <1>2, <1>3 DEF vars
<1>4. ASSUME NEW c \in Clients, SendPresence(c) PROVE Told'
  BY <1>2, <1>4 DEF SendPresence
<1>5. ASSUME NEW c \in Clients, Expire(c) PROVE Told'
  BY <1>2, <1>5 DEF Expire, Typed, TypeOK
<1>6. ASSUME NEW p \in Procs, TickEvict(p) PROVE Told'
  BY <1>2, <1>6 DEF TickEvict
<1>7. ASSUME NEW s \in Sockets, Break(s) PROVE Told'
  <2>1. /\ sockets' = [sockets EXCEPT ![s].up = FALSE]
        /\ UNCHANGED <<tasks, inbox, forgotten, client, entry>>
    BY <1>7 DEF Break
  <2>2. \A t \in Sockets : /\ sockets'[t].proc = sockets[t].proc
                           /\ sockets'[t].joined => sockets[t].joined
                           /\ sockets'[t].up => sockets[t].up
    BY <2>1 DEF Typed, TypeOK
  <2>3. ASSUME NEW c \in Clients, Watching(c)' PROVE Kept(c)
    BY <2>1, <2>2, <2>3, WatchKeeps
  <2> QED
    BY <2>1, <2>3, QuietTold
<1>8. ASSUME NEW c \in Clients, ClientClose(c) PROVE Told'
  <2>1. /\ client' = [client EXCEPT ![c].ws = None, ![c].away = TRUE]
        /\ UNCHANGED <<tasks, inbox, forgotten, sockets, entry>>
    BY <1>8 DEF ClientClose
  <2>2. client'[c].ws = None /\ \A d \in Clients : d # c => client'[d] = client[d]
    BY <2>1 DEF Typed, TypeOK
  <2>3. ASSUME NEW d \in Clients, Watching(d)' PROVE Kept(d)
    <3>1. d # c
      BY <2>2, <2>3 DEF Watching, Up
    <3>2. client'[d] = client[d]
      BY <2>2, <3>1
    <3> QED
      BY <2>1, <2>3, <3>2, WatchKeeps
  <2> QED
    BY <2>1, <2>3, QuietTold
<1>9. ASSUME NEW c \in Clients, NEW p \in Procs, Connect(c, p) PROVE Told'
  <2> DEFINE s == <<c, ConnsOf(c) + 1>>
  <2>1. /\ sockets' = [sockets EXCEPT ![s] = [proc |-> p, up |-> TRUE,
                                              open |-> TRUE, joined |-> FALSE]]
        /\ client' = [client EXCEPT ![c].ws = s] /\ left.conns[c] > 0
        /\ UNCHANGED <<tasks, inbox, forgotten, entry>>
    BY <1>9 DEF Connect
  <2>2. s \in Sockets
    BY <2>1, FreshSocket
  <2> HIDE DEF s
  <2>3. /\ client'[c].ws = s /\ \A d \in Clients : d # c => client'[d] = client[d]
        /\ ~sockets'[s].joined
        /\ \A t \in Sockets : t # s => sockets'[t] = sockets[t]
    BY <2>1, <2>2 DEF Typed, TypeOK
  <2>4. ASSUME NEW d \in Clients, Watching(d)' PROVE Kept(d)
    <3>1. d # c /\ client'[d].ws # s /\ client'[d].ws # None
      BY <2>3, <2>4 DEF Watching, Up
    <3>2. /\ client'[d] = client[d] /\ client[d].ws \in Sockets
          /\ sockets'[client[d].ws] = sockets[client[d].ws]
      BY <2>3, <3>1 DEF Typed, TypeOK
    <3>3. Watching(d)
      BY <2>4, <3>2 DEF Watching, Up
    <3> QED
      BY <3>1, <3>2, <3>3 DEF FirstSocket
  <2> QED
    BY <2>1, <2>4, QuietTold
<1>10. ASSUME NEW s \in Sockets, DispatchJoin(s) PROVE Told'
  <2>1. UNCHANGED <<tasks, inbox, forgotten, entry, client>>
    BY <1>10 DEF DispatchJoin
  <2>2. \A t \in Sockets : /\ sockets'[t].proc = sockets[t].proc
                           /\ sockets'[t].joined => sockets[t].joined \/ t = s
                           /\ sockets'[t].up => sockets[t].up
    BY <1>10, JoinEffect
  <2>3. ASSUME NEW c \in Clients, Watching(c)', client'[c].shown # {} PROVE Kept(c)
    <3> DEFINE w == client[c].ws
    <3>1. /\ w \in Sockets /\ w # None /\ sockets'[w].up /\ sockets'[w].joined
          /\ ~client[c].away
      BY <2>1, <2>3 DEF Watching, Up, Typed, TypeOK
    <3>2. sockets[w].joined
      BY <2>1, <2>3, <3>1 DEF FirstSocket
    <3>3. sockets[w].up
      BY <2>2, <3>1
    <3>4. Watching(c)
      BY <3>1, <3>2, <3>3 DEF Watching, Up
    <3>5. sockets[w].proc \in Procs /\ sockets'[w].proc = sockets[w].proc
      BY <2>2, <3>1 DEF FirstSocket
    <3> QED
      BY <2>1, <3>4, <3>5
  <2> QED
    BY <2>1, <2>3, QuietTold
<1> QED
  BY <1>3, <1>4, <1>5, <1>6, <1>7, <1>8, <1>9, <1>10

\* One process gets on with its tasks or is given one, nobody else does anything:
\* nothing is lost that said that d is gone.
LEMMA TasksTold ==
    ASSUME Typed, FirstSocket, NEW d \in Clients, ToldOf(d), NEW p \in Procs,
           Followed(tasks[p], d) => Followed(tasks'[p], d),
           HasLeave(tasks[p], d) => HasLeave(tasks'[p], d),
           \A q \in Procs : q # p => tasks'[q] = tasks[q],
           UNCHANGED <<inbox, client>>,
           \A t \in Sockets : /\ sockets'[t].proc = sockets[t].proc
                              /\ sockets'[t].joined => sockets[t].joined
                              /\ sockets'[t].up => sockets[t].up
    PROVE  ToldOf(d)'
<1>1. ASSUME NEW q \in Procs
      PROVE  /\ Followed(tasks[q], d) => Followed(tasks'[q], d)
             /\ HasLeave(tasks[q], d) => HasLeave(tasks'[q], d)
             /\ Followed(inbox[q], d) => Followed(inbox'[q], d)
             /\ HasLeave(inbox[q], d) => HasLeave(inbox'[q], d)
  <2>1. CASE q = p
    BY <2>1
  <2>2. CASE q # p
    BY <2>2
  <2> QED
    BY <2>1, <2>2
<1>2. ASSUME NEW c \in Clients, c # d, Watching(c)', d \in client'[c].shown
      PROVE  /\ Watching(c) /\ d \in client[c].shown
             /\ sockets[client[c].ws].proc \in Procs
             /\ sockets'[client'[c].ws].proc = sockets[client[c].ws].proc
  BY <1>2, WatchKeeps
<1> QED
  BY <1>1, <1>2, ToldFrame

\* The entry of d is removed and p is going to announce it; p has no update of d
\* to hear of, and nobody else has one to announce.
LEMMA RemovalTold ==
    ASSUME Typed, NEW d \in Clients, NEW p \in Procs, ~Racing(p, d),
           NEW queue \in Seq(TaskType), NEW x, LeaveTask(x, d),
           tasks'[p] = Append(queue, x),
           \A q \in Procs : q # p => tasks'[q] = tasks[q],
           UNCHANGED inbox
    PROVE  ToldOf(d)'
<1>1. Followed(tasks'[p], d) /\ HasLeave(tasks'[p], d)
  BY LeaveFollows
<1>2. \A q \in Procs : q # p => Followed(tasks'[q], d)
  BY NoUpdate DEF Racing
<1>3. Followed(inbox'[p], d)
  BY NoUpdate DEF Racing
<1> QED
  BY <1>1, <1>2, <1>3, ToldParts

\* A heartbeat is about one whose entry is now there.
LEMMA PresenceTold ==
    ASSUME Typed, FirstSocket, Told, NEW s \in Sockets, DispatchPresence(s)
    PROVE  Told'
<1> DEFINE c == clientOf(s)
           p == sockets[s].proc
<1>1. /\ wire[s] # <<>>
      /\ \/ /\ entry' = [entry EXCEPT ![c] = "fresh"]
            /\ tasks' = [tasks EXCEPT ![p] = Append(@, Update(c))]
         \/ UNCHANGED <<entry, tasks>>
      /\ UNCHANGED <<inbox, sockets, client, forgotten>>
  BY DEF DispatchPresence, set
<1>2. p \in Procs /\ c \in Clients
  BY <1>1 DEF Typed, Located, Sockets, clientOf
<1>3. tasks \in [Procs -> Seq(TaskType)] /\ entry \in [Clients -> {"absent", "fresh", "stale"}]
  BY DEF Typed, TypeOK, TaskType
<1> HIDE DEF c, p
<1> SUFFICES ASSUME NEW d \in Clients, Removed(d)' PROVE ToldOf(d)'
  BY ToldEachNext
<1>4. Removed(d)
  BY <1>1, <1>3 DEF Removed
<1>5. ToldOf(d)
  BY <1>4, ToldEach
<1>6. CASE UNCHANGED <<entry, tasks>>
  BY <1>1, <1>2, <1>5, <1>6, TasksTold
<1>7. CASE /\ entry' = [entry EXCEPT ![c] = "fresh"]
           /\ tasks' = [tasks EXCEPT ![p] = Append(@, Update(c))]
  <2>1. d # c
    BY <1>2, <1>3, <1>7 DEF Removed
  <2>2. Update(c) # Update(d)
    BY <2>1 DEF Update
  <2>3. /\ tasks'[p] = Append(tasks[p], Update(c)) /\ tasks[p] \in Seq(TaskType)
        /\ \A q \in Procs : q # p => tasks'[q] = tasks[q]
    BY <1>2, <1>3, <1>7
  <2>4. /\ Followed(tasks[p], d) => Followed(tasks'[p], d)
        /\ HasLeave(tasks[p], d) => HasLeave(tasks'[p], d)
    BY <2>2, <2>3, AppendKeeps
  <2> QED
    BY <1>1, <1>2, <1>5, <2>3, <2>4, TasksTold
<1> QED
  BY <1>1, <1>6, <1>7

\* A sweep that asks says nothing of anybody.
LEMMA SweepTold ==
    ASSUME Typed, FirstSocket, Told, NEW p \in Procs, TickSweep(p)
    PROVE  Told'
<1> DEFINE x == Sweep("range", expired)
<1>1. /\ tasks' = [tasks EXCEPT ![p] = Append(@, x)]
      /\ UNCHANGED <<entry, inbox, sockets, client, forgotten>>
  BY DEF TickSweep
<1>2. tasks \in [Procs -> Seq(TaskType)]
  BY DEF Typed, TypeOK, TaskType
<1> SUFFICES ASSUME NEW d \in Clients, Removed(d)' PROVE ToldOf(d)'
  BY ToldEachNext
<1>3. ToldOf(d)
  BY <1>1, ToldEach DEF Removed
<1>4. x # Update(d)
  BY DEF Sweep, Update
<1> HIDE DEF x
<1>5. /\ tasks'[p] = Append(tasks[p], x) /\ tasks[p] \in Seq(TaskType)
      /\ \A q \in Procs : q # p => tasks'[q] = tasks[q]
  BY <1>1, <1>2
<1>6. /\ Followed(tasks[p], d) => Followed(tasks'[p], d)
      /\ HasLeave(tasks[p], d) => HasLeave(tasks'[p], d)
  BY <1>4, <1>5, AppendKeeps
<1> QED
  BY <1>1, <1>3, <1>5, <1>6, TasksTold

\* The socket of a client is closed: his leave is going to be announced.
LEMMA ServerCloseTold ==
    ASSUME Typed, FirstSocket, Told, NEW s \in Sockets, ServerClose(s)
    PROVE  Told'
<1> DEFINE c == clientOf(s)
           p == sockets[s].proc
<1>1. /\ sockets[s].open /\ sockets' = [sockets EXCEPT ![s].open = FALSE]
      /\ UNCHANGED <<inbox, client>>
      /\ \/ UNCHANGED <<entry, tasks, forgotten>>
         \/ /\ tasks' = [tasks EXCEPT ![p] = Append(@, Leave(c))]
            /\ \/ /\ remove({c})
                  /\ forgotten' = forgotten \cup {d \in {c} : Racing(p, d)}
               \/ UNCHANGED <<entry, forgotten>>
  BY DEF ServerClose, removePresence
<1>2. p \in Procs /\ c \in Clients
  BY <1>1 DEF Typed, Located, Sockets, clientOf
<1>3. tasks \in [Procs -> Seq(TaskType)]
  BY DEF Typed, TypeOK, TaskType
<1>4. \A t \in Sockets : /\ sockets'[t].proc = sockets[t].proc
                         /\ sockets'[t].joined => sockets[t].joined
                         /\ sockets'[t].up => sockets[t].up
  BY <1>1 DEF Typed, TypeOK
<1> HIDE DEF c, p
<1> SUFFICES ASSUME NEW d \in Clients, Removed(d)' PROVE ToldOf(d)'
  BY ToldEachNext
<1>5. CASE UNCHANGED <<entry, tasks, forgotten>>
  <2>1. ToldOf(d)
    BY <1>5, ToldEach DEF Removed
  <2> QED
    BY <1>1, <1>2, <1>4, <1>5, <2>1, TasksTold
<1>6. CASE tasks' = [tasks EXCEPT ![p] = Append(@, Leave(c))]
  <2>1. /\ tasks'[p] = Append(tasks[p], Leave(c)) /\ tasks[p] \in Seq(TaskType)
        /\ \A q \in Procs : q # p => tasks'[q] = tasks[q]
    BY <1>2, <1>3, <1>6
  <2>2. CASE Removed(d)
    <3>1. Leave(c) # Update(d)
      BY DEF Leave, Update
    <3>2. /\ Followed(tasks[p], d) => Followed(tasks'[p], d)
          /\ HasLeave(tasks[p], d) => HasLeave(tasks'[p], d)
      BY <2>1, <3>1, AppendKeeps
    <3>3. ToldOf(d)
      BY <2>2, ToldEach
    <3> QED
      BY <1>1, <1>2, <1>4, <2>1, <3>2, <3>3, TasksTold
  <2>3. CASE ~Removed(d)
    <3>1. d = c /\ ~Racing(p, d)
      BY <1>1, <1>5, <2>3 DEF Removed, remove
    <3>2. LeaveTask(Leave(c), d)
      BY <3>1 DEF LeaveTask
    <3> QED
      BY <1>1, <1>2, <2>1, <3>1, <3>2, RemovalTold
  <2> QED
    BY <2>2, <2>3
<1> QED
  BY <1>1, <1>5, <1>6

\* Those whom a sweep removes are in the loop that follows.
LEMMA SweepRemoveTold ==
    ASSUME Typed, FirstSocket, Told, NEW p \in Procs, SweepRemove(p)
    PROVE  Told'
<1> DEFINE t == Head(tasks[p])
           x == Sweep("loop", t.ids)
<1>1. /\ tasks[p] # <<>> /\ t.kind = "sweep" /\ t.pc = "range"
      /\ UNCHANGED <<inbox, sockets, client>>
      /\ \/ /\ remove(t.ids)
            /\ forgotten' = forgotten \cup {c \in t.ids : Racing(p, c)}
            /\ tasks' = [tasks EXCEPT ![p] = Append(Tail(@), x)]
         \/ /\ tasks' = [tasks EXCEPT ![p] = Tail(@)]
            /\ UNCHANGED <<entry, forgotten>>
  BY DEF SweepRemove
<1>2. tasks \in [Procs -> Seq(TaskType)]
  BY DEF Typed, TypeOK, TaskType
<1> SUFFICES ASSUME NEW d \in Clients, Removed(d)' PROVE ToldOf(d)'
  BY ToldEachNext
<1>3. ~LeaveTask(t, d)
  BY <1>1 DEF LeaveTask, Leave
<1>4. x # Update(d) /\ (d \in t.ids => LeaveTask(x, d))
  BY DEF Sweep, Update, LeaveTask
<1> HIDE DEF x
<1>5. /\ Tail(tasks[p]) \in Seq(TaskType)
      /\ Followed(tasks[p], d) => Followed(Tail(tasks[p]), d)
      /\ HasLeave(tasks[p], d) => HasLeave(Tail(tasks[p]), d)
  <2>1. tasks[p] \in Seq(TaskType)
    BY <1>2
  <2> QED
    BY <1>1, <1>3, <2>1, TailKeeps, QueueOps
<1> HIDE DEF t
<1>6. CASE /\ tasks' = [tasks EXCEPT ![p] = Tail(@)]
           /\ UNCHANGED <<entry, forgotten>>
  <2>1. tasks'[p] = Tail(tasks[p]) /\ \A q \in Procs : q # p => tasks'[q] = tasks[q]
    BY <1>2, <1>6
  <2>2. ToldOf(d)
    BY <1>6, ToldEach DEF Removed
  <2> QED
    BY <1>1, <1>5, <2>1, <2>2, TasksTold
<1>7. CASE /\ remove(t.ids)
           /\ forgotten' = forgotten \cup {c \in t.ids : Racing(p, c)}
           /\ tasks' = [tasks EXCEPT ![p] = Append(Tail(@), x)]
  <2>1. /\ tasks'[p] = Append(Tail(tasks[p]), x)
        /\ \A q \in Procs : q # p => tasks'[q] = tasks[q]
    BY <1>2, <1>7
  <2>2. CASE Removed(d)
    <3>1. ToldOf(d)
      BY <2>2, ToldEach
    <3>2. /\ Followed(tasks[p], d) => Followed(tasks'[p], d)
          /\ HasLeave(tasks[p], d) => HasLeave(tasks'[p], d)
      BY <1>4, <1>5, <2>1, AppendKeeps
    <3> QED
      BY <1>1, <2>1, <3>1, <3>2, TasksTold
  <2>3. CASE ~Removed(d)
    <3>1. d \in t.ids /\ ~Racing(p, d)
      BY <1>7, <2>3 DEF Removed, remove
    <3> QED
      BY <1>1, <1>4, <1>5, <2>1, <3>1, RemovalTold
  <2> QED
    BY <2>2, <2>3
<1> QED
  BY <1>1, <1>6, <1>7

\* A process that dies takes its room and what it had to hear with it; what it had
\* to say of those who left is forgotten.
LEMMA CrashTold ==
    ASSUME Typed, FirstSocket, Told, NEW p \in Procs, Crash(p)
    PROVE  Told'
<1>1. /\ forgotten' = forgotten \cup
           {c \in Clients : \/ Has(tasks[p], Leave(c))
                            \/ \E k \in DOMAIN tasks[p] :
                                 /\ tasks[p][k].kind = "sweep"
                                 /\ tasks[p][k].pc = "loop"
                                 /\ c \in tasks[p][k].ids}
      /\ tasks' = [tasks EXCEPT ![p] = <<>>]
      /\ inbox' = [inbox EXCEPT ![p] = <<>>]
      /\ sockets' = [s \in Sockets |->
                       IF sockets[s].proc = p
                       THEN [sockets[s] EXCEPT !.up = FALSE, !.open = FALSE]
                       ELSE sockets[s]]
      /\ UNCHANGED <<entry, client>>
  BY DEF Crash
<1> SUFFICES ASSUME NEW d \in Clients, Removed(d)' PROVE ToldOf(d)'
  BY ToldEachNext
<1>2. Removed(d) /\ ~HasLeave(tasks[p], d)
  BY <1>1 DEF Removed, HasLeave, LeaveTask, Has
<1>3. ToldOf(d)
  BY <1>2, ToldEach
<1>4. /\ tasks'[p] = <<>> /\ inbox'[p] = <<>>
      /\ \A q \in Procs : q # p => tasks'[q] = tasks[q] /\ inbox'[q] = inbox[q]
  BY <1>1 DEF Typed, TypeOK
<1>5. Followed(<<>>, d)
  BY DEF Followed
<1>6. ASSUME NEW t \in Sockets
      PROVE  /\ sockets'[t].proc = sockets[t].proc
             /\ sockets'[t].joined => sockets[t].joined
             /\ sockets'[t].up => sockets[t].up /\ sockets[t].proc # p
  <2>1. sockets[t] \in [proc : Procs \cup {None}, up : BOOLEAN,
                        open : BOOLEAN, joined : BOOLEAN]
    BY DEF Typed, TypeOK
  <2>2. CASE sockets[t].proc = p
    <3>1. sockets'[t] = [sockets[t] EXCEPT !.up = FALSE, !.open = FALSE]
      BY <1>1, <2>2
    <3> QED
      BY <2>1, <3>1
  <2>3. CASE sockets[t].proc # p
    <3>1. sockets'[t] = sockets[t]
      BY <1>1, <2>3
    <3> QED
      BY <2>3, <3>1
  <2> QED
    BY <2>2, <2>3
<1>7. \A q \in Procs : Followed(tasks'[q], d)
  BY <1>3, <1>4, <1>5 DEF ToldOf
<1>8. \A q \in Procs : HasLeave(tasks[q], d) => q # p /\ HasLeave(tasks'[q], d)
  BY <1>2, <1>4
<1>9. ASSUME NEW q \in Procs
      PROVE  \/ Followed(inbox'[q], d)
             \/ \E r \in Procs \ {q} : HasLeave(tasks'[r], d)
  <2>1. CASE q = p
    BY <1>4, <1>5, <2>1
  <2>2. CASE q # p
    BY <1>3, <1>4, <1>8, <2>2 DEF ToldOf
  <2> QED
    BY <2>1, <2>2
<1>10. ASSUME NEW c \in Clients, c # d, Watching(c)', d \in client'[c].shown
       PROVE  \/ HasLeave(inbox'[sockets'[client'[c].ws].proc], d)
              \/ \E q \in Procs : HasLeave(tasks'[q], d)
  <2> DEFINE w == client[c].ws
             r == sockets[w].proc
  <2>1. /\ Watching(c) /\ w \in Sockets /\ sockets'[w].up /\ r \in Procs
        /\ sockets'[client'[c].ws].proc = r
    BY <1>1, <1>6, <1>10, WatchKeeps
  <2>2. HasLeave(inbox[r], d) \/ \E q \in Procs : HasLeave(tasks[q], d)
    BY <1>1, <1>3, <1>10, <2>1 DEF ToldOf
  <2>3. inbox'[r] = inbox[r]
    BY <1>4, <1>6, <2>1
  <2> HIDE DEF w, r
  <2> QED
    BY <1>8, <2>1, <2>2, <2>3
<1> QED
  BY <1>7, <1>9, <1>10, ToldParts

\* Whom a broadcast shows to a client that is connected: those it showed before, and
\* the one that is updated; not the one that leaves, if the client is told.
LEMMA BroadcastShown ==
    ASSUME Typed, FirstSocket, NEW p \in Procs, NEW change \in Change, NEW except,
           broadcast(p, change, except), UNCHANGED sockets,
           NEW c \in Clients, NEW d \in Clients, Watching(c)', d \in client'[c].shown
    PROVE  LET r == sockets[client[c].ws].proc IN
           /\ Watching(c) /\ r \in Procs /\ rooms[r] # None
           /\ sockets'[client'[c].ws].proc = r
           /\ change # Update(d) => d \in client[c].shown
           /\ change = Update(d) => d \in client[c].shown \/ r = p
           /\ change = Leave(d) /\ c # except => r # p
<1> DEFINE w == client[c].ws
           r == sockets[w].proc
<1>1. /\ client'[c].ws = w /\ client'[c].away = client[c].away
      /\ client'[c].shown = IF rooms[p] # None /\ c # except /\ Up(rooms[p][c])
                            THEN shownAfter(client[c].shown, change)
                            ELSE client[c].shown
  BY BroadcastEffect DEF ClientsKeep
<1>2. /\ Watching(c) /\ w \in Sockets /\ r \in Procs
      /\ sockets'[client'[c].ws].proc = r
      /\ rooms[r] # None /\ rooms[r][c] = w /\ Up(rooms[r][c])
  BY <1>1, WatchKeeps
<1>3. change # Update(d) => d \in client[c].shown
  BY <1>1 DEF shownAfter, Update, Change
<1>4. ASSUME change = Update(d), d \notin client[c].shown PROVE r = p
  <2>1. rooms[p] # None /\ Up(rooms[p][c])
    BY <1>1, <1>4
  <2>2. rooms[p][c] # None /\ rooms[p][c] \in Sockets
    BY <2>1 DEF Up, Typed, TypeOK
  <2>3. clientOf(rooms[p][c]) = c /\ sockets[rooms[p][c]].proc = p /\ p # None
    BY <2>1, <2>2, PresenceAssumption DEF Typed, Located
  <2>4. rooms[p][c] = w
    BY <1>2, <2>2, <2>3 DEF FirstSocket, Watching
  <2> QED
    BY <2>3, <2>4
<1>5. ASSUME change = Leave(d), c # except, r = p PROVE FALSE
  <2>1. client'[c].shown = client[c].shown \ {d}
    BY <1>1, <1>2, <1>5 DEF shownAfter, Leave
  <2> QED
    BY <2>1
<1> QED
  BY <1>2, <1>3, <1>4, <1>5

\* p tells its own clients and the other processes that d is gone.
LEMMA LeaveTold ==
    ASSUME Typed, FirstSocket, NEW d \in Clients, ToldOf(d), NEW p \in Procs,
           NEW except, \A c \in Clients : c # d => c # except,
           broadcast(p, Leave(d), except), publish(p, Leave(d)), UNCHANGED sockets,
           Followed(tasks'[p], d), \A q \in Procs : q # p => tasks'[q] = tasks[q]
    PROVE  ToldOf(d)'
<1>1. Leave(d) \in Change /\ LeaveTask(Leave(d), d)
  BY DEF Leave, Change, LeaveTask
<1>2. \A q \in Procs : /\ inbox[q] \in Seq(Change)
                       /\ rooms[q] = None => inbox'[q] = <<>>
                       /\ inbox'[q] = IF q # p /\ rooms[q] # None
                                      THEN Append(inbox[q], Leave(d)) ELSE inbox[q]
  BY <1>1, PublishTyped DEF Typed, TypeOK
<1>3. ASSUME NEW q \in Procs, q # p, rooms[q] # None
      PROVE  Followed(inbox'[q], d) /\ HasLeave(inbox'[q], d)
  BY <1>1, <1>2, <1>3, LeaveFollows
<1>4. Followed(<<>>, d)
  BY DEF Followed
<1>5. \A q \in Procs : Followed(tasks'[q], d)
  BY DEF ToldOf
<1>6. ASSUME NEW q \in Procs
      PROVE  \/ Followed(inbox'[q], d)
             \/ \E r \in Procs \ {q} : HasLeave(tasks'[r], d)
  <2>1. CASE q # p
    BY <1>2, <1>3, <1>4, <2>1
  <2>2. CASE q = p
    BY <1>2, <2>2 DEF ToldOf
  <2> QED
    BY <2>1, <2>2
<1>7. ASSUME NEW c \in Clients, c # d, Watching(c)', d \in client'[c].shown
      PROVE  \/ HasLeave(inbox'[sockets'[client'[c].ws].proc], d)
             \/ \E q \in Procs : HasLeave(tasks'[q], d)
  <2>1. /\ sockets[client[c].ws].proc \in Procs /\ sockets[client[c].ws].proc # p
        /\ rooms[sockets[client[c].ws].proc] # None
        /\ sockets'[client'[c].ws].proc = sockets[client[c].ws].proc
    BY <1>1, <1>7, BroadcastShown
  <2> QED
    BY <1>3, <2>1
<1> QED
  BY <1>5, <1>6, <1>7, ToldParts

\* p announces a change of somebody else, or an update of d that a leave follows.
LEMMA OtherTold ==
    ASSUME Typed, FirstSocket, NEW d \in Clients, ToldOf(d), NEW p \in Procs,
           NEW change \in Change, NEW except, broadcast(p, change, except),
           publish(p, change) \/ UNCHANGED inbox, UNCHANGED sockets,
           Followed(tasks'[p], d), HasLeave(tasks[p], d) => HasLeave(tasks'[p], d),
           change = Update(d) => HasLeave(tasks'[p], d),
           \A q \in Procs : q # p => tasks'[q] = tasks[q]
    PROVE  ToldOf(d)'
<1>1. \A q \in Procs : /\ inbox[q] \in Seq(Change)
                       /\ \/ inbox'[q] = inbox[q]
                          \/ q # p /\ inbox'[q] = Append(inbox[q], change)
  BY PublishTyped DEF Typed, TypeOK
<1>2. ASSUME NEW q \in Procs
      PROVE  HasLeave(tasks[q], d) => HasLeave(tasks'[q], d)
  BY <1>2
<1>3. \A q \in Procs : Followed(tasks'[q], d)
  BY DEF ToldOf
<1>4. ASSUME NEW q \in Procs
      PROVE  \/ Followed(inbox'[q], d)
             \/ \E r \in Procs \ {q} : HasLeave(tasks'[r], d)
  <2>1. CASE \E r \in Procs \ {q} : HasLeave(tasks[r], d)
    BY <1>2, <2>1
  <2>2. CASE Followed(inbox[q], d) /\ inbox'[q] = inbox[q]
    BY <2>2
  <2>3. CASE Followed(inbox[q], d) /\ q # p /\ inbox'[q] = Append(inbox[q], change)
    <3>1. CASE change # Update(d)
      BY <1>1, <2>3, <3>1, AppendKeeps
    <3>2. CASE change = Update(d)
      BY <2>3, <3>2
    <3> QED
      BY <3>1, <3>2
  <2> QED
    BY <1>1, <2>1, <2>2, <2>3 DEF ToldOf
<1>5. ASSUME NEW c \in Clients, c # d, Watching(c)', d \in client'[c].shown
      PROVE  \/ HasLeave(inbox'[sockets'[client'[c].ws].proc], d)
             \/ \E q \in Procs : HasLeave(tasks'[q], d)
  <2> DEFINE r == sockets[client[c].ws].proc
  <2>1. /\ Watching(c) /\ r \in Procs /\ sockets'[client'[c].ws].proc = r
        /\ change # Update(d) => d \in client[c].shown
    BY <1>5, BroadcastShown
  <2>2. CASE change = Update(d)
    BY <2>2
  <2>3. CASE change # Update(d)
    <3>1. HasLeave(inbox[r], d) \/ \E q \in Procs : HasLeave(tasks[q], d)
      BY <1>5, <2>1, <2>3 DEF ToldOf
    <3> HIDE DEF r
    <3>2. HasLeave(inbox[r], d) => HasLeave(inbox'[r], d)
      <4>1. inbox[r] \in Seq(Change)
        BY <1>1, <2>1
      <4>2. HasLeave(inbox[r], d) => HasLeave(Append(inbox[r], change), d)
        BY <4>1, AppendKeeps
      <4>3. inbox'[r] = inbox[r] \/ inbox'[r] = Append(inbox[r], change)
        BY <1>1, <2>1
      <4> QED
        BY <4>2, <4>3
    <3> QED
      BY <1>2, <2>1, <3>1, <3>2
  <2> QED
    BY <2>2, <2>3
<1> QED
  BY <1>3, <1>4, <1>5, ToldParts

\* A process announces what it did.
LEMMA AnnounceTold ==
    ASSUME Typed, FirstSocket, Told, NEW p \in Procs, Announce(p)
    PROVE  Told'
<1> DEFINE t == Head(tasks[p])
<1>1. /\ tasks[p] # <<>> /\ t \in Change /\ broadcast(p, t, t.of)
      /\ \/ publish(p, t) /\ UNCHANGED forgotten
         \/ /\ forgotten' = forgotten \cup {c \in {t.of} : t.kind = "leave"}
            /\ UNCHANGED inbox
      /\ tasks' = [tasks EXCEPT ![p] = Tail(@)]
      /\ UNCHANGED <<entry, sockets>>
  BY DEF Announce
<1>2. tasks \in [Procs -> Seq(TaskType)]
  BY DEF Typed, TypeOK, TaskType
<1> SUFFICES ASSUME NEW d \in Clients, Removed(d)' PROVE ToldOf(d)'
  BY ToldEachNext
<1>3. ToldOf(d)
  BY <1>1, ToldEach DEF Removed
<1>4. /\ tasks'[p] = Tail(tasks[p]) /\ tasks[p] \in Seq(TaskType)
      /\ \A q \in Procs : q # p => tasks'[q] = tasks[q]
  BY <1>1, <1>2
<1>5. /\ Followed(tasks'[p], d)
      /\ HasLeave(tasks[p], d) => LeaveTask(t, d) \/ HasLeave(tasks'[p], d)
      /\ t = Update(d) => HasLeave(tasks'[p], d)
  BY <1>1, <1>3, <1>4, TailKeeps DEF ToldOf
<1> HIDE DEF t
<1>6. CASE t = Leave(d)
  <2>1. t.of = d /\ t.kind = "leave"
    BY <1>6 DEF Leave
  <2>2. publish(p, Leave(d)) /\ broadcast(p, Leave(d), d)
    BY <1>1, <1>6, <2>1 DEF Removed
  <2> QED
    BY <1>1, <1>3, <1>4, <1>5, <2>2, LeaveTold
<1>7. CASE t # Leave(d)
  <2>1. ~LeaveTask(t, d)
    BY <1>1, <1>7, LeaveTasks
  <2> QED
    BY <1>1, <1>3, <1>4, <1>5, <2>1, OtherTold
<1> QED
  BY <1>6, <1>7

\* A sweep announces one of those it removed.
LEMMA SweepAnnounceTold ==
    ASSUME Typed, FirstSocket, Told, NEW p \in Procs, SweepAnnounce(p)
    PROVE  Told'
<1> DEFINE t == Head(tasks[p])
<1>1. /\ tasks[p] # <<>> /\ t.kind = "sweep" /\ t.pc = "loop"
      /\ UNCHANGED <<entry, sockets>>
  BY DEF SweepAnnounce
<1>2. t \in TaskType /\ tasks \in [Procs -> Seq(TaskType)]
  BY <1>1, HeadTask
<1>3. t.ids \subseteq Clients
  BY <1>1, <1>2 DEF TaskType, Change
<1>4. PICK c \in t.ids :
        /\ broadcast(p, Leave(c), None)
        /\ \/ /\ publish(p, Leave(c))
              /\ tasks' = [tasks EXCEPT ![p] =
                   IF t.ids = {c} THEN Tail(@)
                   ELSE Append(Tail(@), Sweep("loop", t.ids \ {c}))]
              /\ UNCHANGED forgotten
           \/ /\ tasks' = [tasks EXCEPT ![p] = Tail(@)]
              /\ forgotten' = forgotten \cup t.ids
              /\ UNCHANGED inbox
  BY DEF SweepAnnounce
<1> DEFINE x == Sweep("loop", t.ids \ {c})
<1>5. c \in Clients /\ Leave(c) \in Change /\ \A e \in Clients : e # None
  BY <1>3, PresenceAssumption DEF Leave, Change
<1> SUFFICES ASSUME NEW d \in Clients, Removed(d)' PROVE ToldOf(d)'
  BY ToldEachNext
<1>6. ToldOf(d)
  BY <1>1, <1>4, ToldEach DEF Removed
<1>7. x # Update(d) /\ (d \in t.ids /\ d # c => LeaveTask(x, d))
  BY DEF Sweep, Update, LeaveTask
<1>8. LeaveTask(t, d) => d \in t.ids
  BY <1>1 DEF LeaveTask, Leave
<1>9. Leave(c) # Update(d)
  BY DEF Leave, Update
<1> HIDE DEF x
<1>10. /\ Tail(tasks[p]) \in Seq(TaskType)
       /\ Followed(Tail(tasks[p]), d)
       /\ HasLeave(tasks[p], d) => d \in t.ids \/ HasLeave(Tail(tasks[p]), d)
  <2>1. tasks[p] \in Seq(TaskType) /\ Followed(tasks[p], d)
    BY <1>2, <1>6 DEF ToldOf
  <2> QED
    BY <1>1, <1>8, <2>1, TailKeeps, QueueOps
<1> HIDE DEF t
<1>11. \A q \in Procs : q # p => tasks'[q] = tasks[q]
  BY <1>2, <1>4
<1>12. CASE /\ tasks' = [tasks EXCEPT ![p] = Tail(@)]
            /\ forgotten' = forgotten \cup t.ids
            /\ UNCHANGED inbox
  <2>1. tasks'[p] = Tail(tasks[p]) /\ d \notin t.ids
    BY <1>2, <1>12 DEF Removed
  <2> QED
    BY <1>1, <1>4, <1>5, <1>6, <1>9, <1>10, <1>11, <1>12, <2>1, OtherTold
<1>13. CASE /\ publish(p, Leave(c))
            /\ tasks' = [tasks EXCEPT ![p] = IF t.ids = {c} THEN Tail(@)
                                             ELSE Append(Tail(@), x)]
  <2>1. tasks'[p] = IF t.ids = {c} THEN Tail(tasks[p]) ELSE Append(Tail(tasks[p]), x)
    BY <1>2, <1>13
  <2>2. Followed(tasks'[p], d)
    <3>1. Followed(Append(Tail(tasks[p]), x), d)
      BY <1>7, <1>10, AppendKeeps
    <3> QED
      BY <1>10, <2>1, <3>1
  <2>3. CASE d = c
    BY <1>1, <1>4, <1>5, <1>6, <1>11, <1>13, <2>2, <2>3, LeaveTold
  <2>4. CASE d # c
    <3>1. HasLeave(tasks[p], d) => HasLeave(tasks'[p], d)
      <4>1. CASE d \in t.ids
        <5>1. HasLeave(Append(Tail(tasks[p]), x), d)
          BY <1>7, <1>10, <2>4, <4>1, LeaveFollows
        <5> QED
          BY <2>1, <2>4, <4>1, <5>1
      <4>2. CASE d \notin t.ids
        <5>1. HasLeave(Tail(tasks[p]), d) => HasLeave(Append(Tail(tasks[p]), x), d)
          BY <1>10, AppendKeeps
        <5> QED
          BY <1>10, <2>1, <4>2, <5>1
      <4> QED
        BY <4>1, <4>2
    <3> QED
      BY <1>1, <1>4, <1>5, <1>6, <1>9, <1>11, <1>13, <2>2, <3>1, OtherTold
  <2> QED
    BY <2>3, <2>4
<1> QED
  BY <1>4, <1>12, <1>13 DEF x

\* A process hears of a change and tells its clients.
LEMMA RemoteTold ==
    ASSUME Typed, FirstSocket, Told, NEW p \in Procs, HandleRemotePresence(p)
    PROVE  Told'
<1> DEFINE x == Head(inbox[p])
<1>1. /\ inbox[p] # <<>> /\ broadcast(p, x, None)
      /\ inbox' = [inbox EXCEPT ![p] = Tail(@)]
      /\ UNCHANGED <<entry, tasks, sockets, forgotten>>
  BY DEF HandleRemotePresence
<1>2. inbox \in [Procs -> Seq(Change)] /\ x \in Change
  BY <1>1 DEF Typed, TypeOK
<1> SUFFICES ASSUME NEW d \in Clients, Removed(d)' PROVE ToldOf(d)'
  BY ToldEachNext
<1>3. ToldOf(d)
  BY <1>1, ToldEach DEF Removed
<1>4. /\ inbox'[p] = Tail(inbox[p]) /\ inbox[p] \in Seq(Change)
      /\ \A q \in Procs : q # p => inbox'[q] = inbox[q]
  BY <1>1, <1>2
<1>5. /\ Followed(inbox[p], d) => Followed(inbox'[p], d)
      /\ HasLeave(inbox[p], d) => LeaveTask(x, d) \/ HasLeave(inbox'[p], d)
      /\ Followed(inbox[p], d) /\ x = Update(d) => HasLeave(inbox'[p], d)
  BY <1>1, <1>4, TailKeeps
<1> HIDE DEF x
<1>6. LeaveTask(x, d) => x = Leave(d)
  BY <1>2, LeaveTasks
<1>7. tasks' = tasks
  BY <1>1
<1>8. \A q \in Procs : Followed(tasks'[q], d)
  BY <1>3, <1>7 DEF ToldOf
<1>9. ASSUME NEW q \in Procs
      PROVE  \/ Followed(inbox'[q], d)
             \/ \E r \in Procs \ {q} : HasLeave(tasks'[r], d)
  <2>1. Followed(inbox[q], d) => Followed(inbox'[q], d)
    BY <1>4, <1>5
  <2> QED
    BY <1>3, <1>7, <2>1 DEF ToldOf
<1>10. ASSUME NEW c \in Clients, c # d, Watching(c)', d \in client'[c].shown
       PROVE  \/ HasLeave(inbox'[sockets'[client'[c].ws].proc], d)
              \/ \E q \in Procs : HasLeave(tasks'[q], d)
  <2> DEFINE r == sockets[client[c].ws].proc
  <2>1. c # None
    BY PresenceAssumption
  <2>2. /\ Watching(c) /\ r \in Procs /\ sockets'[client'[c].ws].proc = r
        /\ x # Update(d) => d \in client[c].shown
        /\ x = Update(d) => d \in client[c].shown \/ r = p
        /\ x = Leave(d) => r # p
    BY <1>1, <1>2, <1>10, <2>1, BroadcastShown
  <2>3. CASE d \in client[c].shown
    <3>1. HasLeave(inbox[r], d) \/ \E q \in Procs : HasLeave(tasks[q], d)
      BY <1>3, <1>10, <2>2, <2>3 DEF ToldOf
    <3> HIDE DEF r
    <3>2. HasLeave(inbox[r], d) => HasLeave(inbox'[r], d)
      <4>1. CASE r = p
        BY <1>5, <1>6, <2>2, <4>1
      <4>2. CASE r # p
        <5>1. inbox'[r] = inbox[r]
          BY <1>4, <2>2, <4>2
        <5> QED
          BY <5>1
      <4> QED
        BY <4>1, <4>2
    <3> QED
      BY <1>7, <2>2, <3>1, <3>2
  <2>4. CASE d \notin client[c].shown
    <3>1. x = Update(d) /\ r = p
      BY <2>2, <2>4
    <3>2. Followed(inbox[p], d) \/ \E q \in Procs : HasLeave(tasks[q], d)
      BY <1>3 DEF ToldOf
    <3> HIDE DEF r
    <3> QED
      BY <1>5, <1>7, <2>2, <3>1, <3>2
  <2> QED
    BY <2>3, <2>4
<1> QED
  BY <1>8, <1>9, <1>10, ToldParts

\* The invariant is inductive.
LEMMA PInvNext == PInv /\ [Next]_vars => PInv'
<1> SUFFICES ASSUME Typed, FirstSocket, Told, [Next]_vars PROVE PInv'
  BY DEF PInv
<1>1. Typed' /\ FirstSocket'
  BY TypedNext
<1>2. Told'
  <2>1. ASSUME NEW s \in Sockets, DispatchPresence(s) \/ ServerClose(s) PROVE Told'
    BY <2>1, PresenceTold, ServerCloseTold
  <2>2. ASSUME NEW p \in Procs,
               \/ Announce(p) \/ HandleRemotePresence(p) \/ TickSweep(p)
               \/ SweepRemove(p) \/ SweepAnnounce(p) \/ Crash(p)
        PROVE  Told'
    BY <2>2, AnnounceTold, RemoteTold, SweepTold, SweepRemoveTold,
       SweepAnnounceTold, CrashTold
  <2> QED
    BY <2>1, <2>2, QuietSteps DEF Next
<1> QED
  BY <1>1, <1>2 DEF PInv

\* Nobody is shown, nothing is on its way.
LEMMA PInvInit == Init => PInv
<1> SUFFICES ASSUME Init PROVE PInv
  OBVIOUS
<1>1. Typed /\ FirstSocket
  BY TypedInit
<1>2. ASSUME NEW d \in Clients PROVE ToldOf(d)
  <2>1. Followed(<<>>, d)
    BY DEF Followed
  <2>2. /\ \A p \in Procs : tasks[p] = <<>> /\ inbox[p] = <<>>
        /\ \A c \in Clients : client[c].shown = {}
    BY DEF Init
  <2> QED
    BY <2>1, <2>2 DEF ToldOf
<1>3. Told
  BY <1>2, ToldEach
<1> QED
  BY <1>1, <1>3 DEF PInv

\* Whoever a client shows has an entry in Redis, or his leave is on its way.
LEMMA PInvBacked == PInv => ShownIsBacked
<1> SUFFICES ASSUME PInv, NEW c \in Clients, NEW d \in Clients \ forgotten,
                    c # d, Watching(c), d \in client[c].shown, entry[d] = "absent"
             PROVE  LeaveOnItsWay(d)
  BY DEF ShownIsBacked
<1>1. Typed /\ FirstSocket /\ Told
  BY DEF PInv
<1>2. ToldOf(d)
  BY <1>1, ToldEach DEF Removed
<1>3. sockets[client[c].ws].proc \in Procs
  BY <1>1 DEF FirstSocket, Watching, Up
<1>4. ASSUME NEW p \in Procs, HasLeave(tasks[p], d) PROVE LeaveOnItsWay(d)
  BY <1>4 DEF HasLeave, LeaveTask, LeaveOnItsWay, Has
<1>5. ASSUME NEW p \in Procs, HasLeave(inbox[p], d) PROVE LeaveOnItsWay(d)
  <2>1. PICK k \in DOMAIN inbox[p] : LeaveTask(inbox[p][k], d)
    BY <1>5 DEF HasLeave
  <2>2. inbox[p] \in Seq(Change)
    BY <1>1 DEF Typed, TypeOK
  <2>3. inbox[p][k] \in Change
    BY <2>2
  <2>4. inbox[p][k] = Leave(d)
    BY <2>1, <2>3, LeaveTasks
  <2> QED
    BY <2>4 DEF LeaveOnItsWay, Has
<1>6. \/ HasLeave(inbox[sockets[client[c].ws].proc], d)
      \/ \E p \in Procs : HasLeave(tasks[p], d)
  BY <1>2 DEF ToldOf
<1> QED
  BY <1>3, <1>4, <1>5, <1>6

\* A cursor that nothing will ever remove comes only of a change that was lost or
\* overtaken: whoever a connected client shows has an entry in Redis, by which the
\* time to live will find him, or the leave that removes him is on its way.
THEOREM ShownStaysBacked == Spec => []ShownIsBacked
<1>1. Init => PInv
  BY PInvInit
<1>2. PInv /\ [Next]_vars => PInv'
  BY PInvNext
<1>3. PInv => ShownIsBacked
  BY PInvBacked
<1> QED
  BY <1>1, <1>2, <1>3, PTL DEF Spec

=============================================================================
