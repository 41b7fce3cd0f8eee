------------------------------ MODULE Presence ------------------------------
(***************************************************************************)
(* Who is shown in whose document: the presence entries in Redis           *)
(* (RedisPresenceStore.ts), the processes that change them and announce    *)
(* the changes (roomManager.ts, server.ts), and the map that each browser  *)
(* keeps of the others (documentClient.ts).                                *)
(*                                                                         *)
(* A call takes effect in Redis when it is made; the handler goes on when  *)
(* the answer arrives.  The presence store has one connection, so answers  *)
(* reach a process in the order in which it made the calls, and tasks[p]   *)
(* is a queue.  Of an entry only its age matters: an absent one, one whose *)
(* time to live has not passed, one whose time has.  A join is one step    *)
(* (RoomManager.tla has its parts), and a message to a client is handled   *)
(* when it is sent, or lost if the link is down.                           *)
(***************************************************************************)
EXTENDS Naturals, Sequences, FiniteSets

CONSTANTS
    None, Clients, Procs,
    Faults,     \* the calls and parts that may fail
    MaxConns,   \* bound: how many connections a client makes at most
    Budgets     \* bounds: how often each may happen in one behaviour

Budget == [conns : [Clients -> 0..MaxConns], breaks : [Clients -> Nat],
           faults : Nat]

ASSUME PresenceAssumption ==
    /\ None \notin Clients \cup Procs
    /\ Faults \subseteq {"set", "remove", "sweep", "publish", "crash"}
    /\ MaxConns \in Nat
    /\ Budgets \subseteq Budget

VARIABLES
    entry,      \* entry[c]: the age of c's entry in Redis
    rooms,      \* rooms[p][c]: the room's socket of c; rooms[p] None: no room
    tasks,      \* tasks[p]: what p does when Redis answers, in this order
    inbox,      \* inbox[p]: published changes on their way to p
    sockets,    \* sockets[s]: connection s; s = <<client, number>>
    wire,       \* wire[s]: messages on their way to the server
    client,     \* client[c]: its socket, whom it shows, whether it ever lost
                \* its connection
    forgotten,  \* those whose entry went while somebody was not told (history)
    left        \* what is left of the budget

vars == <<entry, rooms, tasks, inbox, sockets, wire, client, forgotten, left>>

Sockets == Clients \X (1..MaxConns)
ASSUME SocketsAssumption ==
    None \notin Sockets /\ None \notin [Clients -> Sockets \cup {None}]
clientOf(s) == s[1]
NoSocket == [proc |-> None, up |-> FALSE, open |-> FALSE, joined |-> FALSE]
Up(s) == s # None /\ sockets[s].up

ConnsOf(c) == Cardinality({s \in Sockets : clientOf(s) = c
                                           /\ sockets[s].proc # None})

Change == [kind : {"update", "leave"}, of : Clients]
Update(c) == [kind |-> "update", of |-> c]
Leave(c) == [kind |-> "leave", of |-> c]
Sweep(pc, ids) == [kind |-> "sweep", pc |-> pc, ids |-> ids]

Has(queue, x) == \E k \in DOMAIN queue : queue[k] = x

Fails(kind) ==
    /\ kind \in Faults
    /\ left.faults > 0
    /\ left' = [left EXCEPT !.faults = @ - 1]

Works == UNCHANGED left

Init ==
    /\ entry = [c \in Clients |-> "absent"]
    /\ rooms = [p \in Procs |-> None]
    /\ tasks = [p \in Procs |-> <<>>]
    /\ inbox = [p \in Procs |-> <<>>]
    /\ sockets = [s \in Sockets |-> NoSocket]
    /\ wire = [s \in Sockets |-> <<>>]
    /\ client = [c \in Clients |-> [ws |-> None, shown |-> {}, away |-> FALSE]]
    /\ forgotten = {}
    /\ left \in Budgets

-----------------------------------------------------------------------------
(* The entries in Redis *)

set(c) == entry' = [entry EXCEPT ![c] = "fresh"]

remove(ids) == entry' = [c \in Clients |-> IF c \in ids THEN "absent"
                                           ELSE entry[c]]

\* zrangebyscore: those whose time has passed.
expired == {c \in Clients : entry[c] = "stale"}

\* Timing assumption: a heartbeat comes every 8 seconds and an entry lives for
\* 30, so that the entry of a client whose heartbeats arrive does not expire.
Expire(c) ==
    /\ entry[c] = "fresh"
    /\ ~Up(client[c].ws)
    /\ \A s \in Sockets : clientOf(s) = c => ~Has(wire[s], "presence")
    /\ entry' = [entry EXCEPT ![c] = "stale"]
    /\ UNCHANGED <<rooms, tasks, inbox, sockets, wire, client, forgotten, left>>

(* Announcing a change *)

\* presence-update and presence-leave
shownAfter(shown, change) ==
    IF change.kind = "update" THEN shown \cup {change.of}
    ELSE shown \ {change.of}

\* Every client in p's room whose link is up, but for one, gets the change.
broadcast(p, change, except) ==
    client' = [c \in Clients |->
                 IF rooms[p] # None /\ c # except /\ Up(rooms[p][c])
                 THEN [client[c] EXCEPT !.shown = shownAfter(@, change)]
                 ELSE client[c]]

\* A process listens as long as it has a room; it would skip its own changes.
publish(p, change) ==
    inbox' = [q \in Procs |-> IF q # p /\ rooms[q] # None
                              THEN Append(inbox[q], change) ELSE inbox[q]]

\* An update that another process has stored and not announced, or that p has
\* still to hear of: a leave that p announces may be overtaken by it.
Racing(p, c) ==
    \/ \E q \in Procs \ {p} : Has(tasks[q], Update(c))
    \/ Has(inbox[p], Update(c))

-----------------------------------------------------------------------------
(* The clients *)

\* connect, and the join its open handler sends.
Connect(c, p) ==
    LET s == <<c, ConnsOf(c) + 1>> IN
    /\ client[c].ws = None
    /\ left.conns[c] > 0
    /\ left' = [left EXCEPT !.conns[c] = @ - 1]
    /\ sockets' = [sockets EXCEPT ![s] = [proc |-> p, up |-> TRUE,
                                          open |-> TRUE, joined |-> FALSE]]
    /\ wire' = [wire EXCEPT ![s] = <<"join">>]
    /\ client' = [client EXCEPT ![c].ws = s]
    /\ UNCHANGED <<entry, rooms, tasks, inbox, forgotten>>

\* sendPresence, by the heartbeat or a new selection.  Bound: the one before it
\* has been handled and announced.
SendPresence(c) ==
    LET s == client[c].ws IN
    /\ Up(s)
    /\ ~Has(wire[s], "presence")
    /\ \A p \in Procs : ~Has(tasks[p], Update(c)) /\ ~Has(inbox[p], Update(c))
    /\ wire' = [wire EXCEPT ![s] = Append(@, "presence")]
    /\ UNCHANGED <<entry, rooms, tasks, inbox, sockets, client, forgotten, left>>

\* The link goes down; each side finds out on its own.
Break(s) ==
    /\ sockets[s].up
    /\ left.breaks[clientOf(s)] > 0
    /\ left' = [left EXCEPT !.breaks[clientOf(s)] = @ - 1]
    /\ sockets' = [sockets EXCEPT ![s].up = FALSE]
    /\ UNCHANGED <<entry, rooms, tasks, inbox, wire, client, forgotten>>

\* The browser's close event.  The map of the others is left as it is.
ClientClose(c) ==
    /\ client[c].ws # None
    /\ ~Up(client[c].ws)
    /\ client' = [client EXCEPT ![c].ws = None, ![c].away = TRUE]
    /\ UNCHANGED <<entry, rooms, tasks, inbox, sockets, wire, forgotten, left>>

-----------------------------------------------------------------------------
(* The server *)

\* join: the socket is registered in p's room, which is created if need be; one
\* that it replaces is closed.  The client is not told who is there.
DispatchJoin(s) ==
    LET c == clientOf(s)
        p == sockets[s].proc
        room == IF rooms[p] = None THEN [d \in Clients |-> None] ELSE rooms[p]
    IN  /\ wire[s] # <<>> /\ Head(wire[s]) = "join"
        /\ rooms' = [rooms EXCEPT ![p] = [room EXCEPT ![c] = s]]
        /\ sockets' = [t \in Sockets |->
             CASE t = s -> [sockets[t] EXCEPT !.joined = TRUE]
               [] t = room[c] /\ t # s -> [sockets[t] EXCEPT !.up = FALSE]
               [] OTHER -> sockets[t]]
        /\ wire' = [wire EXCEPT ![s] = Tail(@)]
        /\ UNCHANGED <<entry, tasks, inbox, client, forgotten, left>>

\* updatePresence up to its await; an entry that is not saved is not announced.
DispatchPresence(s) ==
    LET c == clientOf(s)
        p == sockets[s].proc
    IN  /\ wire[s] # <<>> /\ Head(wire[s]) = "presence"
        /\ \/ /\ Works
              /\ set(c)
              /\ tasks' = [tasks EXCEPT ![p] = Append(@, Update(c))]
           \/ /\ Fails("set")
              /\ UNCHANGED <<entry, tasks>>
        /\ wire' = [wire EXCEPT ![s] = Tail(@)]
        /\ UNCHANGED <<rooms, inbox, sockets, client, forgotten>>

\* Mutant: the entry is removed and nobody is told.
removePresenceQuietly(p, c) ==
    /\ Works
    /\ remove({c})
    /\ UNCHANGED <<tasks, forgotten>>

\* removePresence up to its await: the leave is announced even if the entry
\* could not be removed.
removePresence(p, c) ==
    /\ \/ /\ Works
          /\ remove({c})
          /\ forgotten' = forgotten \cup {d \in {c} : Racing(p, d)}
       \/ /\ Fails("remove")
          /\ UNCHANGED <<entry, forgotten>>
    /\ tasks' = [tasks EXCEPT ![p] = Append(@, Leave(c))]

\* The server's close event, and leave: the room lets go of the socket, if it
\* is the one it has; the presence is removed in any case.
ServerClose(s) ==
    LET c == clientOf(s)
        p == sockets[s].proc
    IN  /\ sockets[s].open
        /\ ~sockets[s].up
        /\ sockets' = [sockets EXCEPT ![s].open = FALSE]
        /\ wire' = [wire EXCEPT ![s] = <<>>]
        /\ IF sockets[s].joined
           THEN /\ rooms' = IF rooms[p] # None /\ rooms[p][c] = s
                            THEN [rooms EXCEPT ![p][c] = None] ELSE rooms
                /\ removePresence(p, c)
           ELSE UNCHANGED <<entry, rooms, tasks, forgotten, left>>
        /\ UNCHANGED <<inbox, client>>

\* Mutant: only the clients of this process are told.
AnnounceHere(p) ==
    LET t == Head(tasks[p]) IN
    /\ tasks[p] # <<>> /\ t \in Change
    /\ broadcast(p, t, t.of)
    /\ Works
    /\ tasks' = [tasks EXCEPT ![p] = Tail(@)]
    /\ UNCHANGED <<entry, rooms, inbox, sockets, wire, forgotten>>

\* The rest of updatePresence and of removePresence.
Announce(p) ==
    LET t == Head(tasks[p]) IN
    /\ tasks[p] # <<>> /\ t \in Change
    /\ broadcast(p, t, t.of)
    /\ \/ /\ Works
          /\ publish(p, t)
          /\ UNCHANGED forgotten
       \/ /\ Fails("publish")
          /\ forgotten' = forgotten \cup {c \in {t.of} : t.kind = "leave"}
          /\ UNCHANGED inbox
    /\ tasks' = [tasks EXCEPT ![p] = Tail(@)]
    /\ UNCHANGED <<entry, rooms, sockets, wire>>

\* handleRemotePresence
HandleRemotePresence(p) ==
    /\ inbox[p] # <<>>
    /\ broadcast(p, Head(inbox[p]), None)
    /\ inbox' = [inbox EXCEPT ![p] = Tail(@)]
    /\ UNCHANGED <<entry, rooms, tasks, sockets, wire, forgotten, left>>

-----------------------------------------------------------------------------
(* tick.  A tick that finds nobody expired changes nothing.  Bound: the sweeps
   of one process do not overlap. *)

\* Mutant: the second call is made for nobody.
TickSweepAll(p) ==
    /\ rooms[p] # None
    /\ \A k \in DOMAIN tasks[p] : tasks[p][k].kind # "sweep"
    /\ tasks' = [tasks EXCEPT ![p] = Append(@, Sweep("range", expired))]
    /\ UNCHANGED <<entry, rooms, inbox, sockets, wire, client, forgotten, left>>

TickSweep(p) ==
    /\ rooms[p] # None
    /\ expired # {}
    /\ \A k \in DOMAIN tasks[p] : tasks[p][k].kind # "sweep"
    /\ tasks' = [tasks EXCEPT ![p] = Append(@, Sweep("range", expired))]
    /\ UNCHANGED <<entry, rooms, inbox, sockets, wire, client, forgotten, left>>

\* The second call of sweep removes whoever the first one found, even those who
\* have been set again since.
SweepRemove(p) ==
    LET t == Head(tasks[p]) IN
    /\ tasks[p] # <<>> /\ t.kind = "sweep" /\ t.pc = "range"
    /\ \/ /\ Works
          /\ remove(t.ids)
          /\ forgotten' = forgotten \cup {c \in t.ids : Racing(p, c)}
          /\ tasks' = [tasks EXCEPT ![p] = Append(Tail(@), Sweep("loop", t.ids))]
       \/ /\ Fails("sweep")
          /\ tasks' = [tasks EXCEPT ![p] = Tail(@)]
          /\ UNCHANGED <<entry, forgotten>>
    /\ UNCHANGED <<rooms, inbox, sockets, wire, client>>

\* Mutant: those who expired are not announced to the room's own clients.
SweepAnnounceElsewhere(p) ==
    LET t == Head(tasks[p]) IN
    /\ tasks[p] # <<>> /\ t.kind = "sweep" /\ t.pc = "loop"
    /\ \E c \in t.ids :
         /\ Works
         /\ publish(p, Leave(c))
         /\ tasks' = [tasks EXCEPT ![p] =
              IF t.ids = {c} THEN Tail(@)
              ELSE Append(Tail(@), Sweep("loop", t.ids \ {c}))]
    /\ UNCHANGED <<entry, rooms, client, sockets, wire, forgotten>>

\* One round of the loop over the expired.  A publish that fails ends the tick:
\* nobody else hears of this one, and nobody at all of the rest.
SweepAnnounce(p) ==
    LET t == Head(tasks[p]) IN
    /\ tasks[p] # <<>> /\ t.kind = "sweep" /\ t.pc = "loop"
    /\ \E c \in t.ids :
         /\ broadcast(p, Leave(c), None)
         /\ \/ /\ Works
               /\ publish(p, Leave(c))
               /\ tasks' = [tasks EXCEPT ![p] =
                    IF t.ids = {c} THEN Tail(@)
                    ELSE Append(Tail(@), Sweep("loop", t.ids \ {c}))]
               /\ UNCHANGED forgotten
            \/ /\ Fails("publish")
               /\ tasks' = [tasks EXCEPT ![p] = Tail(@)]
               /\ forgotten' = forgotten \cup t.ids
               /\ UNCHANGED inbox
    /\ UNCHANGED <<entry, rooms, sockets, wire>>

\* The idle timeout of an empty room has passed.  It is five minutes: no answer
\* and no published change is still on its way to p.
TickEvict(p) ==
    /\ rooms[p] = [c \in Clients |-> None]
    /\ tasks[p] = <<>> /\ inbox[p] = <<>>
    /\ rooms' = [rooms EXCEPT ![p] = None]
    /\ UNCHANGED <<entry, tasks, inbox, sockets, wire, client, forgotten, left>>

\* The process dies with its memory and its connections, and is restarted.
Crash(p) ==
    /\ Fails("crash")
    /\ forgotten' = forgotten \cup
         {c \in Clients : \/ Has(tasks[p], Leave(c))
                          \/ \E k \in DOMAIN tasks[p] :
                               /\ tasks[p][k].kind = "sweep"
                               /\ tasks[p][k].pc = "loop"
                               /\ c \in tasks[p][k].ids}
    /\ rooms' = [rooms EXCEPT ![p] = None]
    /\ tasks' = [tasks EXCEPT ![p] = <<>>]
    /\ inbox' = [inbox EXCEPT ![p] = <<>>]
    /\ sockets' = [s \in Sockets |->
                     IF sockets[s].proc = p
                     THEN [sockets[s] EXCEPT !.up = FALSE, !.open = FALSE]
                     ELSE sockets[s]]
    /\ wire' = [s \in Sockets |->
                  IF sockets[s].proc = p THEN <<>> ELSE wire[s]]
    /\ UNCHANGED <<entry, client>>

-----------------------------------------------------------------------------
Next ==
    \/ \E c \in Clients : \/ \E p \in Procs : Connect(c, p)
                           \/ SendPresence(c)
                           \/ ClientClose(c)
                           \/ Expire(c)
    \/ \E s \in Sockets : \/ Break(s)
                           \/ DispatchJoin(s)
                           \/ DispatchPresence(s)
                           \/ ServerClose(s)
    \/ \E p \in Procs : \/ Announce(p)
                         \/ HandleRemotePresence(p)
                         \/ TickSweep(p)
                         \/ SweepRemove(p)
                         \/ SweepAnnounce(p)
                         \/ TickEvict(p)
                         \/ Crash(p)

Spec == Init /\ [][Next]_vars

\* Heartbeats are sent, time passes, ticks come round, messages are handled
\* and calls are answered.  That the server ever notices a broken link is not
\* assumed: the time to live is there for that.
Fairness ==
    /\ \A c \in Clients : WF_vars(SendPresence(c)) /\ WF_vars(Expire(c))
    /\ \A s \in Sockets : WF_vars(DispatchJoin(s) \/ DispatchPresence(s))
    /\ \A p \in Procs :
         /\ WF_vars(HandleRemotePresence(p))
         /\ WF_vars(TickSweep(p))
         /\ WF_vars(Announce(p) \/ SweepRemove(p) \/ SweepAnnounce(p))

FairSpec == Spec /\ Fairness

-----------------------------------------------------------------------------
(* Properties *)

TypeOK ==
    /\ entry \in [Clients -> {"absent", "fresh", "stale"}]
    /\ rooms \in [Procs -> [Clients -> Sockets \cup {None}] \cup {None}]
    /\ tasks \in [Procs -> Seq(Change \cup [kind : {"sweep"},
                     pc : {"range", "loop"}, ids : (SUBSET Clients) \ {{}}])]
    /\ inbox \in [Procs -> Seq(Change)]
    /\ sockets \in [Sockets -> [proc : Procs \cup {None}, up : BOOLEAN,
                                open : BOOLEAN, joined : BOOLEAN]]
    /\ wire \in [Sockets -> Seq({"join", "presence"})]
    /\ client \in [Clients -> [ws : Sockets \cup {None}, away : BOOLEAN,
                               shown : SUBSET Clients]]
    /\ forgotten \subseteq Clients
    /\ left \in Budget

\* c has been connected ever since it opened the document.
Watching(c) ==
    /\ ~client[c].away
    /\ Up(client[c].ws) /\ sockets[client[c].ws].joined

\* Someone has still to be told that d is gone.
LeaveOnItsWay(d) ==
    \E p \in Procs :
        \/ Has(tasks[p], Leave(d)) \/ Has(inbox[p], Leave(d))
        \/ \E k \in DOMAIN tasks[p] :
             tasks[p][k].kind = "sweep" /\ d \in tasks[p][k].ids

\* Whoever a client shows has an entry in Redis, by which the time to live will
\* find him when he is gone, or his leave is on its way: a cursor that nothing
\* will ever remove comes only of a change that was lost or overtaken.
ShownIsBacked ==
    \A c \in Clients, d \in Clients \ forgotten :
        c # d /\ Watching(c) /\ d \in client[c].shown =>
            entry[d] # "absent" \/ LeaveOnItsWay(d)

Gone(d) == client[d].ws = None /\ left.conns[d] = 0

\* Someone who is gone, whether or not the server noticed his socket close, is
\* in the end not shown any more.
GhostsGo ==
    \A c \in Clients, d \in Clients : c # d =>
        (<>[](Gone(d) /\ Watching(c) /\ d \notin forgotten)
            => <>[](d \notin client[c].shown))

Joined(c) == Up(client[c].ws) /\ sockets[client[c].ws].joined

\* Someone who is connected is in the end shown to everyone who is, although
\* the late close of a socket he had before, or a sweep, took his entry away.
LiveShown ==
    \A c \in Clients, d \in Clients : c # d =>
        (<>[](Joined(c) /\ Joined(d)) => <>[](d \in client[c].shown))
=============================================================================
