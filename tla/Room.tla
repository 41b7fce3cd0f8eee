-------------------------------- MODULE Room --------------------------------
(***************************************************************************)
(* The in-memory state of one document in one process (room.ts), as a      *)
(* value that the methods of the class map to a new one.  The sockets map  *)
(* has one entry per replica id, that is, per client.                      *)
(***************************************************************************)
EXTENDS PersistenceStore

CONSTANT Clients    \* replica ids

NoSockets == [c \in Clients |-> None]

\* Mutant: the loaded room claims to have every batch there ever was.
hydrateFloorless(snapshot, batches, latestSeq) ==
    [ops |-> snapshot.ops \cup OpsOf(batches),
     seq |-> latestSeq,
     opsSinceSnapshot |-> Cardinality(OpsOf(batches)),
     opLog |-> batches,
     coverageFloor |-> 0,
     sockets |-> NoSockets]

\* hydrate: the snapshot and the batches that followed it.
hydrate(snapshot, batches, latestSeq) ==
    [ops |-> snapshot.ops \cup OpsOf(batches),
     seq |-> latestSeq,
     opsSinceSnapshot |-> Cardinality(OpsOf(batches)),
     opLog |-> batches,
     coverageFloor |-> snapshot.seq,
     sockets |-> NoSockets]

\* getOpsSince: what a client that has everything up to sinceSeq misses; None
\* if the log does not reach back that far.
getOpsSince(room, sinceSeq) ==
    IF sinceSeq >= room.seq THEN {}
    ELSE IF sinceSeq < room.coverageFloor THEN None
    ELSE OpsOf({b \in room.opLog : b.seq > sinceSeq})

\* snapshot: the list only.  Buffered operations are not in it.
snapshot(room) == Integrated(room.ops)

\* applyOps: the room adopts the batch's seq, whatever its own is.
applyOps(room, ops, seq) ==
    [room EXCEPT !.ops = @ \cup ops,
                 !.seq = seq,
                 !.opsSinceSnapshot = @ + Cardinality(ops),
                 !.opLog = @ \cup {[seq |-> seq, ops |-> ops]}]

\* advanceCoverageFloor: the log starts after the snapshot that was written, and
\* the count starts anew, whatever was applied while it was being written.
\* Mutants: the floor stays; the count is a difference.
advanceKeepFloor(room, atSeq) ==
    [room EXCEPT !.opLog = {b \in @ : b.seq > atSeq},
                 !.opsSinceSnapshot = 0]
advanceByDifference(room, atSeq) ==
    [room EXCEPT !.coverageFloor = atSeq,
                 !.opLog = {b \in @ : b.seq > atSeq},
                 !.opsSinceSnapshot = @ - atSeq]

advanceCoverageFloor(room, atSeq) ==
    [room EXCEPT !.coverageFloor = atSeq,
                 !.opLog = {b \in @ : b.seq > atSeq},
                 !.opsSinceSnapshot = 0]

joinRoom(room, c, socket) == [room EXCEPT !.sockets[c] = socket]

\* Mutant: a socket's close evicts whichever socket took over.
leaveAny(room, c, socket) == [room EXCEPT !.sockets[c] = None]

\* leave: only the socket that is registered is removed.
leaveRoom(room, c, socket) ==
    [room EXCEPT !.sockets[c] = IF @ = socket THEN None ELSE @]

isEmpty(room) == room.sockets = NoSockets
=============================================================================
