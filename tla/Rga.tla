-------------------------------- MODULE Rga --------------------------------
(***************************************************************************)
(* The sequence CRDT of packages/crdt: a set of replicas, each holding one *)
(* Rga object (rga.ts), that exchange operations over a network which may  *)
(* delay, reorder, duplicate and lose them.                                *)
(*                                                                         *)
(* Editors are the browsers' replicas: only they produce operations        *)
(* (localInsert, localDelete, localFormat).  Servers are the rooms'        *)
(* replicas: they apply operations and compact their tombstones.  Any      *)
(* replica may be rebuilt from a snapshot (toSnapshot, then fromSnapshot). *)
(*                                                                         *)
(* Abstractions.  A replica id is a natural number ordered like the        *)
(* strings of the code.  The characters typed are all different: the value *)
(* of an insert is its own id.  The linked list (head, next) of a replica  *)
(* is the sequence of its node ids.  apply() runs to completion in the     *)
(* code, so while one replica works through its queue no other step is     *)
(* taken (Idle); one iteration of its loop is one step.                    *)
(***************************************************************************)
EXTENDS Integers, Sequences, FiniteSets

CONSTANTS
    Editors,        \* replica ids of the clients
    Servers,        \* replica ids of the server rooms
    Marks,          \* formatting marks, such as bold
    Null,           \* JavaScript's null and undefined
    MaxOps,         \* bound: how many different operations are produced
    MaxBuffered,    \* bound: duplicates are not delivered to a replica that
                    \* already buffers this many operations on one id
    MaxReloads      \* bound: how many times a replica is rebuilt

Replicas == Editors \cup Servers

\* An operation's id, with the counter as the primary sort key.
OpId == [counter : Nat, replicaId : Replicas]

InsertOp == [type : {"insert"}, id : OpId, originId : OpId \cup {Null},
             value : OpId, attrs : SUBSET Marks]
DeleteOp == [type : {"delete"}, targetId : OpId]
FormatOp == [type : {"format"}, id : OpId, targetId : OpId, mark : Marks,
             value : {TRUE, Null}]
Op == InsertOp \cup DeleteOp \cup FormatOp

\* A list node without its next pointer.  formatClock has an entry for each
\* mark that some format operation has decided.
Node == [originId : OpId \cup {Null}, value : OpId \cup {Null},
         tombstone : BOOLEAN, attrs : SUBSET Marks,
         formatClock : [Marks -> OpId \cup {Null}]]

ASSUME ReplicasAssumption == Editors \subseteq Nat /\ Servers \subseteq Nat
ASSUME DisjointAssumption == Editors \cap Servers = {}
ASSUME NullAssumption == Null \notin OpId /\ Null # TRUE
ASSUME MarksAssumption == IsFiniteSet(Marks)
ASSUME BoundsAssumption ==
    MaxOps \in Nat /\ MaxBuffered \in Nat /\ MaxReloads \in Nat

VARIABLES
    list,       \* list[r]: the ids of r's nodes from head to tail
    nodesById,  \* nodesById[r]: r's nodes, by id
    pending,    \* pending[r]: the operations r buffers, by the id they await
    counter,    \* counter[r]: the counter of the last id r issued or saw
    queue,      \* queue[r]: the local queue of the apply() r is running
    ops,        \* every operation ever produced: the network's content
    seen,       \* seen[r]: the operations r's state stands for (history)
    reloads     \* how many times a replica was rebuilt

vars == <<list, nodesById, pending, counter, queue, ops, seen, reloads>>

-----------------------------------------------------------------------------
(* Helpers on ids, nodes and buffers *)

\* Mutant: the replica id does not break the tie of two counters.
compareCounters(a, b) == a.counter - b.counter
\* Negative, zero or positive as a is less than, equal to or greater than b.
compareOpId(a, b) ==
    IF a.counter # b.counter THEN a.counter - b.counter
    ELSE IF a.replicaId = b.replicaId THEN 0
    ELSE IF a.replicaId < b.replicaId THEN -1 ELSE 1

\* The id an operation cannot be applied without; Null if there is none.
dependencyOf(op) == IF op.type = "insert" THEN op.originId ELSE op.targetId

EmptyMap == [k \in {} |-> Null]
NoClock == [m \in Marks |-> Null]

\* Mutant: a counter that does not catch up with the ids of others.
KeepFirst(a, b) == a
MaxNat(a, b) == IF a >= b THEN a ELSE b

\* bufferOn: op waits at the end of key's queue in the buffer p.
bufferOn(p, key, op) ==
    [k \in DOMAIN p \cup {key} |->
        IF k # key THEN p[k]
        ELSE IF key \in DOMAIN p THEN Append(p[key], op) ELSE <<op>>]

\* Mutant: what waited is forgotten.
takeNothing(p, key) == <<>>
\* takeBuffered: the operations that wait on key, and the buffer without them.
takeBuffered(p, key) == IF key \in DOMAIN p THEN p[key] ELSE <<>>
withoutBuffered(p, key) == [k \in DOMAIN p \ {key} |-> p[k]]

\* The place (1 for the head) the scan of integrate finds for id: the first
\* one right of the anchor whose present occupant is not greater than id.
anchorIndex(s, anchor) ==
    IF anchor = Null THEN 0 ELSE CHOOSE k \in DOMAIN s : s[k] = anchor
\* Mutant: no scan; the node goes right behind its anchor.
noScan(s, anchor, id) == anchorIndex(s, anchor) + 1
scanStop(s, anchor, id) ==
    CHOOSE p \in (anchorIndex(s, anchor) + 1)..(Len(s) + 1) :
        /\ p <= Len(s) => compareOpId(s[p], id) <= 0
        /\ \A k \in (anchorIndex(s, anchor) + 1)..(p - 1) :
               compareOpId(s[k], id) > 0

\* The sequence s with id linked in at place p.
linkAt(s, p, id) ==
    [k \in 1..(Len(s) + 1) |->
        IF k < p THEN s[k] ELSE IF k = p THEN id ELSE s[k - 1]]

newNode(op) ==
    [originId |-> op.originId, value |-> op.value, tombstone |-> FALSE,
     attrs |-> op.attrs, formatClock |-> NoClock]

withNode(nodes, id, node) ==
    [k \in DOMAIN nodes \cup {id} |-> IF k = id THEN node ELSE nodes[k]]

\* integrate: replica r links a node for op in after anchor.
integrate(r, anchor, op) ==
    /\ list' = [list EXCEPT ![r] =
                  linkAt(@, scanStop(@, anchor, op.id), op.id)]
    /\ nodesById' = [nodesById EXCEPT ![r] = withNode(@, op.id, newNode(op))]

\* Mutant: the last format operation to arrive wins.
lastArrived(node, op) == TRUE
\* applyFormatOp for operations on one node with a mark each: the operation
\* takes over its mark if none with an id as great decided it before.
decides(node, op) ==
    LET decidedBy == node.formatClock[op.mark] IN
    decidedBy = Null \/ compareOpId(decidedBy, op.id) < 0
applyFormatOps(node, fops) ==
    LET won == {op \in fops : decides(node, op)}
        winner(m) == CHOOSE op \in won : op.mark = m
        decided == {op.mark : op \in won}
        on == {m \in decided : winner(m).value = TRUE}
    IN  [node EXCEPT !.attrs = (@ \ decided) \cup on,
                     !.formatClock = [m \in Marks |->
                         IF m \in decided THEN winner(m).id ELSE @[m]]]

\* The node at a position of the visible text, counted from 0; Null if the
\* text is shorter.
findNodeAtPosition(r, position) ==
    LET live == {k \in DOMAIN list[r] : ~nodesById[r][list[r][k]].tombstone}
        at == {k \in live : Cardinality({j \in live : j < k}) = position}
    IN  IF at = {} THEN Null ELSE list[r][CHOOSE k \in at : TRUE]

\* nextId: the id that r issues next.
nextId(r) == [counter |-> counter[r] + 1, replicaId |-> r]

\* The nodes of cells in the order of the ids in s.
inOrder(s, cells) ==
    LET shown == SelectSeq(s, LAMBDA id : id \in DOMAIN cells)
    IN  [k \in DOMAIN shown |-> cells[shown[k]]]
\* read and getContentsForEditor: the visible characters and their marks.
contents(r) ==
    LET nodes == nodesById[r]
        visible == {id \in DOMAIN nodes : ~nodes[id].tombstone
                                         /\ nodes[id].value # Null}
    IN  inOrder(list[r], [id \in visible |-> [insert |-> nodes[id].value,
                                             attributes |-> nodes[id].attrs]])

\* The operations of seen[r] that r only buffers.
buffered(r) ==
    UNION {{pending[r][k][i] : i \in DOMAIN pending[r][k]} :
             k \in DOMAIN pending[r]}

Idle == \A r \in Replicas : queue[r] = <<>>

-----------------------------------------------------------------------------
Init ==
    /\ list = [r \in Replicas |-> <<>>]
    /\ nodesById = [r \in Replicas |-> EmptyMap]
    /\ pending = [r \in Replicas |-> EmptyMap]
    /\ counter = [r \in Replicas |-> 0]
    /\ queue = [r \in Replicas |-> <<>>]
    /\ ops = {}
    /\ seen = [r \in Replicas |-> {}]
    /\ reloads = 0

Produce(r, produced) ==
    /\ ops' = ops \cup produced
    /\ Cardinality(ops') <= MaxOps
    /\ seen' = [seen EXCEPT ![r] = @ \cup produced]

\* localInsert: a character typed at index of the visible text.
LocalInsert(r, index, attrs) ==
    LET anchor == findNodeAtPosition(r, index - 1)
        op == [type |-> "insert", id |-> nextId(r), originId |-> anchor,
               value |-> nextId(r), attrs |-> attrs]
    IN  /\ Idle
        /\ Produce(r, {op})
        /\ integrate(r, anchor, op)
        /\ counter' = [counter EXCEPT ![r] = @ + 1]
        /\ UNCHANGED <<pending, queue, reloads>>

\* localDelete: it throws, and changes nothing, when there is no character.
LocalDelete(r, index) ==
    LET target == findNodeAtPosition(r, index) IN
    /\ Idle
    /\ target # Null
    /\ Produce(r, {[type |-> "delete", targetId |-> target]})
    /\ nodesById' = [nodesById EXCEPT ![r][target].tombstone = TRUE]
    /\ UNCHANGED <<list, pending, counter, queue, reloads>>

\* localFormat: patch is the sequence of marks to set or clear on up to length
\* characters from index start on.  Its loops issue one operation for each
\* character and mark, and break where the text ends.
charsReached(r, start, length) ==
    CHOOSE n \in 0..length :
        /\ n < length => findNodeAtPosition(r, start + n) = Null
        /\ \A i \in 0..(n - 1) : findNodeAtPosition(r, start + i) # Null

formatOps(r, start, chars, patch) ==
    LET op(i, j) == [type |-> "format",
                     id |-> [counter |-> counter[r] + i * Len(patch) + j,
                             replicaId |-> r],
                     targetId |-> findNodeAtPosition(r, start + i),
                     mark |-> patch[j].mark, value |-> patch[j].value]
    IN  {op(i, j) : i \in 0..(chars - 1), j \in 1..Len(patch)}

LocalFormat(r, start, length, patch) ==
    LET chars == charsReached(r, start, length)
        fops == formatOps(r, start, chars, patch)
    IN  /\ Idle
        /\ chars > 0
        /\ Produce(r, fops)
        /\ nodesById' = [nodesById EXCEPT ![r] =
             [id \in DOMAIN @ |->
                applyFormatOps(@[id], {op \in fops : op.targetId = id})]]
        /\ counter' = [counter EXCEPT ![r] = @ + chars * Len(patch)]
        /\ UNCHANGED <<list, pending, queue, reloads>>

\* The call apply(op) on an operation from the network, which keeps it: any
\* operation may arrive at any time, again and again, or not at all.
Receive(r, op) ==
    /\ Idle
    /\ op \in seen[r] => \A k \in DOMAIN pending[r] :
                            Len(pending[r][k]) < MaxBuffered
    /\ queue' = [queue EXCEPT ![r] = <<op>>]
    /\ seen' = [seen EXCEPT ![r] = @ \cup {op}]
    /\ UNCHANGED <<list, nodesById, pending, counter, ops, reloads>>

\* The first operation of r's queue is of this type and not applicable yet, or
\* applicable.
Current(r, type) == queue[r] # <<>> /\ Head(queue[r]).type = type
Missing(r, op) ==
    dependencyOf(op) # Null /\ dependencyOf(op) \notin DOMAIN nodesById[r]

\* apply: an insert that was applied before.
SkipApplied(r) ==
    /\ Current(r, "insert")
    /\ Head(queue[r]).id \in DOMAIN nodesById[r]
    /\ queue' = [queue EXCEPT ![r] = Tail(@)]
    /\ UNCHANGED <<list, nodesById, pending, counter, ops, seen, reloads>>

\* apply: an operation whose origin or target is not here yet.
Buffer(r) ==
    LET op == Head(queue[r]) IN
    /\ queue[r] # <<>>
    /\ op.type = "insert" => op.id \notin DOMAIN nodesById[r]
    /\ Missing(r, op)
    /\ pending' = [pending EXCEPT ![r] = bufferOn(@, dependencyOf(op), op)]
    /\ queue' = [queue EXCEPT ![r] = Tail(@)]
    /\ UNCHANGED <<list, nodesById, counter, ops, seen, reloads>>

\* apply: an insert whose origin is here.  What waited for it joins the queue.
ApplyInsert(r) ==
    LET op == Head(queue[r]) IN
    /\ Current(r, "insert")
    /\ op.id \notin DOMAIN nodesById[r]
    /\ ~Missing(r, op)
    /\ integrate(r, op.originId, op)
    /\ counter' = [counter EXCEPT ![r] = MaxNat(@, op.id.counter)]
    /\ queue' = [queue EXCEPT ![r] = Tail(@) \o takeBuffered(pending[r], op.id)]
    /\ pending' = [pending EXCEPT ![r] = withoutBuffered(@, op.id)]
    /\ UNCHANGED <<ops, seen, reloads>>

\* apply: a delete whose target is here.
ApplyDelete(r) ==
    LET op == Head(queue[r]) IN
    /\ Current(r, "delete")
    /\ ~Missing(r, op)
    /\ nodesById' = [nodesById EXCEPT ![r][op.targetId].tombstone = TRUE]
    /\ queue' = [queue EXCEPT ![r] = Tail(@)]
    /\ UNCHANGED <<list, pending, counter, ops, seen, reloads>>

\* apply: a format operation whose target is here.
ApplyFormat(r) ==
    LET op == Head(queue[r]) IN
    /\ Current(r, "format")
    /\ ~Missing(r, op)
    /\ nodesById' = [nodesById EXCEPT ![r][op.targetId] = applyFormatOps(@, {op})]
    /\ counter' = [counter EXCEPT ![r] = MaxNat(@, op.id.counter)]
    /\ queue' = [queue EXCEPT ![r] = Tail(@)]
    /\ UNCHANGED <<list, pending, ops, seen, reloads>>

ApplyStep(r) ==
    \/ SkipApplied(r)
    \/ Buffer(r)
    \/ ApplyInsert(r)
    \/ ApplyDelete(r)
    \/ ApplyFormat(r)

\* compactTombstones: tombstones keep their id and origin only.
compacted(node) ==
    IF node.tombstone
    THEN [node EXCEPT !.value = Null, !.attrs = {}, !.formatClock = NoClock]
    ELSE node

CompactTombstones(r) ==
    /\ Idle
    /\ nodesById' = [nodesById EXCEPT ![r] =
                       [id \in DOMAIN @ |-> compacted(@[id])]]
    /\ UNCHANGED <<list, pending, counter, queue, ops, seen, reloads>>

\* Mutants: the counter forgets deleted nodes, or the format clocks.
idsOfLive(nodes) == {id \in DOMAIN nodes : ~nodes[id].tombstone}
idsOfNodes(nodes) == DOMAIN nodes
\* fromSnapshot seeds the counter from the node ids and the format clocks.
idsOf(nodes) ==
    DOMAIN nodes \cup
    ({nodes[id].formatClock[m] : id \in DOMAIN nodes, m \in Marks} \ {Null})
\* Mutant: the counter of an empty snapshot is -1.
maxFromBelow(ids) ==
    IF ids = {} THEN -1
    ELSE CHOOSE c \in {id.counter : id \in ids} :
            \A id \in ids : id.counter <= c
maxCounter(ids) ==
    IF ids = {} THEN 0
    ELSE CHOOSE c \in {id.counter : id \in ids} :
            \A id \in ids : id.counter <= c

\* toSnapshot on s and fromSnapshot on r: r is rebuilt from its own saved state
\* (s = r) or from another replica's.  Buffered operations are not part of a
\* snapshot.  A client adopts a snapshot of the server only with its own
\* operations on top: here, those are in the snapshot already.
Reload(r, s) ==
    /\ Idle
    /\ reloads < MaxReloads
    /\ \A op \in ops : op.type # "delete" /\ op.id.replicaId = r
                          => op \in seen[s] \ buffered(s)
    /\ list' = [list EXCEPT ![r] = list[s]]
    /\ nodesById' = [nodesById EXCEPT ![r] = nodesById[s]]
    /\ pending' = [pending EXCEPT ![r] = EmptyMap]
    /\ counter' = [counter EXCEPT ![r] = maxCounter(idsOf(nodesById[s]))]
    /\ seen' = [seen EXCEPT ![r] = seen[s] \ buffered(s)]
    /\ reloads' = reloads + 1
    /\ UNCHANGED <<queue, ops>>

\* The patches Quill can ask for: no mark twice, in any order.
Patches ==
    {p \in UNION {[1..n -> [mark : Marks, value : {TRUE, Null}]] :
                     n \in 1..Cardinality(Marks)} :
        \A i, j \in DOMAIN p : p[i].mark = p[j].mark => i = j}

Edit(r) ==
    \E index \in 0..Len(list[r]) :
        \/ /\ index <= Len(contents(r))
           /\ \E attrs \in SUBSET Marks : LocalInsert(r, index, attrs)
        \/ LocalDelete(r, index)
        \/ \E length \in 1..Len(list[r]), patch \in Patches :
               LocalFormat(r, index, length, patch)

Next ==
    \/ \E r \in Editors : Edit(r)
    \/ \E r \in Replicas, op \in ops : Receive(r, op)
    \/ \E r \in Replicas : ApplyStep(r)
    \/ \E r \in Servers : CompactTombstones(r)
    \/ \E r \in Replicas : \E s \in {r} \cup Servers : Reload(r, s)

Spec == Init /\ [][Next]_vars

\* apply() never stops half way, and an operation that a replica lacks is sent
\* to it in the end: by a broadcast, a fan-out, a sync or an outbox flush.
\* The delivery is strongly fair because Idle, which interrupts it, is only
\* the model's way to keep apply() in one piece.
Fairness ==
    \A r \in Replicas :
        /\ WF_vars(ApplyStep(r))
        /\ SF_vars(\E op \in ops \ seen[r] : Receive(r, op))

FairSpec == Spec /\ Fairness

-----------------------------------------------------------------------------
(* Properties *)

TypeOK ==
    /\ list \in [Replicas -> Seq(OpId)]
    /\ \A r \in Replicas :
         /\ DOMAIN nodesById[r] \subseteq OpId
         /\ nodesById[r] \in [DOMAIN nodesById[r] -> Node]
         /\ DOMAIN pending[r] \subseteq OpId
         /\ pending[r] \in [DOMAIN pending[r] -> Seq(ops)]
    /\ DOMAIN nodesById = Replicas
    /\ DOMAIN pending = Replicas
    /\ counter \in [Replicas -> Nat]
    /\ queue \in [Replicas -> Seq(ops)]
    /\ ops \subseteq Op
    /\ seen \in [Replicas -> SUBSET ops]
    /\ reloads \in Nat

\* Places of the list that hold x before y.
Before(s, x, y) == \E i, j \in DOMAIN s : i < j /\ s[i] = x /\ s[j] = y

\* Place k of s stands right of origin, or of the head if that is Null, and
\* only nodes with greater ids stand between the two.
AfterOrigin(s, k, origin) ==
    \E j \in 0..(k - 1) :
        /\ IF j = 0 THEN origin = Null ELSE s[j] = origin
        /\ \A i \in (j + 1)..(k - 1) : compareOpId(s[i], s[k]) > 0

\* The rule the scan of integrate maintains: every node stands right of its
\* origin with only greater ids in between, in whatever order inserts arrive.
OriginRule ==
    \A r \in Replicas : \A k \in DOMAIN list[r] :
        AfterOrigin(list[r], k, nodesById[r][list[r][k]].originId)

\* Any two characters that two replicas both hold, deleted or not, stand in
\* the same order at both, whatever else either has received and in whatever
\* order apply() got it.
SameOrder ==
    \A r, s \in Replicas : \A x, y \in DOMAIN nodesById[r] :
        Before(list[r], x, y) /\ {x, y} \subseteq DOMAIN nodesById[s]
            => Before(list[s], x, y)

\* Two replicas that stand for the same operations show the same text with the
\* same formatting, compacted or not, rebuilt from a snapshot or not.
Convergence ==
    Idle => \A r, s \in Replicas :
        seen[r] = seen[s] => list[r] = list[s] /\ contents(r) = contents(s)

\* Between two calls, an operation a replica was given is either in effect or
\* buffered on an id that is really missing: takeBuffered forgets none, and
\* neither compaction nor a rebuild undoes one.
InEffect(nodes, op) ==
    /\ op.type = "insert" => op.id \in DOMAIN nodes
    /\ op.type # "insert" => op.targetId \in DOMAIN nodes
    /\ op.type = "delete" => nodes[op.targetId].tombstone
    /\ op.type = "format" => \/ nodes[op.targetId].tombstone
                             \/ ~decides(nodes[op.targetId], op)
NoLostOps ==
    Idle => \A r \in Replicas :
        /\ \A op \in seen[r] : InEffect(nodesById[r], op) \/ op \in buffered(r)
        /\ \A op \in buffered(r) : Missing(r, op)

\* No two inserts share an id.
UniqueInsertIds ==
    \A a, b \in ops :
        a.type = "insert" /\ b.type = "insert" /\ a.id = b.id => a = b

\* An insert's id is never issued again: the counter that fromSnapshot seeds
\* does not fall behind any character the replica has typed, even when that
\* character was deleted and compacted in the meantime.
InsertIdsFresh ==
    /\ UniqueInsertIds
    /\ \A r \in Editors : \A op \in ops :
          op.type = "insert" => op.id # nextId(r)

\* What opId.ts says of every id: no two operations that carry one share it.
UniqueOpIds ==
    \A a, b \in ops :
        a.type # "delete" /\ b.type # "delete" /\ a.id = b.id => a = b

\* What the user does is what the user sees: the character lands at the index
\* it was typed at, the one at the index disappears, the range shows the patch,
\* and nothing else of the visible text changes.  (An edit, unlike a step of
\* apply, leaves the queues alone.)
AsTyped ==
    \A r \in Editors : \A index \in 0..Len(contents(r)) :
        LET before == contents(r)
            after == contents(r)'
        IN
        /\ \A attrs \in SUBSET Marks : LocalInsert(r, index, attrs) =>
             after = linkAt(before, index + 1,
                            [insert |-> nextId(r), attributes |-> attrs])
        /\ LocalDelete(r, index) =>
             /\ index < Len(before)
             /\ before = linkAt(after, index + 1, before[index + 1])
        /\ \A length \in 1..Len(list[r]), patch \in Patches :
             LocalFormat(r, index, length, patch) =>
               /\ DOMAIN after = DOMAIN before
               /\ \A k \in DOMAIN before :
                    /\ after[k].insert = before[k].insert
                    /\ \A m \in Marks :
                         (m \in after[k].attributes) =
                           IF /\ k \in (index + 1)..(index + length)
                              /\ \E j \in DOMAIN patch : patch[j].mark = m
                           THEN \E j \in DOMAIN patch :
                                  patch[j].mark = m /\ patch[j].value = TRUE
                           ELSE m \in before[k].attributes
EditsAsTyped == [][queue' = queue => AsTyped]_vars

\* The inductive strengthening behind OriginRule, UniqueInsertIds and SameOrder.
\* The counter of a replica is not behind any id it holds.
CounterDominates ==
    \A r \in Replicas : \A id \in idsOf(nodesById[r]) : id.counter <= counter[r]
\* The list links every node of nodesById once.
ListHoldsNodes ==
    \A r \in Replicas :
        /\ {list[r][k] : k \in DOMAIN list[r]} = DOMAIN nodesById[r]
        /\ \A j, k \in DOMAIN list[r] : list[r][j] = list[r][k] => j = k
\* A node has the origin its insert was sent with.
NodesFromInserts ==
    \A r \in Replicas : \A id \in DOMAIN nodesById[r] :
        \E op \in ops : /\ op.type = "insert" /\ op.id = id
                        /\ op.originId = nodesById[r][id].originId
\* An operation refers to an earlier insert; an insert's id is greater than the
\* one it refers to and not beyond its author's counter.
CausalOps ==
    \A op \in ops :
        /\ dependencyOf(op) # Null =>
             \E b \in ops : b.type = "insert" /\ b.id = dependencyOf(op)
        /\ op.type = "insert" =>
             /\ op.originId # Null => op.originId.counter < op.id.counter
             /\ op.id.counter <= counter[op.id.replicaId]
\* An insert a replica was given is in its list, its buffer or its queue, and
\* what it buffers waits for an id it lacks.
InsertsKept ==
    \A r \in Replicas :
        /\ \A op \in seen[r] : op.type = "insert" =>
             \/ op.id \in DOMAIN nodesById[r]
             \/ op \in buffered(r)
             \/ \E i \in DOMAIN queue[r] : queue[r][i] = op
        /\ \A k \in DOMAIN pending[r] :
             /\ k \notin DOMAIN nodesById[r]
             /\ pending[r][k] # <<>>
             /\ \A i \in DOMAIN pending[r][k] :
                    dependencyOf(pending[r][k][i]) = k
IInv ==
    /\ TypeOK
    /\ CounterDominates
    /\ ListHoldsNodes
    /\ NodesFromInserts
    /\ CausalOps
    /\ InsertsKept
    /\ UniqueInsertIds
    /\ OriginRule

\* The strengthening behind NoLostOps and Convergence, on top of IInv.
\* An operation a replica was given is in effect, or waits in its buffer or in
\* its queue; what waits was given to it.
OpsKept ==
    \A r \in Replicas :
        /\ \A op \in seen[r] : \/ InEffect(nodesById[r], op)
                              \/ op \in buffered(r)
                              \/ \E i \in DOMAIN queue[r] : queue[r][i] = op
        /\ buffered(r) \subseteq seen[r]
        /\ \A i \in DOMAIN queue[r] : queue[r][i] \in seen[r]
\* A mark of the node is as its insert b gave it, or as the format operation
\* that its clock names set it.
MarkFrom(known, id, node, b, m) ==
    IF node.formatClock[m] = Null THEN m \in node.attrs <=> m \in b.attrs
    ELSE \E f \in known : /\ f.type = "format" /\ f.targetId = id /\ f.mark = m
                          /\ f.id = node.formatClock[m]
                          /\ (m \in node.attrs <=> f.value = TRUE)
\* All that a node shows comes from the operations known.
NodeFrom(known, id, node) ==
    /\ node.tombstone => \E d \in known : d.type = "delete" /\ d.targetId = id
    /\ \E b \in known :
         /\ b.type = "insert" /\ b.id = id
         /\ ~node.tombstone => /\ node.value = b.value
                               /\ \A m \in Marks : MarkFrom(known, id, node, b, m)
NodesFromSeen ==
    \A r \in Replicas : \A id \in DOMAIN nodesById[r] :
        NodeFrom(seen[r], id, nodesById[r][id])
\* Format ids may be issued again (UniqueOpIds fails), but never for one mark of
\* one character: a format operation's id is not beyond its author's counter,
\* unless its author holds the character deleted.
FormatIdsDecide ==
    \A f \in ops : f.type = "format" =>
        /\ \A g \in ops : g.type = "format" =>
             (g.id = f.id /\ g.targetId = f.targetId /\ g.mark = f.mark => g = f)
        /\ LET r == f.id.replicaId IN
           \/ f.id.counter <= counter[r]
           \/ /\ f.targetId \in DOMAIN nodesById[r]
              /\ nodesById[r][f.targetId].tombstone
\* What the replicas show comes from the operations they were given, and from all
\* of them that do not wait: the rest of the inductive invariant.
CInv == OpsKept /\ NodesFromSeen /\ FormatIdsDecide

\* Once editing stops and every operation gets through, all replicas hold the
\* same text for good and none buffers anything.
EventualConvergence ==
    <>[](\A r, s \in Replicas :
            contents(r) = contents(s) /\ pending[r] = EmptyMap)
=============================================================================
