--------------------------- MODULE RgaConvergence ---------------------------
(***************************************************************************)
(* No operation is lost and replicas converge: the properties NoLostOps    *)
(* and Convergence of Rga, for any number of replicas, marks, operations   *)
(* and rebuilds.  The inductive invariant is IInv, proved in RgaProofs,    *)
(* with CInv on top of it.                                                 *)
(***************************************************************************)
EXTENDS RgaProofs

\* A node that only lets more operations be in effect: a tombstone stays one,
\* and the clock of a mark, while the node is live, does not go back.
Grows(old, new) ==
    /\ old.tombstone => new.tombstone
    /\ new.tombstone \/ \A m \in Marks : old.formatClock[m] # Null =>
          /\ new.formatClock[m] # Null
          /\ compareOpId(new.formatClock[m], old.formatClock[m]) >= 0

\* The operations in a buffer p.
BufferedIn(p) == UNION {{p[k][i] : i \in DOMAIN p[k]} : k \in DOMAIN p}

\* Every node of every replica grows in a step.
NodesGrow ==
    \A q \in Replicas : \A id \in DOMAIN nodesById[q] :
        id \in DOMAIN nodesById'[q] /\ Grows(nodesById[q][id], nodesById'[q][id])

-----------------------------------------------------------------------------
(* Operators of the model *)

\* compareOpId orders ids: not being behind is transitive.
LEMMA CompareAtLeast ==
    ASSUME NEW a \in OpId, NEW b \in OpId, NEW c \in OpId,
           compareOpId(a, b) >= 0, compareOpId(b, c) >= 0
    PROVE  compareOpId(a, c) >= 0
<1>1. /\ a.counter \in Nat /\ a.replicaId \in Nat
      /\ b.counter \in Nat /\ b.replicaId \in Nat
      /\ c.counter \in Nat /\ c.replicaId \in Nat
  BY ReplicasAssumption DEF OpId, Replicas
<1> QED
  BY <1>1 DEF compareOpId

\* An id that is not behind another has at least its counter.
LEMMA CompareCounters ==
    ASSUME NEW a \in OpId, NEW b \in OpId, compareOpId(a, b) >= 0
    PROVE  b.counter <= a.counter
<1>1. a.counter \in Nat /\ b.counter \in Nat
  BY DEF OpId
<1> QED
  BY <1>1 DEF compareOpId

\* A format operation on a node is decided there when the clock of its mark is
\* not behind it.
LEMMA NotDecides ==
    ASSUME NEW node \in Node, NEW op \in FormatOp
    PROVE  ~decides(node, op) <=>
             /\ node.formatClock[op.mark] # Null
             /\ compareOpId(node.formatClock[op.mark], op.id) >= 0
<1>1. op.mark \in Marks /\ op.id \in OpId
  BY DEF FormatOp
<1>2. node.formatClock[op.mark] \in OpId \cup {Null}
  BY <1>1 DEF Node
<1>3. CASE node.formatClock[op.mark] = Null
  BY <1>3 DEF decides
<1>4. CASE node.formatClock[op.mark] # Null
  <2>1. compareOpId(node.formatClock[op.mark], op.id) \in Int
    BY <1>1, <1>2, <1>4, CompareTotal
  <2> QED
    BY <1>4, <2>1 DEF decides
<1> QED
  BY <1>3, <1>4

\* An operation in effect stays in effect while the nodes grow.
LEMMA EffectGrows ==
    ASSUME NEW old, old \in [DOMAIN old -> Node],
           NEW new, new \in [DOMAIN new -> Node],
           NEW op \in Op, InEffect(old, op),
           \A id \in DOMAIN old : id \in DOMAIN new /\ Grows(old[id], new[id])
    PROVE  InEffect(new, op)
<1>1. CASE op.type # "format"
  BY <1>1 DEF InEffect, Grows
<1>2. CASE op.type = "format"
  <2>1. op \in FormatOp
    BY <1>2 DEF Op, InsertOp, DeleteOp
  <2> DEFINE a == old[op.targetId]
             b == new[op.targetId]
  <2>2. /\ op.targetId \in DOMAIN old /\ op.targetId \in DOMAIN new
        /\ a.tombstone \/ ~decides(a, op)
        /\ Grows(a, b)
    BY <1>2 DEF InEffect
  <2>3. a \in Node /\ b \in Node
    BY <2>2
  <2> HIDE DEF a, b
  <2>4. ASSUME ~b.tombstone PROVE ~decides(b, op)
    <3>1. ~a.tombstone /\ ~decides(a, op)
      BY <2>2, <2>4 DEF Grows
    <3>2. /\ a.formatClock[op.mark] # Null
          /\ compareOpId(a.formatClock[op.mark], op.id) >= 0
      BY <2>1, <2>3, <3>1, NotDecides
    <3>3. op.mark \in Marks /\ op.id \in OpId
      BY <2>1 DEF FormatOp
    <3>4. /\ b.formatClock[op.mark] # Null
          /\ compareOpId(b.formatClock[op.mark], a.formatClock[op.mark]) >= 0
      BY <2>2, <2>4, <3>2, <3>3 DEF Grows
    <3>5. a.formatClock[op.mark] \in OpId /\ b.formatClock[op.mark] \in OpId
      BY <2>3, <3>2, <3>3, <3>4 DEF Node
    <3>6. compareOpId(b.formatClock[op.mark], op.id) >= 0
      BY <3>2, <3>3, <3>4, <3>5, CompareAtLeast
    <3> QED
      BY <2>1, <2>3, <3>4, <3>6, NotDecides
  <2> QED
    BY <1>2, <2>2, <2>4 DEF InEffect, a, b
<1> QED
  BY <1>1, <1>2

\* A node that does not change grows.
LEMMA SameGrows ==
    ASSUME NEW node \in Node
    PROVE  Grows(node, node)
<1> SUFFICES ASSUME NEW m \in Marks, node.formatClock[m] # Null
             PROVE  compareOpId(node.formatClock[m], node.formatClock[m]) >= 0
  BY DEF Grows
<1>1. node.formatClock[m] \in OpId
  BY DEF Node
<1> QED
  BY <1>1, CompareTotal

\* applyFormatOps on operations that each have a mark of their own: those that
\* decide their mark set it and its clock, and no other field changes.
LEMMA FormatApplied ==
    ASSUME NEW node \in Node, NEW fops \in SUBSET FormatOp,
           \A f, g \in fops : f.mark = g.mark => f = g
    PROVE  LET n == applyFormatOps(node, fops) IN
           /\ n \in Node
           /\ n.tombstone = node.tombstone /\ n.value = node.value
           /\ \A f \in fops : decides(node, f) =>
                /\ n.formatClock[f.mark] = f.id
                /\ f.mark \in n.attrs <=> f.value = TRUE
           /\ \A m \in Marks :
                (~\E f \in fops : f.mark = m /\ decides(node, f)) =>
                   /\ n.formatClock[m] = node.formatClock[m]
                   /\ m \in n.attrs <=> m \in node.attrs
<1> DEFINE won == {op \in fops : decides(node, op)}
           winner(m) == CHOOSE op \in won : op.mark = m
           decided == {op.mark : op \in won}
           on == {m \in decided : winner(m).value = TRUE}
           clock == [m \in Marks |->
                       IF m \in decided THEN winner(m).id
                       ELSE node.formatClock[m]]
           attrs == (node.attrs \ decided) \cup on
           n == [node EXCEPT !.attrs = attrs, !.formatClock = clock]
<1>1. applyFormatOps(node, fops) = n
  BY DEF applyFormatOps
<1>2. applyFormatOps(node, fops) \in Node
  BY FormattedType
<1>3. \A f \in fops : f.mark \in Marks
  BY DEF FormatOp
<1>4. ASSUME NEW f \in won PROVE winner(f.mark) = f
  <2>1. winner(f.mark) \in won /\ winner(f.mark).mark = f.mark
    OBVIOUS
  <2> HIDE DEF winner
  <2> QED
    BY <2>1
<1>5. ASSUME NEW f \in won
      PROVE  clock[f.mark] = f.id /\ (f.mark \in attrs <=> f.value = TRUE)
  <2>1. f.mark \in decided /\ f.mark \in Marks
    BY <1>3
  <2> HIDE DEF winner, decided, won
  <2> QED
    BY <1>4, <2>1
<1>6. ASSUME NEW m \in Marks, ~\E f \in fops : f.mark = m /\ decides(node, f)
      PROVE  /\ clock[m] = node.formatClock[m]
             /\ m \in attrs <=> m \in node.attrs
  <2>1. m \notin decided
    BY <1>6
  <2> HIDE DEF winner, decided, won
  <2> QED
    BY <2>1
<1> HIDE DEF attrs, clock
<1>7. /\ n.tombstone = node.tombstone /\ n.value = node.value
      /\ n.formatClock = clock /\ n.attrs = attrs
  BY DEF Node
<1> HIDE DEF n
<1> QED
  BY <1>1, <1>2, <1>5, <1>6, <1>7

\* Format operations make a node grow, and are in effect on it afterwards.
LEMMA FormatGrows ==
    ASSUME NEW node \in Node, NEW fops \in SUBSET FormatOp,
           \A f, g \in fops : f.mark = g.mark => f = g
    PROVE  LET n == applyFormatOps(node, fops) IN
           /\ Grows(node, n)
           /\ \A f \in fops : ~decides(n, f)
<1> DEFINE n == applyFormatOps(node, fops)
<1>1. /\ n \in Node
      /\ n.tombstone = node.tombstone
      /\ \A f \in fops : decides(node, f) => n.formatClock[f.mark] = f.id
      /\ \A m \in Marks :
           (~\E f \in fops : f.mark = m /\ decides(node, f)) =>
              n.formatClock[m] = node.formatClock[m]
  BY FormatApplied
<1> HIDE DEF n
<1>2. \A f \in fops : f \in FormatOp /\ f.mark \in Marks /\ f.id \in OpId
  BY DEF FormatOp
<1>3. \A id \in OpId : compareOpId(id, id) >= 0
  BY CompareTotal
<1>4. ASSUME NEW m \in Marks, node.formatClock[m] # Null
      PROVE  /\ n.formatClock[m] # Null
             /\ compareOpId(n.formatClock[m], node.formatClock[m]) >= 0
  <2>1. node.formatClock[m] \in OpId
    BY <1>4 DEF Node
  <2>2. CASE \E f \in fops : f.mark = m /\ decides(node, f)
    <3>1. PICK f \in fops : f.mark = m /\ decides(node, f)
      BY <2>2
    <3>2. n.formatClock[m] = f.id /\ f.id \in OpId
      BY <1>1, <1>2, <3>1
    <3>3. compareOpId(node.formatClock[m], f.id) < 0
      BY <1>4, <3>1 DEF decides
    <3>4. compareOpId(f.id, node.formatClock[m]) > 0
      BY <2>1, <3>2, <3>3, CompareTotal
    <3>5. compareOpId(f.id, node.formatClock[m]) \in Int
      BY <2>1, <3>2, CompareTotal
    <3> QED
      BY <3>2, <3>4, <3>5, NullAssumption
  <2>3. CASE ~\E f \in fops : f.mark = m /\ decides(node, f)
    BY <1>1, <1>3, <1>4, <2>1, <2>3
  <2> QED
    BY <2>2, <2>3
<1>5. ASSUME NEW f \in fops PROVE ~decides(n, f)
  <2>1. CASE decides(node, f)
    <3>1. n.formatClock[f.mark] = f.id /\ f.id \in OpId
      BY <1>1, <1>2, <2>1
    <3> QED
      BY <1>1, <1>2, <1>3, <3>1, NotDecides, NullAssumption
  <2>2. CASE ~decides(node, f)
    <3>1. ~\E g \in fops : g.mark = f.mark /\ decides(node, g)
      BY <2>2
    <3>2. n.formatClock[f.mark] = node.formatClock[f.mark]
      BY <1>1, <1>2, <3>1
    <3> QED
      BY <2>2, <3>2 DEF decides
  <2> QED
    BY <2>1, <2>2
<1> QED
  BY <1>1, <1>4, <1>5 DEF Grows, n

\* A node that known operations explain is still explained when more are known.
LEMMA FromMore ==
    ASSUME NEW known, NEW more, known \subseteq more, NEW id, NEW node,
           NodeFrom(known, id, node)
    PROVE  NodeFrom(more, id, node)
<1>1. node.tombstone => \E d \in more : d.type = "delete" /\ d.targetId = id
  BY DEF NodeFrom
<1>2. PICK b \in known :
         /\ b.type = "insert" /\ b.id = id
         /\ ~node.tombstone => /\ node.value = b.value
                               /\ \A m \in Marks : MarkFrom(known, id, node, b, m)
  BY DEF NodeFrom
<1>3. ASSUME NEW m \in Marks, MarkFrom(known, id, node, b, m)
      PROVE  MarkFrom(more, id, node, b, m)
  BY <1>3 DEF MarkFrom
<1> QED
  BY <1>1, <1>2, <1>3 DEF NodeFrom

\* Format operations on a node come from what is known when they are known.
LEMMA FormatFrom ==
    ASSUME NEW known, NEW id, NEW node \in Node, NEW fops \in SUBSET FormatOp,
           \A f, g \in fops : f.mark = g.mark => f = g,
           NodeFrom(known, id, node), fops \subseteq known,
           \A f \in fops : f.targetId = id
    PROVE  NodeFrom(known, id, applyFormatOps(node, fops))
<1> DEFINE n == applyFormatOps(node, fops)
<1>1. /\ n.tombstone = node.tombstone /\ n.value = node.value
      /\ \A f \in fops : decides(node, f) =>
           /\ n.formatClock[f.mark] = f.id
           /\ f.mark \in n.attrs <=> f.value = TRUE
      /\ \A m \in Marks :
           (~\E f \in fops : f.mark = m /\ decides(node, f)) =>
              /\ n.formatClock[m] = node.formatClock[m]
              /\ m \in n.attrs <=> m \in node.attrs
  BY FormatApplied
<1> HIDE DEF n
<1>2. \A f \in fops : f.type = "format" /\ f.id # Null
  BY NullAssumption DEF FormatOp
<1>3. PICK b \in known :
         /\ b.type = "insert" /\ b.id = id
         /\ ~node.tombstone => /\ node.value = b.value
                               /\ \A m \in Marks : MarkFrom(known, id, node, b, m)
  BY DEF NodeFrom
<1>4. ASSUME NEW m \in Marks, MarkFrom(known, id, node, b, m)
      PROVE  MarkFrom(known, id, n, b, m)
  <2>1. CASE \E f \in fops : f.mark = m /\ decides(node, f)
    <3>1. PICK f \in fops : f.mark = m /\ decides(node, f)
      BY <2>1
    <3>2. /\ n.formatClock[m] = f.id /\ f.id # Null
          /\ m \in n.attrs <=> f.value = TRUE
      BY <1>1, <1>2, <3>1
    <3>3. f \in known /\ f.type = "format" /\ f.targetId = id /\ f.mark = m
      BY <1>2, <3>1
    <3> QED
      BY <3>2, <3>3 DEF MarkFrom
  <2>2. CASE ~\E f \in fops : f.mark = m /\ decides(node, f)
    <3>1. /\ n.formatClock[m] = node.formatClock[m]
          /\ m \in n.attrs <=> m \in node.attrs
      BY <1>1, <2>2
    <3> QED
      BY <1>4, <3>1 DEF MarkFrom
  <2> QED
    BY <2>1, <2>2
<1>5. n.tombstone => \E d \in known : d.type = "delete" /\ d.targetId = id
  BY <1>1 DEF NodeFrom
<1> QED
  BY <1>1, <1>3, <1>4, <1>5 DEF NodeFrom, n

\* A deleted node grows and comes from what is known when its delete is known.
LEMMA TombstoneFrom ==
    ASSUME NEW known, NEW id, NEW node \in Node, NodeFrom(known, id, node),
           NEW d \in known, d.type = "delete", d.targetId = id
    PROVE  LET n == [node EXCEPT !.tombstone = TRUE] IN
           Grows(node, n) /\ n.tombstone /\ NodeFrom(known, id, n)
<1> DEFINE n == [node EXCEPT !.tombstone = TRUE]
<1>1. n.tombstone
  BY DEF Node
<1> HIDE DEF n
<1>2. \E b \in known : b.type = "insert" /\ b.id = id
  BY DEF NodeFrom
<1> QED
  BY <1>1, <1>2 DEF Grows, NodeFrom, n

\* Compaction lets a node grow, and leaves it explained.
LEMMA CompactedFrom ==
    ASSUME NEW known, NEW id, NEW node \in Node, NodeFrom(known, id, node)
    PROVE  Grows(node, compacted(node)) /\ NodeFrom(known, id, compacted(node))
<1>1. CASE node.tombstone
  <2> DEFINE n == compacted(node)
  <2>1. n.tombstone
    BY <1>1 DEF compacted, Node
  <2> HIDE DEF n
  <2>2. /\ \E b \in known : b.type = "insert" /\ b.id = id
        /\ \E d \in known : d.type = "delete" /\ d.targetId = id
    BY <1>1 DEF NodeFrom
  <2> QED
    BY <2>1, <2>2 DEF Grows, NodeFrom, n
<1>2. CASE ~node.tombstone
  BY <1>2, SameGrows DEF compacted
<1> QED
  BY <1>1, <1>2

\* The node of an insert that is known comes from what is known.
LEMMA NewNodeFrom ==
    ASSUME NEW known, NEW op \in InsertOp, op \in known
    PROVE  NodeFrom(known, op.id, newNode(op))
<1> DEFINE n == newNode(op)
<1>1. /\ ~n.tombstone /\ n.value = op.value /\ n.attrs = op.attrs
      /\ \A m \in Marks : n.formatClock[m] = Null
  BY DEF newNode, NoClock
<1> HIDE DEF n
<1>2. op.type = "insert"
  BY DEF InsertOp
<1>3. \A m \in Marks : MarkFrom(known, op.id, n, op, m)
  BY <1>1 DEF MarkFrom
<1> QED
  BY <1>1, <1>2, <1>3 DEF NodeFrom, n

-----------------------------------------------------------------------------
(* What the conjuncts of CInv depend on *)

\* What is in effect at a replica stays in effect while its nodes grow.
LEMMA EffectKept ==
    ASSUME IInv, IInv', NodesGrow, NEW q \in Replicas, NEW op \in ops,
           InEffect(nodesById[q], op)
    PROVE  InEffect(nodesById'[q], op)
<1>1. /\ nodesById[q] \in [DOMAIN nodesById[q] -> Node]
      /\ nodesById'[q] \in [DOMAIN nodesById'[q] -> Node]
      /\ op \in Op
  BY DEF IInv, TypeOK
<1>2. \A id \in DOMAIN nodesById[q] :
         id \in DOMAIN nodesById'[q] /\ Grows(nodesById[q][id], nodesById'[q][id])
  BY DEF NodesGrow
<1> QED
  BY <1>1, <1>2, EffectGrows

\* The author of a format operation has issued its id or holds its target
\* deleted, while counters and nodes grow.
LEMMA IssuedKept ==
    ASSUME IInv, IInv', NodesGrow, FormatIdsDecide,
           \A q \in Replicas : counter[q] <= counter'[q],
           NEW f \in ops, f.type = "format"
    PROVE  LET r == f.id.replicaId IN
           \/ f.id.counter <= counter'[r]
           \/ /\ f.targetId \in DOMAIN nodesById'[r]
              /\ nodesById'[r][f.targetId].tombstone
<1> DEFINE r == f.id.replicaId
<1>1. f \in FormatOp
  BY DEF IInv, TypeOK, Op, InsertOp, DeleteOp
<1>2. r \in Replicas /\ f.id.counter \in Nat
  BY <1>1 DEF FormatOp, OpId
<1>3. counter[r] \in Nat /\ counter'[r] \in Nat /\ counter[r] <= counter'[r]
  BY <1>2 DEF IInv, TypeOK
<1>4. CASE f.id.counter <= counter[r]
  BY <1>2, <1>3, <1>4
<1>5. CASE f.targetId \in DOMAIN nodesById[r] /\ nodesById[r][f.targetId].tombstone
  BY <1>2, <1>5 DEF NodesGrow, Grows
<1> QED
  BY <1>4, <1>5 DEF FormatIdsDecide

\* Without new operations, format ids keep deciding.
LEMMA FormatIdsKept ==
    ASSUME IInv, IInv', NodesGrow, FormatIdsDecide, ops' = ops,
           \A q \in Replicas : counter[q] <= counter'[q]
    PROVE  FormatIdsDecide'
<1>1. \A f \in ops : f.type = "format" => \A g \in ops : g.type = "format" =>
         (g.id = f.id /\ g.targetId = f.targetId /\ g.mark = f.mark => g = f)
  BY DEF FormatIdsDecide
<1>2. \A f \in ops : f.type = "format" =>
        LET r == f.id.replicaId IN
           \/ f.id.counter <= counter'[r]
           \/ /\ f.targetId \in DOMAIN nodesById'[r]
              /\ nodesById'[r][f.targetId].tombstone
  BY IssuedKept
<1> QED
  BY <1>1, <1>2 DEF FormatIdsDecide

\* New operations that are in effect at once, with buffers and queues alone.
LEMMA ProducedKept ==
    ASSUME IInv, IInv', OpsKept, NodesGrow, pending' = pending, queue' = queue,
           \A q \in Replicas :
             /\ seen[q] \subseteq seen'[q]
             /\ \A op \in seen'[q] \ seen[q] : InEffect(nodesById'[q], op)
    PROVE  OpsKept'
<1>1. seen \in [Replicas -> SUBSET ops]
  BY DEF IInv, TypeOK
<1>2. \A q \in Replicas : buffered(q)' = buffered(q)
  BY DEF buffered
<1>3. ASSUME NEW q \in Replicas, NEW op \in seen'[q]
      PROVE  \/ InEffect(nodesById'[q], op)
             \/ op \in buffered(q)'
             \/ \E i \in DOMAIN queue'[q] : queue'[q][i] = op
  <2>1. CASE op \in seen[q]
    <3>1. op \in ops
      BY <1>1, <2>1
    <3>2. \/ InEffect(nodesById[q], op)
          \/ op \in buffered(q)
          \/ \E i \in DOMAIN queue[q] : queue[q][i] = op
      BY <2>1 DEF OpsKept
    <3>3. CASE InEffect(nodesById[q], op)
      BY <3>1, <3>3, EffectKept
    <3> QED
      BY <1>2, <3>2, <3>3
  <2>2. CASE op \notin seen[q]
    BY <2>2
  <2> QED
    BY <2>1, <2>2
<1>4. ASSUME NEW q \in Replicas
      PROVE  /\ buffered(q)' \subseteq seen'[q]
             /\ \A i \in DOMAIN queue'[q] : queue'[q][i] \in seen'[q]
  <2>1. /\ buffered(q) \subseteq seen[q]
        /\ \A i \in DOMAIN queue[q] : queue[q][i] \in seen[q]
    BY DEF OpsKept
  <2> QED
    BY <1>2, <2>1
<1> QED
  BY <1>3, <1>4 DEF OpsKept

\* The first operation of a queue, once in effect or buffered, is done with.
LEMMA HeadKept ==
    ASSUME IInv, IInv', OpsKept, NodesGrow, NEW r \in Replicas, queue[r] # <<>>,
           queue' = [queue EXCEPT ![r] = Tail(@)], seen' = seen, ops' = ops,
           \A q \in Replicas : /\ buffered(q) \subseteq buffered(q)'
                               /\ buffered(q)' \subseteq seen[q],
           \/ InEffect(nodesById'[r], Head(queue[r]))
           \/ Head(queue[r]) \in buffered(r)'
    PROVE  OpsKept'
<1>1. seen \in [Replicas -> SUBSET ops] /\ queue \in [Replicas -> Seq(ops)]
  BY DEF IInv, TypeOK
<1> DEFINE t == Tail(queue[r])
<1>2. /\ t \in Seq(ops)
      /\ \A i \in DOMAIN queue[r] : \/ queue[r][i] = Head(queue[r])
                                    \/ \E j \in DOMAIN t : t[j] = queue[r][i]
  BY <1>1, QueueTail
<1>3. \A i \in DOMAIN t : \E j \in DOMAIN queue[r] : t[i] = queue[r][j]
  <2> DEFINE s == queue[r]
  <2>1. s \in Seq(ops) /\ s # <<>>
    BY <1>1
  <2> HIDE DEF s
  <2>2. \A i \in DOMAIN Tail(s) : i + 1 \in DOMAIN s /\ Tail(s)[i] = s[i + 1]
    BY <2>1
  <2> QED
    BY <2>2 DEF s
<1> HIDE DEF t
<1>4. queue'[r] = t /\ \A q \in Replicas : q # r => queue'[q] = queue[q]
  BY <1>1 DEF t
<1>5. ASSUME NEW q \in Replicas, NEW op \in seen[q]
      PROVE  \/ InEffect(nodesById'[q], op)
             \/ op \in buffered(q)'
             \/ \E i \in DOMAIN queue'[q] : queue'[q][i] = op
  <2>1. op \in ops
    BY <1>1
  <2>2. \/ InEffect(nodesById[q], op)
        \/ op \in buffered(q)
        \/ \E i \in DOMAIN queue[q] : queue[q][i] = op
    BY DEF OpsKept
  <2>3. CASE InEffect(nodesById[q], op)
    BY <2>1, <2>3, EffectKept
  <2>4. CASE op \in buffered(q)
    BY <2>4
  <2>5. CASE \E i \in DOMAIN queue[q] : queue[q][i] = op
    <3>1. CASE q = r
      <4>1. CASE op = Head(queue[r])
        BY <3>1, <4>1
      <4>2. CASE op # Head(queue[r])
        <5>1. PICK i \in DOMAIN queue[r] : queue[r][i] = op
          BY <2>5, <3>1
        <5>2. \E j \in DOMAIN t : t[j] = op
          BY <1>2, <4>2, <5>1
        <5> QED
          BY <1>4, <3>1, <5>2
      <4> QED
        BY <4>1, <4>2
    <3>2. CASE q # r
      BY <1>4, <2>5, <3>2
    <3> QED
      BY <3>1, <3>2
  <2> QED
    BY <2>2, <2>3, <2>4, <2>5
<1>6. ASSUME NEW q \in Replicas, NEW i \in DOMAIN queue'[q]
      PROVE  queue'[q][i] \in seen[q]
  <2>1. \A j \in DOMAIN queue[q] : queue[q][j] \in seen[q]
    BY DEF OpsKept
  <2>2. CASE q = r
    BY <1>3, <1>4, <2>1, <2>2
  <2>3. CASE q # r
    BY <1>4, <2>1, <2>3
  <2> QED
    BY <2>2, <2>3
<1> QED
  BY <1>5, <1>6 DEF OpsKept

\* Nodes that no step touches grow.
LEMMA NodesStay ==
    ASSUME IInv, nodesById' = nodesById
    PROVE  NodesGrow
<1> SUFFICES ASSUME NEW q \in Replicas, NEW id \in DOMAIN nodesById[q]
             PROVE  Grows(nodesById[q][id], nodesById[q][id])
  BY DEF NodesGrow
<1>1. nodesById[q][id] \in Node
  BY DEF IInv, TypeOK
<1> QED
  BY <1>1, SameGrows

\* A step that rewrites the nodes of one replica, each grown and explained.
LEMMA RewriteGrows ==
    ASSUME IInv, IInv', NodesFromSeen, NEW r \in Replicas, NEW new,
           nodesById' = [nodesById EXCEPT ![r] = new],
           \A q \in Replicas : seen[q] \subseteq seen'[q],
           DOMAIN nodesById[r] \subseteq DOMAIN new,
           \A id \in DOMAIN nodesById[r] : Grows(nodesById[r][id], new[id]),
           \A id \in DOMAIN new : NodeFrom(seen'[r], id, new[id])
    PROVE  NodesGrow /\ NodesFromSeen'
<1>1. DOMAIN nodesById = Replicas
  BY DEF IInv, TypeOK
<1>2. nodesById'[r] = new /\ \A q \in Replicas : q # r => nodesById'[q] = nodesById[q]
  BY <1>1
<1>3. ASSUME NEW q \in Replicas, NEW id \in DOMAIN nodesById[q]
      PROVE  id \in DOMAIN nodesById'[q] /\ Grows(nodesById[q][id], nodesById'[q][id])
  <2>1. CASE q = r
    BY <1>2, <2>1
  <2>2. CASE q # r
    <3>1. nodesById[q][id] \in Node
      BY DEF IInv, TypeOK
    <3> QED
      BY <1>2, <2>2, <3>1, SameGrows
  <2> QED
    BY <2>1, <2>2
<1>4. ASSUME NEW q \in Replicas, NEW id \in DOMAIN nodesById'[q]
      PROVE  NodeFrom(seen'[q], id, nodesById'[q][id])
  <2>1. CASE q = r
    BY <1>2, <2>1
  <2>2. CASE q # r
    <3>1. NodeFrom(seen[q], id, nodesById[q][id])
      BY <1>2, <2>2 DEF NodesFromSeen
    <3> QED
      BY <1>2, <2>2, <3>1, FromMore
  <2> QED
    BY <2>1, <2>2
<1>5. NodesFromSeen'
  BY <1>4 DEF NodesFromSeen, NodeFrom, MarkFrom
<1> QED
  BY <1>3, <1>5 DEF NodesGrow

\* Nodes that no step touches stay explained by what was seen.
LEMMA NodesStayExplained ==
    ASSUME NodesFromSeen, nodesById' = nodesById,
           \A q \in Replicas : seen[q] \subseteq seen'[q]
    PROVE  NodesFromSeen'
<1> SUFFICES ASSUME NEW q \in Replicas, NEW id \in DOMAIN nodesById[q]
             PROVE  NodeFrom(seen'[q], id, nodesById[q][id])
  BY DEF NodesFromSeen, NodeFrom, MarkFrom
<1>1. NodeFrom(seen[q], id, nodesById[q][id])
  BY DEF NodesFromSeen
<1> QED
  BY <1>1, FromMore

-----------------------------------------------------------------------------
(* Every action keeps CInv *)

\* An operation that arrives is seen and queued.
LEMMA ReceiveConverges ==
    ASSUME IInv, IInv', CInv, NEW r \in Replicas, NEW op \in ops, Receive(r, op)
    PROVE  CInv'
<1>1. /\ UNCHANGED <<list, nodesById, pending, counter, ops, reloads>>
      /\ queue' = [queue EXCEPT ![r] = <<op>>]
      /\ seen' = [seen EXCEPT ![r] = @ \cup {op}]
      /\ \A q \in Replicas : queue[q] = <<>>
  BY DEF Receive, Idle
<1>2. /\ seen \in [Replicas -> SUBSET ops] /\ DOMAIN queue = Replicas
      /\ counter \in [Replicas -> Nat]
  BY DEF IInv, TypeOK
<1>3. /\ seen'[r] = seen[r] \cup {op} /\ queue'[r] = <<op>>
      /\ \A q \in Replicas : /\ seen[q] \subseteq seen'[q]
                             /\ q # r => seen'[q] = seen[q] /\ queue'[q] = queue[q]
  BY <1>1, <1>2
<1>4. NodesGrow
  BY <1>1, NodesStay
<1>5. NodesFromSeen'
  BY <1>1, <1>3, NodesStayExplained DEF CInv
<1>6. FormatIdsDecide'
  BY <1>1, <1>2, <1>4, FormatIdsKept DEF CInv
<1>7. \A q \in Replicas : buffered(q)' = buffered(q)
  BY <1>1 DEF buffered
<1>8. 1 \in DOMAIN <<op>> /\ <<op>>[1] = op /\ \A i \in DOMAIN <<op>> : <<op>>[i] = op
  OBVIOUS
<1>9. ASSUME NEW q \in Replicas
      PROVE  /\ \A b \in seen'[q] : \/ InEffect(nodesById'[q], b)
                                    \/ b \in buffered(q)'
                                    \/ \E i \in DOMAIN queue'[q] : queue'[q][i] = b
             /\ buffered(q)' \subseteq seen'[q]
             /\ \A i \in DOMAIN queue'[q] : queue'[q][i] \in seen'[q]
  <2>1. /\ \A b \in seen[q] : InEffect(nodesById[q], b) \/ b \in buffered(q)
        /\ buffered(q) \subseteq seen[q]
    BY <1>1 DEF CInv, OpsKept
  <2>2. CASE q = r
    BY <1>1, <1>3, <1>7, <1>8, <2>1, <2>2
  <2>3. CASE q # r
    BY <1>1, <1>3, <1>7, <2>1, <2>3
  <2> QED
    BY <2>2, <2>3
<1>10. OpsKept'
  BY <1>9 DEF OpsKept
<1> QED
  BY <1>5, <1>6, <1>10 DEF CInv

\* An insert that was applied before is in effect.
LEMMA SkipAppliedConverges ==
    ASSUME IInv, IInv', CInv, NEW r \in Replicas, SkipApplied(r)
    PROVE  CInv'
<1>1. /\ UNCHANGED <<list, nodesById, pending, counter, ops, seen, reloads>>
      /\ queue[r] # <<>> /\ queue' = [queue EXCEPT ![r] = Tail(@)]
      /\ Head(queue[r]).type = "insert"
      /\ Head(queue[r]).id \in DOMAIN nodesById[r]
  BY DEF SkipApplied, Current
<1>2. NodesGrow
  BY <1>1, NodesStay
<1>3. NodesFromSeen'
  BY <1>1, NodesStayExplained DEF CInv
<1>4. FormatIdsDecide'
  <2>1. counter \in [Replicas -> Nat]
    BY DEF IInv, TypeOK
  <2> QED
    BY <1>1, <1>2, <2>1, FormatIdsKept DEF CInv
<1>5. \A q \in Replicas : /\ buffered(q) \subseteq buffered(q)'
                          /\ buffered(q)' \subseteq seen[q]
  BY <1>1 DEF buffered, CInv, OpsKept
<1>6. InEffect(nodesById'[r], Head(queue[r]))
  BY <1>1 DEF InEffect
<1>7. OpsKept'
  BY <1>1, <1>2, <1>5, <1>6, HeadKept DEF CInv
<1> QED
  BY <1>3, <1>4, <1>7 DEF CInv

\* What bufferOn does to what is buffered: op joins it.
LEMMA BufferedAfter ==
    ASSUME NEW p, p \in [DOMAIN p -> Seq(ops)], NEW key, NEW op \in ops
    PROVE  BufferedIn(bufferOn(p, key, op)) = BufferedIn(p) \cup {op}
<1> DEFINE n == bufferOn(p, key, op)
<1>1. /\ DOMAIN n = DOMAIN p \cup {key}
      /\ \A k \in DOMAIN p : k # key => n[k] = p[k]
      /\ key \in DOMAIN p => n[key] = Append(p[key], op)
      /\ key \notin DOMAIN p => n[key] = <<op>>
  BY DEF bufferOn
<1> HIDE DEF n
<1>2. ASSUME NEW x
      PROVE  (\E k \in DOMAIN n : \E i \in DOMAIN n[k] : n[k][i] = x) <=>
             \/ \E k \in DOMAIN p : \E i \in DOMAIN p[k] : p[k][i] = x
             \/ x = op
  <2>1. CASE key \in DOMAIN p
    <3> DEFINE s == p[key]
    <3>1. s \in Seq(ops)
      BY <2>1
    <3> HIDE DEF s
    <3>2. /\ DOMAIN Append(s, op) = DOMAIN s \cup {Len(s) + 1}
          /\ Append(s, op)[Len(s) + 1] = op
          /\ \A i \in DOMAIN s : Append(s, op)[i] = s[i]
      BY <3>1
    <3>3. (\E i \in DOMAIN n[key] : n[key][i] = x) <=>
          \/ \E i \in DOMAIN p[key] : p[key][i] = x
          \/ x = op
      BY <1>1, <2>1, <3>2 DEF s
    <3> QED
      BY <1>1, <2>1, <3>3
  <2>2. CASE key \notin DOMAIN p
    <3>1. (\E i \in DOMAIN n[key] : n[key][i] = x) <=> x = op
      BY <1>1, <2>2
    <3> QED
      BY <1>1, <2>2, <3>1
  <2> QED
    BY <2>1, <2>2
<1>3. ASSUME NEW b, NEW x
      PROVE  x \in BufferedIn(b) <=>
             \E k \in DOMAIN b : \E i \in DOMAIN b[k] : b[k][i] = x
  BY DEF BufferedIn
<1> QED
  BY <1>2, <1>3 DEF n

\* An operation whose dependency is missing is buffered.
LEMMA BufferConverges ==
    ASSUME IInv, IInv', CInv, NEW r \in Replicas, Buffer(r)
    PROVE  CInv'
<1> DEFINE op == Head(queue[r])
<1>1. /\ UNCHANGED <<list, nodesById, counter, ops, seen, reloads>>
      /\ queue[r] # <<>> /\ queue' = [queue EXCEPT ![r] = Tail(@)]
      /\ pending' = [pending EXCEPT ![r] = bufferOn(@, dependencyOf(op), op)]
  BY DEF Buffer
<1>2. /\ DOMAIN pending = Replicas /\ pending[r] \in [DOMAIN pending[r] -> Seq(ops)]
      /\ queue[r] \in Seq(ops) /\ counter \in [Replicas -> Nat]
  BY DEF IInv, TypeOK
<1>3. op \in ops /\ op \in seen[r]
  <2>1. op \in ops
    BY <1>1, <1>2, QueueTail
  <2>2. 1 \in DOMAIN queue[r] /\ queue[r][1] = op
    BY <1>1, <1>2
  <2> QED
    BY <2>1, <2>2 DEF CInv, OpsKept
<1> HIDE DEF op
<1>4. NodesGrow
  BY <1>1, NodesStay
<1>5. NodesFromSeen'
  BY <1>1, NodesStayExplained DEF CInv
<1>6. FormatIdsDecide'
  BY <1>1, <1>2, <1>4, FormatIdsKept DEF CInv
<1>7. buffered(r)' = buffered(r) \cup {op}
  <2>1. pending'[r] = bufferOn(pending[r], dependencyOf(op), op)
    BY <1>1, <1>2
  <2>2. BufferedIn(bufferOn(pending[r], dependencyOf(op), op))
          = BufferedIn(pending[r]) \cup {op}
    <3> DEFINE p == pending[r]
               key == dependencyOf(op)
    <3>1. p \in [DOMAIN p -> Seq(ops)]
      BY <1>2
    <3> HIDE DEF p, key
    <3>2. BufferedIn(bufferOn(p, key, op)) = BufferedIn(p) \cup {op}
      BY <1>3, <3>1, BufferedAfter
    <3> QED
      BY <3>2 DEF p, key
  <2>3. buffered(r) = BufferedIn(pending[r]) /\ buffered(r)' = BufferedIn(pending'[r])
    BY DEF buffered, BufferedIn
  <2> QED
    BY <2>1, <2>2, <2>3
<1>8. \A q \in Replicas : q # r => buffered(q)' = buffered(q)
  BY <1>1, <1>2 DEF buffered
<1>9. \A q \in Replicas : /\ buffered(q) \subseteq buffered(q)'
                          /\ buffered(q)' \subseteq seen[q]
  <2>1. \A q \in Replicas : buffered(q) \subseteq seen[q]
    BY DEF CInv, OpsKept
  <2> QED
    BY <1>3, <1>7, <1>8, <2>1
<1>10. op \in buffered(r)'
  BY <1>7
<1>11. OpsKept'
  BY <1>1, <1>4, <1>9, <1>10, HeadKept DEF CInv, op
<1> QED
  BY <1>5, <1>6, <1>11 DEF CInv

\* The node a delete marks, and all others, grow and stay explained.
LEMMA DeleteGrows ==
    ASSUME IInv, IInv', NodesFromSeen, NEW r \in Replicas,
           NEW target \in DOMAIN nodesById[r],
           nodesById' = [nodesById EXCEPT ![r][target].tombstone = TRUE],
           \A q \in Replicas : seen[q] \subseteq seen'[q],
           NEW d \in seen'[r], d.type = "delete", d.targetId = target
    PROVE  NodesGrow /\ NodesFromSeen' /\ InEffect(nodesById'[r], d)
<1> DEFINE n == [nodesById[r][target] EXCEPT !.tombstone = TRUE]
           new == [nodesById[r] EXCEPT ![target] = n]
<1>1. DOMAIN nodesById = Replicas /\ nodesById[r] \in [DOMAIN nodesById[r] -> Node]
  BY DEF IInv, TypeOK
<1>2. ASSUME NEW id \in DOMAIN nodesById[r]
      PROVE  nodesById[r][id] \in Node /\ NodeFrom(seen'[r], id, nodesById[r][id])
  <2>1. NodeFrom(seen[r], id, nodesById[r][id])
    BY DEF NodesFromSeen
  <2> QED
    BY <1>1, <2>1, FromMore
<1>3. /\ Grows(nodesById[r][target], n)
      /\ n.tombstone /\ NodeFrom(seen'[r], target, n)
  BY <1>2, TombstoneFrom
<1>4. nodesById' = [nodesById EXCEPT ![r] = new]
  OBVIOUS
<1> HIDE DEF n
<1>5. DOMAIN new = DOMAIN nodesById[r] /\ new[target] = n
  BY <1>1
<1>6. ASSUME NEW id \in DOMAIN nodesById[r]
      PROVE  Grows(nodesById[r][id], new[id]) /\ NodeFrom(seen'[r], id, new[id])
  <2>1. CASE id = target
    BY <1>3, <1>5, <2>1
  <2>2. CASE id # target
    <3>1. new[id] = nodesById[r][id]
      BY <1>1, <2>2
    <3> QED
      BY <1>2, <3>1, SameGrows
  <2> QED
    BY <2>1, <2>2
<1> HIDE DEF new
<1>7. NodesGrow /\ NodesFromSeen'
  BY <1>4, <1>5, <1>6, RewriteGrows
<1>8. nodesById'[r] = new
  BY <1>1, <1>4
<1>9. InEffect(new, d)
  BY <1>3, <1>5 DEF InEffect
<1> QED
  BY <1>7, <1>8, <1>9

\* The operation that apply works on was seen.
LEMMA HeadSeen ==
    ASSUME IInv, CInv, NEW r \in Replicas, queue[r] # <<>>
    PROVE  /\ Head(queue[r]) \in ops /\ Head(queue[r]) \in Op
           /\ Head(queue[r]) \in seen[r]
<1>1. queue[r] \in Seq(ops) /\ ops \subseteq Op
  BY DEF IInv, TypeOK
<1>2. Head(queue[r]) \in ops
  BY <1>1, QueueTail
<1>3. 1 \in DOMAIN queue[r] /\ queue[r][1] = Head(queue[r])
  BY <1>1
<1> QED
  BY <1>1, <1>2, <1>3 DEF CInv, OpsKept

\* A delete that arrives is in effect afterwards.
LEMMA ApplyDeleteConverges ==
    ASSUME IInv, IInv', CInv, NEW r \in Replicas, ApplyDelete(r)
    PROVE  CInv'
<1> DEFINE op == Head(queue[r])
<1>1. /\ UNCHANGED <<list, pending, counter, ops, seen, reloads>>
      /\ queue[r] # <<>> /\ queue' = [queue EXCEPT ![r] = Tail(@)]
      /\ op.type = "delete" /\ ~Missing(r, op)
      /\ nodesById' = [nodesById EXCEPT ![r][op.targetId].tombstone = TRUE]
  BY DEF ApplyDelete, Current
<1>2. op \in Op /\ op \in seen[r]
  BY <1>1, HeadSeen
<1> HIDE DEF op
<1>3. op.targetId \in DOMAIN nodesById[r]
  <2>1. op \in DeleteOp
    BY <1>1, <1>2 DEF Op, InsertOp, FormatOp
  <2> QED
    BY <1>1, <2>1, NullAssumption DEF Missing, dependencyOf, DeleteOp
<1>4. NodesGrow /\ NodesFromSeen' /\ InEffect(nodesById'[r], op)
  <2>1. op \in seen'[r] /\ \A q \in Replicas : seen[q] \subseteq seen'[q]
    BY <1>1, <1>2
  <2> QED
    BY <1>1, <1>3, <2>1, DeleteGrows DEF CInv
<1>5. FormatIdsDecide'
  <2>1. counter \in [Replicas -> Nat]
    BY DEF IInv, TypeOK
  <2> QED
    BY <1>1, <1>4, <2>1, FormatIdsKept DEF CInv
<1>6. \A q \in Replicas : /\ buffered(q) \subseteq buffered(q)'
                          /\ buffered(q)' \subseteq seen[q]
  BY <1>1 DEF buffered, CInv, OpsKept
<1>7. OpsKept'
  BY <1>1, <1>4, <1>6, HeadKept DEF CInv, op
<1> QED
  BY <1>4, <1>5, <1>7 DEF CInv

\* A delete of the user is in effect at once.
LEMMA LocalDeleteConverges ==
    ASSUME IInv, IInv', CInv, NEW r \in Replicas, NEW index, LocalDelete(r, index)
    PROVE  CInv'
<1> DEFINE target == findNodeAtPosition(r, index)
           op == [type |-> "delete", targetId |-> target]
<1>1. /\ UNCHANGED <<list, pending, counter, queue, reloads>>
      /\ target # Null
      /\ ops' = ops \cup {op} /\ seen' = [seen EXCEPT ![r] = @ \cup {op}]
      /\ nodesById' = [nodesById EXCEPT ![r][target].tombstone = TRUE]
  BY DEF LocalDelete, Produce
<1>2. target \in DOMAIN nodesById[r]
  BY <1>1, FoundNode
<1>3. op.type = "delete" /\ op.targetId = target
  OBVIOUS
<1> HIDE DEF target, op
<1>4. op \in seen'[r] /\ \A q \in Replicas : seen[q] \subseteq seen'[q]
  BY <1>1 DEF IInv, TypeOK
<1>5. NodesGrow /\ NodesFromSeen' /\ InEffect(nodesById'[r], op)
  BY <1>1, <1>2, <1>3, <1>4, DeleteGrows DEF CInv
<1>6. OpsKept'
  <2>1. \A q \in Replicas : \A b \in seen'[q] \ seen[q] : InEffect(nodesById'[q], b)
    BY <1>1, <1>5 DEF IInv, TypeOK
  <2> QED
    BY <1>1, <1>4, <1>5, <2>1, ProducedKept DEF CInv
<1>7. FormatIdsDecide'
  <2>1. \A q \in Replicas : counter[q] <= counter'[q]
    BY <1>1 DEF IInv, TypeOK
  <2>2. \A f \in ops' : f.type = "format" => f \in ops
    BY <1>1, <1>3
  <2>3. \A f \in ops : f.type = "format" => \A g \in ops : g.type = "format" =>
           (g.id = f.id /\ g.targetId = f.targetId /\ g.mark = f.mark => g = f)
    BY DEF CInv, FormatIdsDecide
  <2>4. \A f \in ops : f.type = "format" =>
          LET q == f.id.replicaId IN
             \/ f.id.counter <= counter'[q]
             \/ /\ f.targetId \in DOMAIN nodesById'[q]
                /\ nodesById'[q][f.targetId].tombstone
    BY <1>5, <2>1, IssuedKept DEF CInv
  <2> QED
    BY <2>2, <2>3, <2>4 DEF FormatIdsDecide
<1> QED
  BY <1>5, <1>6, <1>7 DEF CInv

\* Compaction undoes nothing.
LEMMA CompactTombstonesConverges ==
    ASSUME IInv, IInv', CInv, NEW r \in Replicas, CompactTombstones(r)
    PROVE  CInv'
<1> DEFINE old == nodesById[r]
           new == [id \in DOMAIN old |-> compacted(old[id])]
<1>1. /\ UNCHANGED <<list, pending, counter, queue, ops, seen, reloads>>
      /\ nodesById' = [nodesById EXCEPT ![r] = new]
  BY DEF CompactTombstones
<1>2. /\ old \in [DOMAIN old -> Node] /\ counter \in [Replicas -> Nat]
      /\ seen \in [Replicas -> SUBSET ops]
  BY DEF IInv, TypeOK
<1>3. DOMAIN new = DOMAIN old
  OBVIOUS
<1>4. ASSUME NEW id \in DOMAIN old
      PROVE  Grows(old[id], new[id]) /\ NodeFrom(seen[r], id, new[id])
  <2>1. old[id] \in Node /\ NodeFrom(seen[r], id, old[id])
    BY <1>2 DEF CInv, NodesFromSeen
  <2>2. Grows(old[id], compacted(old[id])) /\ NodeFrom(seen[r], id, compacted(old[id]))
    BY <2>1, CompactedFrom
  <2>3. new[id] = compacted(old[id])
    OBVIOUS
  <2> HIDE DEF new, old
  <2> QED
    BY <2>2, <2>3
<1> HIDE DEF new
<1>5. NodesGrow /\ NodesFromSeen'
  <2>1. \A q \in Replicas : seen[q] \subseteq seen'[q]
    BY <1>1
  <2> QED
    BY <1>1, <1>3, <1>4, <2>1, RewriteGrows DEF CInv
<1>6. FormatIdsDecide'
  BY <1>1, <1>2, <1>5, FormatIdsKept DEF CInv
<1>7. OpsKept'
  BY <1>1, <1>5, ProducedKept DEF CInv
<1> QED
  BY <1>5, <1>6, <1>7 DEF CInv

\* A format operation that arrives is in effect afterwards.
LEMMA ApplyFormatConverges ==
    ASSUME IInv, IInv', CInv, NEW r \in Replicas, ApplyFormat(r)
    PROVE  CInv'
<1> DEFINE op == Head(queue[r])
           old == nodesById[r]
           n == applyFormatOps(old[op.targetId], {op})
           new == [old EXCEPT ![op.targetId] = n]
<1>1. /\ UNCHANGED <<list, pending, ops, seen, reloads>>
      /\ queue[r] # <<>> /\ queue' = [queue EXCEPT ![r] = Tail(@)]
      /\ op.type = "format" /\ ~Missing(r, op)
      /\ nodesById' = [nodesById EXCEPT ![r] = new]
      /\ counter' = [counter EXCEPT ![r] = MaxNat(@, op.id.counter)]
  BY DEF ApplyFormat, Current
<1>2. op \in Op /\ op \in seen[r]
  BY <1>1, HeadSeen
<1>3. /\ op \in FormatOp /\ op.targetId \in DOMAIN old /\ op.id.counter \in Nat
  <2> HIDE DEF op
  <2>1. op \in FormatOp
    BY <1>1, <1>2 DEF Op, InsertOp, DeleteOp
  <2> QED
    BY <1>1, <2>1, NullAssumption DEF Missing, dependencyOf, FormatOp, OpId
<1>4. /\ DOMAIN nodesById = Replicas /\ old \in [DOMAIN old -> Node]
      /\ counter \in [Replicas -> Nat]
  BY DEF IInv, TypeOK
<1>5. Grows(old[op.targetId], n) /\ ~decides(n, op)
      /\ NodeFrom(seen[r], op.targetId, n)
  <2>1. /\ old[op.targetId] \in Node /\ {op} \in SUBSET FormatOp
        /\ \A f, g \in {op} : f.mark = g.mark => f = g
        /\ op \in {op}
        /\ {op} \subseteq seen[r] /\ \A f \in {op} : f.targetId = op.targetId
    BY <1>2, <1>3, <1>4
  <2>2. NodeFrom(seen[r], op.targetId, old[op.targetId])
    BY <1>3 DEF CInv, NodesFromSeen
  <2> HIDE DEF op, old
  <2>3. Grows(old[op.targetId], n) /\ \A f \in {op} : ~decides(n, f)
    BY <2>1, FormatGrows
  <2>4. NodeFrom(seen[r], op.targetId, n)
    BY <2>1, <2>2, FormatFrom
  <2> QED
    BY <2>1, <2>3, <2>4
<1> HIDE DEF n, op
<1>6. DOMAIN new = DOMAIN old /\ new[op.targetId] = n
  BY <1>3, <1>4
<1>7. ASSUME NEW id \in DOMAIN old
      PROVE  Grows(old[id], new[id]) /\ NodeFrom(seen[r], id, new[id])
  <2>1. CASE id = op.targetId
    BY <1>5, <1>6, <2>1
  <2>2. CASE id # op.targetId
    <3>1. new[id] = old[id] /\ old[id] \in Node
      BY <1>4, <2>2
    <3>2. NodeFrom(seen[r], id, old[id])
      BY DEF CInv, NodesFromSeen
    <3> QED
      BY <3>1, <3>2, SameGrows
  <2> QED
    BY <2>1, <2>2
<1> HIDE DEF new
<1>8. NodesGrow /\ NodesFromSeen'
  <2>1. \A q \in Replicas : seen[q] \subseteq seen'[q]
    BY <1>1
  <2> QED
    BY <1>1, <1>6, <1>7, <2>1, RewriteGrows DEF CInv
<1>9. FormatIdsDecide'
  <2>1. \A q \in Replicas : counter[q] <= counter'[q]
    BY <1>1, <1>3, <1>4 DEF MaxNat
  <2> QED
    BY <1>1, <1>8, <2>1, FormatIdsKept DEF CInv
<1>10. InEffect(nodesById'[r], op)
  <2>1. nodesById'[r] = new
    BY <1>1, <1>4
  <2> QED
    BY <1>1, <1>3, <1>5, <1>6, <2>1 DEF InEffect
<1>11. \A q \in Replicas : /\ buffered(q) \subseteq buffered(q)'
                           /\ buffered(q)' \subseteq seen[q]
  BY <1>1 DEF buffered, CInv, OpsKept
<1>12. OpsKept'
  BY <1>1, <1>8, <1>10, <1>11, HeadKept DEF CInv, op
<1> QED
  BY <1>8, <1>9, <1>12 DEF CInv

\* A new node is explained by its insert, and no other node changes.
LEMMA InsertGrows ==
    ASSUME IInv, IInv', NodesFromSeen, NEW r \in Replicas, NEW op \in InsertOp,
           op.id \notin DOMAIN nodesById[r], integrate(r, op.originId, op),
           \A q \in Replicas : seen[q] \subseteq seen'[q], op \in seen'[r]
    PROVE  NodesGrow /\ NodesFromSeen' /\ InEffect(nodesById'[r], op)
<1> DEFINE old == nodesById[r]
           new == withNode(old, op.id, newNode(op))
<1>1. DOMAIN nodesById = Replicas /\ old \in [DOMAIN old -> Node]
  BY DEF IInv, TypeOK
<1>2. /\ DOMAIN new = DOMAIN old \cup {op.id}
      /\ new[op.id] = newNode(op)
      /\ \A id \in DOMAIN old : new[id] = old[id]
  BY DEF withNode
<1>3. nodesById' = [nodesById EXCEPT ![r] = new]
  BY DEF integrate
<1> HIDE DEF new
<1>4. \A id \in DOMAIN old : Grows(old[id], new[id])
  BY <1>1, <1>2, SameGrows
<1>5. ASSUME NEW id \in DOMAIN new
      PROVE  NodeFrom(seen'[r], id, new[id])
  <2>1. CASE id = op.id
    BY <1>2, <2>1, NewNodeFrom
  <2>2. CASE id # op.id
    <3>1. NodeFrom(seen[r], id, old[id])
      BY <1>2, <2>2 DEF NodesFromSeen
    <3> QED
      BY <1>2, <2>2, <3>1, FromMore
  <2> QED
    BY <2>1, <2>2
<1>6. NodesGrow /\ NodesFromSeen'
  BY <1>2, <1>3, <1>4, <1>5, RewriteGrows
<1>7. InEffect(nodesById'[r], op)
  <2>1. nodesById'[r] = new /\ op.type = "insert"
    BY <1>1, <1>3 DEF InsertOp
  <2> QED
    BY <1>2, <2>1 DEF InEffect
<1> QED
  BY <1>6, <1>7

\* A character the user types is in effect at once.
LEMMA LocalInsertConverges ==
    ASSUME IInv, IInv', CInv, NEW r \in Replicas, NEW index,
           NEW attrs \in SUBSET Marks, LocalInsert(r, index, attrs)
    PROVE  CInv'
<1> DEFINE anchor == findNodeAtPosition(r, index - 1)
           id == nextId(r)
           op == [type |-> "insert", id |-> id, originId |-> anchor,
                  value |-> id, attrs |-> attrs]
<1>1. /\ UNCHANGED <<pending, queue, reloads>>
      /\ ops' = ops \cup {op} /\ seen' = [seen EXCEPT ![r] = @ \cup {op}]
      /\ integrate(r, anchor, op)
      /\ counter' = [counter EXCEPT ![r] = @ + 1]
  BY DEF LocalInsert, Produce
<1>2. id \notin DOMAIN nodesById[r]
  BY NextIdIsFresh
<1>3. op.type = "insert" /\ op.id = id /\ op.originId = anchor
  OBVIOUS
<1> HIDE DEF anchor, id, op
<1>4. op \in InsertOp
  <2>1. op \in Op
    BY <1>1 DEF IInv, TypeOK
  <2> QED
    BY <1>3, <2>1 DEF Op, DeleteOp, FormatOp
<1>5. op \in seen'[r] /\ \A q \in Replicas : seen[q] \subseteq seen'[q]
  BY <1>1 DEF IInv, TypeOK
<1>6. NodesGrow /\ NodesFromSeen' /\ InEffect(nodesById'[r], op)
  BY <1>1, <1>2, <1>3, <1>4, <1>5, InsertGrows DEF CInv
<1>7. OpsKept'
  <2>1. \A q \in Replicas : \A b \in seen'[q] \ seen[q] : InEffect(nodesById'[q], b)
    BY <1>1, <1>6 DEF IInv, TypeOK
  <2> QED
    BY <1>1, <1>5, <1>6, <2>1, ProducedKept DEF CInv
<1>8. FormatIdsDecide'
  <2>1. \A q \in Replicas : counter[q] <= counter'[q]
    BY <1>1 DEF IInv, TypeOK
  <2>2. \A f \in ops' : f.type = "format" => f \in ops
    BY <1>1, <1>3
  <2>3. \A f \in ops : f.type = "format" => \A g \in ops : g.type = "format" =>
           (g.id = f.id /\ g.targetId = f.targetId /\ g.mark = f.mark => g = f)
    BY DEF CInv, FormatIdsDecide
  <2>4. \A f \in ops : f.type = "format" =>
          LET q == f.id.replicaId IN
             \/ f.id.counter <= counter'[q]
             \/ /\ f.targetId \in DOMAIN nodesById'[q]
                /\ nodesById'[q][f.targetId].tombstone
    BY <1>6, <2>1, IssuedKept DEF CInv
  <2> QED
    BY <2>2, <2>3, <2>4 DEF FormatIdsDecide
<1> QED
  BY <1>6, <1>7, <1>8 DEF CInv

\* An insert that arrives is in effect afterwards, and what waited for it is
\* queued behind the rest.
LEMMA ApplyInsertConverges ==
    ASSUME IInv, IInv', CInv, NEW r \in Replicas, ApplyInsert(r)
    PROVE  CInv'
<1> DEFINE op == Head(queue[r])
           flushed == takeBuffered(pending[r], op.id)
           rest == withoutBuffered(pending[r], op.id)
           t == Tail(queue[r])
           q2 == t \o flushed
<1>1. /\ UNCHANGED <<ops, seen, reloads>>
      /\ queue[r] # <<>> /\ op.type = "insert"
      /\ op.id \notin DOMAIN nodesById[r]
      /\ integrate(r, op.originId, op)
      /\ counter' = [counter EXCEPT ![r] = MaxNat(@, op.id.counter)]
      /\ queue' = [queue EXCEPT ![r] = q2]
      /\ pending' = [pending EXCEPT ![r] = rest]
  BY DEF ApplyInsert, Current
<1>2. /\ queue \in [Replicas -> Seq(ops)] /\ counter \in [Replicas -> Nat]
      /\ DOMAIN pending = Replicas /\ seen \in [Replicas -> SUBSET ops]
      /\ pending[r] \in [DOMAIN pending[r] -> Seq(ops)]
  BY DEF IInv, TypeOK
<1>3. op \in Op /\ op \in ops /\ op \in seen[r]
  BY <1>1, HeadSeen
<1>4. /\ t \in Seq(ops)
      /\ \A i \in DOMAIN queue[r] : \/ queue[r][i] = op
                                    \/ \E j \in DOMAIN t : t[j] = queue[r][i]
  BY <1>1, <1>2, QueueTail
<1>5. \A i \in DOMAIN t : t[i] \in seen[r]
  <2> DEFINE s == queue[r]
  <2>1. s \in Seq(ops) /\ s # <<>> /\ \A i \in DOMAIN s : s[i] \in seen[r]
    BY <1>1, <1>2 DEF CInv, OpsKept
  <2> HIDE DEF s
  <2>2. \A i \in DOMAIN Tail(s) : i + 1 \in DOMAIN s /\ Tail(s)[i] = s[i + 1]
    BY <2>1
  <2> QED
    BY <2>1, <2>2 DEF s
<1> HIDE DEF op, t
<1>6. op \in InsertOp /\ op.id.counter \in Nat
  BY <1>1, <1>3 DEF Op, InsertOp, DeleteOp, FormatOp, OpId
<1>7. NodesGrow /\ NodesFromSeen' /\ InEffect(nodesById'[r], op)
  <2>1. op \in seen'[r] /\ \A q \in Replicas : seen[q] \subseteq seen'[q]
    BY <1>1, <1>3
  <2> QED
    BY <1>1, <1>6, <2>1, InsertGrows DEF CInv
<1>8. FormatIdsDecide'
  <2>1. \A q \in Replicas : counter[q] <= counter'[q]
    BY <1>1, <1>2, <1>6 DEF MaxNat
  <2> QED
    BY <1>1, <1>7, <2>1, FormatIdsKept DEF CInv
<1>9. /\ flushed \in Seq(ops)
      /\ op.id \in DOMAIN pending[r] => flushed = pending[r][op.id]
      /\ \A i \in DOMAIN flushed : flushed[i] \in buffered(r)
  <2>1. CASE op.id \in DOMAIN pending[r]
    BY <1>2, <2>1 DEF takeBuffered, buffered
  <2>2. CASE op.id \notin DOMAIN pending[r]
    BY <2>2 DEF takeBuffered
  <2> QED
    BY <2>1, <2>2
<1>10. /\ DOMAIN rest = DOMAIN pending[r] \ {op.id}
       /\ \A k \in DOMAIN rest : rest[k] = pending[r][k]
  BY DEF withoutBuffered
<1> HIDE DEF flushed, rest
<1>11. /\ \A i \in DOMAIN t : \E j \in DOMAIN q2 : q2[j] = t[i]
       /\ \A i \in DOMAIN flushed : \E j \in DOMAIN q2 : q2[j] = flushed[i]
       /\ \A j \in DOMAIN q2 : \/ \E i \in DOMAIN t : q2[j] = t[i]
                               \/ \E i \in DOMAIN flushed : q2[j] = flushed[i]
  <2>1. t \o flushed \in Seq(ops) /\ Len(t \o flushed) = Len(t) + Len(flushed)
    BY <1>4, <1>9
  <2>2. ASSUME NEW i \in DOMAIN t
        PROVE  i \in DOMAIN (t \o flushed) /\ (t \o flushed)[i] = t[i]
    BY <1>4, <1>9
  <2>3. ASSUME NEW i \in DOMAIN flushed
        PROVE  /\ Len(t) + i \in DOMAIN (t \o flushed)
               /\ (t \o flushed)[Len(t) + i] = flushed[i]
    BY <1>4, <1>9
  <2>4. ASSUME NEW j \in DOMAIN (t \o flushed), j \notin DOMAIN t
        PROVE  /\ j - Len(t) \in DOMAIN flushed
               /\ (t \o flushed)[j] = flushed[j - Len(t)]
    BY <1>4, <1>9, <2>4
  <2> QED
    BY <2>2, <2>3, <2>4
<1> HIDE DEF q2
<1>12. queue'[r] = q2 /\ \A q \in Replicas : q # r => queue'[q] = queue[q]
  BY <1>1, <1>2
<1>13. pending'[r] = rest /\ \A q \in Replicas : q # r => pending'[q] = pending[q]
  BY <1>1, <1>2
<1>14. \A q \in Replicas : q # r => buffered(q)' = buffered(q)
  BY <1>13 DEF buffered
<1>15. buffered(r)' \subseteq buffered(r)
  <2>1. buffered(r)' = BufferedIn(rest) /\ buffered(r) = BufferedIn(pending[r])
    BY <1>13 DEF buffered, BufferedIn
  <2>2. BufferedIn(rest) \subseteq BufferedIn(pending[r])
    BY <1>10 DEF BufferedIn
  <2> QED
    BY <2>1, <2>2
<1>16. ASSUME NEW b \in buffered(r)
       PROVE  b \in buffered(r)' \/ \E j \in DOMAIN q2 : q2[j] = b
  <2>1. PICK k \in DOMAIN pending[r] : \E i \in DOMAIN pending[r][k] :
               pending[r][k][i] = b
    BY DEF buffered
  <2>2. CASE k = op.id
    BY <1>9, <1>11, <2>1, <2>2
  <2>3. CASE k # op.id
    <3>1. k \in DOMAIN rest /\ rest[k] = pending[r][k]
      BY <1>10, <2>3
    <3> QED
      BY <1>13, <2>1, <3>1 DEF buffered
  <2> QED
    BY <2>2, <2>3
<1>17. ASSUME NEW q \in Replicas, NEW b \in seen[q]
       PROVE  \/ InEffect(nodesById'[q], b)
              \/ b \in buffered(q)'
              \/ \E i \in DOMAIN queue'[q] : queue'[q][i] = b
  <2>1. \/ InEffect(nodesById[q], b)
        \/ b \in buffered(q)
        \/ \E i \in DOMAIN queue[q] : queue[q][i] = b
    BY DEF CInv, OpsKept
  <2>2. CASE InEffect(nodesById[q], b)
    <3>1. b \in ops
      BY <1>2
    <3> QED
      BY <1>7, <2>2, <3>1, EffectKept
  <2>3. CASE q # r
    BY <1>12, <1>14, <2>1, <2>2, <2>3
  <2>4. CASE q = r /\ b \in buffered(r)
    BY <1>12, <1>16, <2>4
  <2>5. CASE q = r /\ \E i \in DOMAIN queue[r] : queue[r][i] = b
    <3>1. CASE b = op
      BY <1>7, <2>5, <3>1
    <3>2. CASE b # op
      <4>1. PICK j \in DOMAIN t : t[j] = b
        BY <1>4, <2>5, <3>2
      <4> QED
        BY <1>11, <1>12, <2>5, <4>1
    <3> QED
      BY <3>1, <3>2
  <2> QED
    BY <2>1, <2>2, <2>3, <2>4, <2>5
<1>18. ASSUME NEW q \in Replicas
       PROVE  /\ buffered(q)' \subseteq seen[q]
              /\ \A i \in DOMAIN queue'[q] : queue'[q][i] \in seen[q]
  <2>1. /\ buffered(q) \subseteq seen[q]
        /\ \A i \in DOMAIN queue[q] : queue[q][i] \in seen[q]
    BY DEF CInv, OpsKept
  <2>2. CASE q # r
    BY <1>12, <1>14, <2>1, <2>2
  <2>3. CASE q = r
    <3>1. \A j \in DOMAIN q2 : q2[j] \in seen[r]
      BY <1>5, <1>9, <1>11, <2>1, <2>3
    <3> QED
      BY <1>12, <1>15, <2>1, <2>3, <3>1
  <2> QED
    BY <2>2, <2>3
<1>19. OpsKept'
  BY <1>1, <1>17, <1>18 DEF OpsKept
<1> QED
  BY <1>7, <1>8, <1>19 DEF CInv

\* A position names a live character, and two positions name two.
LEMMA FoundLive ==
    ASSUME IInv, NEW r \in Replicas, NEW a, findNodeAtPosition(r, a) # Null
    PROVE  /\ ~nodesById[r][findNodeAtPosition(r, a)].tombstone
           /\ \A b : findNodeAtPosition(r, b) = findNodeAtPosition(r, a) => b = a
<1> DEFINE live == {k \in DOMAIN list[r] : ~nodesById[r][list[r][k]].tombstone}
           at(p) == {k \in live : Cardinality({j \in live : j < k}) = p}
           place(p) == CHOOSE k \in at(p) : TRUE
<1>1. ASSUME NEW p, findNodeAtPosition(r, p) # Null
      PROVE  /\ place(p) \in live
             /\ Cardinality({j \in live : j < place(p)}) = p
             /\ findNodeAtPosition(r, p) = list[r][place(p)]
  <2>1. at(p) # {} /\ findNodeAtPosition(r, p) = list[r][place(p)]
    BY <1>1 DEF findNodeAtPosition
  <2>2. place(p) \in at(p)
    BY <2>1
  <2> HIDE DEF place
  <2> QED
    BY <2>1, <2>2
<1>2. ~nodesById[r][findNodeAtPosition(r, a)].tombstone
  <2> HIDE DEF place
  <2> QED
    BY <1>1
<1>3. ASSUME NEW b, findNodeAtPosition(r, b) = findNodeAtPosition(r, a)
      PROVE  b = a
  <2> HIDE DEF place
  <2>1. list[r][place(b)] = list[r][place(a)]
        /\ place(a) \in DOMAIN list[r] /\ place(b) \in DOMAIN list[r]
    BY <1>1, <1>3
  <2>2. place(a) = place(b)
    BY <2>1 DEF IInv, ListHoldsNodes
  <2> DEFINE left(k) == Cardinality({j \in live : j < k})
  <2>3. left(place(a)) = a /\ left(place(b)) = b
    BY <1>1, <1>3
  <2> HIDE DEF left
  <2> QED
    BY <2>2, <2>3
<1> QED
  BY <1>2, <1>3

\* The operations localFormat issues: new ids, live targets, and one operation
\* for each character and mark.
LEMMA FormatOpsDistinct ==
    ASSUME IInv, NEW r \in Replicas, NEW start \in Nat, NEW patch \in Patches,
           NEW chars \in Nat,
           \A i \in 0..(chars - 1) : findNodeAtPosition(r, start + i) # Null
    PROVE  LET fops == formatOps(r, start, chars, patch) IN
           /\ \A f \in fops : /\ f.id.replicaId = r /\ counter[r] < f.id.counter
                              /\ ~nodesById[r][f.targetId].tombstone
           /\ \A f, g \in fops : f.targetId = g.targetId /\ f.mark = g.mark => f = g
<1> DEFINE w == Len(patch)
           c == counter[r]
           fops == formatOps(r, start, chars, patch)
           mkop(i, j) == [type |-> "format",
                          id |-> [counter |-> c + i * w + j, replicaId |-> r],
                          targetId |-> findNodeAtPosition(r, start + i),
                          mark |-> patch[j].mark, value |-> patch[j].value]
<1>1. w \in Nat /\ c \in Nat
  BY PatchType DEF IInv, TypeOK
<1>2. \A f \in fops : \E i \in 0..(chars - 1), j \in 1..w : f = mkop(i, j)
  BY DEF formatOps
<1>3. ASSUME NEW i \in 0..(chars - 1), NEW j \in 1..w
      PROVE  /\ mkop(i, j).id.replicaId = r
             /\ mkop(i, j).id.counter = c + i * w + j
             /\ mkop(i, j).targetId = findNodeAtPosition(r, start + i)
             /\ mkop(i, j).mark = patch[j].mark
  OBVIOUS
<1>4. ASSUME NEW i \in 0..(chars - 1), NEW j \in 1..w
      PROVE  c < c + i * w + j
  <2> HIDE DEF w, c
  <2>1. \A x, y \in Nat : x * y \in Nat
    OBVIOUS
  <2>2. i * w \in Nat
    BY <1>1, <2>1
  <2> DEFINE x == i * w
  <2> HIDE DEF x
  <2>3. x \in Nat
    BY <2>2 DEF x
  <2>4. c < c + x + j
    BY <1>1, <2>3
  <2> QED
    BY <2>4 DEF x
<1>5. \A j, k \in 1..w : patch[j].mark = patch[k].mark => j = k
  <2>1. DOMAIN patch = 1..w /\ \A j, k \in DOMAIN patch : patch[j].mark = patch[k].mark => j = k
    <3>1. \A j, k \in DOMAIN patch : patch[j].mark = patch[k].mark => j = k
      BY DEF Patches
    <3>2. PICK n \in 1..Cardinality(Marks) :
                patch \in [1..n -> [mark : Marks, value : {TRUE, Null}]]
      BY DEF Patches
    <3>3. n \in Nat
      BY MarksAssumption, FS_CardinalityType
    <3>4. DOMAIN patch = 1..w
      BY <3>2, <3>3
    <3> QED
      BY <3>1, <3>4
  <2> QED
    BY <2>1
<1> HIDE DEF w, c, fops, mkop
<1>6. ASSUME NEW f \in fops
      PROVE  /\ f.id.replicaId = r /\ c < f.id.counter
             /\ ~nodesById[r][f.targetId].tombstone
  <2>1. PICK i \in 0..(chars - 1), j \in 1..w : f = mkop(i, j)
    BY <1>2
  <2>2. /\ f.id.replicaId = r /\ f.id.counter = c + i * w + j
        /\ f.targetId = findNodeAtPosition(r, start + i)
    BY <1>3, <2>1
  <2>3. ~nodesById[r][findNodeAtPosition(r, start + i)].tombstone
    BY FoundLive
  <2> QED
    BY <1>4, <2>2, <2>3
<1>7. ASSUME NEW f \in fops, NEW g \in fops, f.targetId = g.targetId, f.mark = g.mark
      PROVE  f = g
  <2>1. PICK i \in 0..(chars - 1), j \in 1..w : f = mkop(i, j)
    BY <1>2
  <2>2. PICK i2 \in 0..(chars - 1), j2 \in 1..w : g = mkop(i2, j2)
    BY <1>2
  <2>3. findNodeAtPosition(r, start + i2) = findNodeAtPosition(r, start + i)
    BY <1>3, <1>7, <2>1, <2>2
  <2>4. start + i2 = start + i
    BY <2>3, FoundLive
  <2>5. i2 = i
    BY <2>4
  <2>6. j2 = j
    BY <1>3, <1>5, <1>7, <2>1, <2>2
  <2> QED
    BY <2>1, <2>2, <2>5, <2>6
<1> QED
  BY <1>6, <1>7 DEF c, fops

\* The formatting of the user is in effect at once.
LEMMA LocalFormatConverges ==
    ASSUME IInv, IInv', CInv, NEW r \in Replicas, NEW start \in Nat,
           NEW length \in Nat, NEW patch \in Patches,
           LocalFormat(r, start, length, patch)
    PROVE  CInv'
<1> DEFINE chars == charsReached(r, start, length)
           fops == formatOps(r, start, chars, patch)
           old == nodesById[r]
           on(id) == {op \in fops : op.targetId = id}
           new == [id \in DOMAIN old |-> applyFormatOps(old[id], on(id))]
           issued == chars * Len(patch)
<1>1. /\ UNCHANGED <<list, pending, queue, reloads>>
      /\ ops' = ops \cup fops /\ seen' = [seen EXCEPT ![r] = @ \cup fops]
      /\ nodesById' = [nodesById EXCEPT ![r] = new]
      /\ counter' = [counter EXCEPT ![r] = @ + issued]
  BY DEF LocalFormat, Produce
<1>2. chars \in Nat /\ \A i \in 0..(chars - 1) : findNodeAtPosition(r, start + i) # Null
  BY CharsReached
<1>3. issued \in Nat
  <2>1. Len(patch) \in Nat
    BY PatchType
  <2>2. \A x, y \in Nat : x * y \in Nat
    OBVIOUS
  <2> HIDE DEF chars
  <2> QED
    BY <1>2, <2>1, <2>2
<1> HIDE DEF chars
<1>4. \A op \in fops : /\ op \in FormatOp /\ op.type = "format"
                       /\ op.targetId \in DOMAIN old
                       /\ op.id.counter <= counter[r] + issued
  BY <1>2, FormatOpsType
<1>5. /\ \A f \in fops : /\ f.id.replicaId = r /\ counter[r] < f.id.counter
                         /\ ~old[f.targetId].tombstone
      /\ \A f, g \in fops : f.targetId = g.targetId /\ f.mark = g.mark => f = g
  BY <1>2, FormatOpsDistinct
<1> HIDE DEF fops, issued
<1>6. /\ counter \in [Replicas -> Nat] /\ counter'[r] = counter[r] + issued
      /\ \A q \in Replicas : counter[q] <= counter'[q]
      /\ DOMAIN nodesById = Replicas /\ old \in [DOMAIN old -> Node]
      /\ seen \in [Replicas -> SUBSET ops]
  BY <1>1, <1>3 DEF IInv, TypeOK
<1>7. /\ seen'[r] = seen[r] \cup fops
      /\ \A q \in Replicas : seen[q] \subseteq seen'[q] /\ (q # r => seen'[q] = seen[q])
  BY <1>1, <1>6
<1>8. ASSUME NEW id \in DOMAIN old
      PROVE  /\ Grows(old[id], new[id]) /\ NodeFrom(seen'[r], id, new[id])
             /\ \A f \in fops : f.targetId = id => ~decides(new[id], f)
  <2>1. /\ old[id] \in Node /\ on(id) \in SUBSET FormatOp
        /\ \A f, g \in on(id) : f.mark = g.mark => f = g
        /\ on(id) \subseteq seen'[r] /\ \A f \in on(id) : f.targetId = id
    BY <1>4, <1>5, <1>6, <1>7
  <2>2. NodeFrom(seen'[r], id, old[id])
    <3>1. NodeFrom(seen[r], id, old[id])
      BY DEF CInv, NodesFromSeen
    <3> QED
      BY <1>7, <3>1, FromMore
  <2>3. new[id] = applyFormatOps(old[id], on(id))
    OBVIOUS
  <2>4. \A f \in fops : f.targetId = id => f \in on(id)
    OBVIOUS
  <2> HIDE DEF on, old, new
  <2>5. /\ Grows(old[id], new[id]) /\ \A f \in on(id) : ~decides(new[id], f)
    BY <2>1, <2>3, FormatGrows
  <2>6. NodeFrom(seen'[r], id, new[id])
    BY <2>1, <2>2, <2>3, FormatFrom
  <2> QED
    BY <2>4, <2>5, <2>6
<1>9. DOMAIN new = DOMAIN old
  OBVIOUS
<1> HIDE DEF new
<1>10. NodesGrow /\ NodesFromSeen'
  BY <1>1, <1>7, <1>8, <1>9, RewriteGrows DEF CInv
<1>11. \A f \in fops : InEffect(nodesById'[r], f)
  <2>1. nodesById'[r] = new
    BY <1>1, <1>6
  <2> QED
    BY <1>4, <1>8, <1>9, <2>1 DEF InEffect
<1>12. OpsKept'
  <2>1. \A q \in Replicas : \A b \in seen'[q] \ seen[q] : InEffect(nodesById'[q], b)
    BY <1>7, <1>11
  <2> QED
    BY <1>1, <1>7, <1>10, <2>1, ProducedKept DEF CInv
<1>13. \A f \in ops : f.type = "format" =>
         LET q == f.id.replicaId IN
            \/ f.id.counter <= counter'[q]
            \/ /\ f.targetId \in DOMAIN nodesById'[q]
               /\ nodesById'[q][f.targetId].tombstone
  BY <1>6, <1>10, IssuedKept DEF CInv
<1>14. \A f \in fops : f.id.counter <= counter'[f.id.replicaId]
  BY <1>4, <1>5, <1>6
<1>15. ASSUME NEW f \in ops, NEW g \in fops, f.type = "format", g.id = f.id,
              g.targetId = f.targetId
       PROVE  FALSE
  <2>1. f \in FormatOp
    BY <1>15 DEF IInv, TypeOK, Op, InsertOp, DeleteOp
  <2>2. f.id.replicaId = r /\ counter[r] < f.id.counter /\ ~old[f.targetId].tombstone
    BY <1>5, <1>15
  <2>3. f.id.counter \in Nat /\ counter[r] \in Nat
    BY <1>6, <2>1 DEF FormatOp, OpId
  <2>4. f.id.counter <= counter[r] \/ old[f.targetId].tombstone
    BY <1>15, <2>2 DEF CInv, FormatIdsDecide
  <2> QED
    BY <2>2, <2>3, <2>4
<1>16. ASSUME NEW f \in ops', f.type = "format", NEW g \in ops', g.type = "format",
              g.id = f.id, g.targetId = f.targetId, g.mark = f.mark
       PROVE  g = f
  <2>1. CASE f \in ops /\ g \in ops
    BY <1>16, <2>1 DEF CInv, FormatIdsDecide
  <2>2. CASE f \in fops /\ g \in fops
    BY <1>5, <1>16, <2>2
  <2>3. CASE f \in ops /\ g \in fops
    BY <1>15, <1>16, <2>3
  <2>4. CASE f \in fops /\ g \in ops
    BY <1>15, <1>16, <2>4
  <2> QED
    BY <1>1, <2>1, <2>2, <2>3, <2>4
<1>17. FormatIdsDecide'
  BY <1>1, <1>13, <1>14, <1>16 DEF FormatIdsDecide
<1> QED
  BY <1>10, <1>12, <1>17 DEF CInv

\* What a replica buffers waits for an id that it lacks.
LEMMA BufferedWaits ==
    ASSUME IInv, NEW r \in Replicas, NEW op \in buffered(r)
    PROVE  Missing(r, op)
<1>1. PICK k \in DOMAIN pending[r] : \E i \in DOMAIN pending[r][k] :
             pending[r][k][i] = op
  BY DEF buffered
<1>2. k \notin DOMAIN nodesById[r] /\ dependencyOf(op) = k
  BY <1>1 DEF IInv, InsertsKept
<1>3. k # Null
  BY <1>1, NullAssumption DEF IInv, TypeOK
<1> QED
  BY <1>2, <1>3 DEF Missing

\* A replica holds the origin of every node it holds.
LEMMA OriginHeld ==
    ASSUME IInv, NEW r \in Replicas, NEW id \in DOMAIN nodesById[r],
           nodesById[r][id].originId # Null
    PROVE  nodesById[r][id].originId \in DOMAIN nodesById[r]
<1>1. PICK k \in DOMAIN list[r] : list[r][k] = id
  BY DEF IInv, ListHoldsNodes
<1>2. list[r] \in Seq(OpId)
  BY DEF IInv, TypeOK
<1>3. AfterOrigin(list[r], k, nodesById[r][id].originId)
  BY <1>1 DEF IInv, OriginRule
<1>4. PICK j \in 0..(k - 1) :
         IF j = 0 THEN nodesById[r][id].originId = Null
         ELSE list[r][j] = nodesById[r][id].originId
  BY <1>3 DEF AfterOrigin
<1>5. j \in DOMAIN list[r] /\ list[r][j] = nodesById[r][id].originId
  BY <1>1, <1>2, <1>4
<1> QED
  BY <1>5 DEF IInv, ListHoldsNodes

\* The operations that explain a node of a replica are not buffered there.
LEMMA ExplainedByKept ==
    ASSUME IInv, NEW s \in Replicas, NEW id \in DOMAIN nodesById[s],
           NEW known \in SUBSET ops, NodeFrom(known, id, nodesById[s][id])
    PROVE  NodeFrom(known \ buffered(s), id, nodesById[s][id])
<1> DEFINE node == nodesById[s][id]
           kept == known \ buffered(s)
<1>1. \A op \in known : op \in Op
  BY DEF IInv, TypeOK
<1>2. ASSUME NEW op \in known, op.type # "insert", op.targetId = id
      PROVE  op \in kept
  <2>1. ~Missing(s, op)
    BY <1>2 DEF Missing, dependencyOf
  <2> QED
    BY <2>1, BufferedWaits
<1>3. ASSUME NEW b \in known, b.type = "insert", b.id = id
      PROVE  b \in kept
  <2>1. PICK a \in ops : a.type = "insert" /\ a.id = id /\ a.originId = node.originId
    BY DEF IInv, NodesFromInserts
  <2>2. b = a
    BY <1>3, <2>1 DEF IInv, UniqueInsertIds
  <2>3. b.originId # Null => b.originId \in DOMAIN nodesById[s]
    BY <2>1, <2>2, OriginHeld
  <2>4. ~Missing(s, b)
    BY <1>3, <2>3 DEF Missing, dependencyOf
  <2> QED
    BY <2>4, BufferedWaits
<1>4. node.tombstone => \E d \in kept : d.type = "delete" /\ d.targetId = id
  BY <1>2 DEF NodeFrom
<1>5. PICK b \in known :
         /\ b.type = "insert" /\ b.id = id
         /\ ~node.tombstone => /\ node.value = b.value
                               /\ \A m \in Marks : MarkFrom(known, id, node, b, m)
  BY DEF NodeFrom
<1>6. ASSUME NEW m \in Marks, MarkFrom(known, id, node, b, m)
      PROVE  MarkFrom(kept, id, node, b, m)
  <2>1. CASE node.formatClock[m] = Null
    BY <1>6, <2>1 DEF MarkFrom
  <2>2. CASE node.formatClock[m] # Null
    <3>1. PICK f \in known : /\ f.type = "format" /\ f.targetId = id /\ f.mark = m
                             /\ f.id = node.formatClock[m]
                             /\ (m \in node.attrs <=> f.value = TRUE)
      BY <1>6, <2>2 DEF MarkFrom
    <3>2. f \in kept
      BY <1>2, <3>1
    <3> HIDE DEF kept, node
    <3> QED
      BY <2>2, <3>1, <3>2 DEF MarkFrom
  <2> QED
    BY <2>1, <2>2
<1>7. b \in kept
  BY <1>3, <1>5
<1> HIDE DEF kept, node
<1>8. NodeFrom(kept, id, node)
  BY <1>4, <1>5, <1>6, <1>7 DEF NodeFrom
<1> QED
  BY <1>8 DEF kept, node

\* A rebuilt replica stands for what the snapshot holds in effect.
LEMMA ReloadConverges ==
    ASSUME IInv, IInv', CInv, NEW r \in Replicas, NEW s \in Replicas, Reload(r, s)
    PROVE  CInv'
<1> DEFINE top == maxCounter(idsOf(nodesById[s]))
           kept == seen[s] \ buffered(s)
<1>1. /\ UNCHANGED <<queue, ops>>
      /\ \A q \in Replicas : queue[q] = <<>>
      /\ \A op \in ops : op.type # "delete" /\ op.id.replicaId = r => op \in kept
      /\ nodesById' = [nodesById EXCEPT ![r] = nodesById[s]]
      /\ pending' = [pending EXCEPT ![r] = EmptyMap]
      /\ counter' = [counter EXCEPT ![r] = top]
      /\ seen' = [seen EXCEPT ![r] = kept]
  BY DEF Reload, Idle
<1>2. /\ DOMAIN nodesById = Replicas /\ DOMAIN pending = Replicas
      /\ counter \in [Replicas -> Nat] /\ seen \in [Replicas -> SUBSET ops]
      /\ DOMAIN nodesById[s] \subseteq OpId
      /\ nodesById[s] \in [DOMAIN nodesById[s] -> Node]
  BY DEF IInv, TypeOK
<1>3. top \in Nat /\ \A id \in idsOf(nodesById[s]) : id.counter <= top
  <2>1. idsOf(nodesById[s]) \in SUBSET OpId
    BY <1>2, IdsOfType
  <2>2. counter[s] \in Nat /\ \A id \in idsOf(nodesById[s]) : id.counter <= counter[s]
    BY <1>2 DEF IInv, CounterDominates
  <2> QED
    BY <2>1, <2>2, MaxCounterDominates
<1> HIDE DEF top
<1>4. ASSUME NEW q \in Replicas, q # r
      PROVE  /\ nodesById'[q] = nodesById[q] /\ counter'[q] = counter[q]
             /\ seen'[q] = seen[q] /\ buffered(q)' = buffered(q)
  <2>1. pending'[q] = pending[q]
    BY <1>1, <1>2, <1>4
  <2> QED
    BY <1>1, <1>2, <1>4, <2>1 DEF buffered
<1>5. /\ nodesById'[r] = nodesById[s] /\ counter'[r] = top /\ seen'[r] = kept
      /\ buffered(r)' = {}
  <2>1. pending'[r] = EmptyMap /\ DOMAIN EmptyMap = {}
    BY <1>1, <1>2 DEF EmptyMap
  <2>2. buffered(r)' = {}
    BY <2>1 DEF buffered
  <2> QED
    BY <1>1, <1>2, <2>2
<1>6. \A op \in kept : InEffect(nodesById[s], op)
  BY <1>1 DEF CInv, OpsKept
<1>7. OpsKept'
  <2>1. ASSUME NEW q \in Replicas
        PROVE  /\ \A op \in seen'[q] : \/ InEffect(nodesById'[q], op)
                                       \/ op \in buffered(q)'
                                       \/ \E i \in DOMAIN queue'[q] : queue'[q][i] = op
               /\ buffered(q)' \subseteq seen'[q]
               /\ \A i \in DOMAIN queue'[q] : queue'[q][i] \in seen'[q]
    <3>1. queue'[q] = <<>> /\ DOMAIN queue'[q] = {}
      BY <1>1
    <3>2. CASE q = r
      BY <1>5, <1>6, <3>1, <3>2
    <3>3. CASE q # r
      <4>1. /\ \A op \in seen[q] : InEffect(nodesById[q], op) \/ op \in buffered(q)
            /\ buffered(q) \subseteq seen[q]
        BY <1>1 DEF CInv, OpsKept
      <4> QED
        BY <1>4, <3>1, <3>3, <4>1
    <3> QED
      BY <3>2, <3>3
  <2> QED
    BY <2>1 DEF OpsKept
<1>8. NodesFromSeen'
  <2>1. ASSUME NEW q \in Replicas, NEW id \in DOMAIN nodesById'[q]
        PROVE  NodeFrom(seen'[q], id, nodesById'[q][id])
    <3>1. CASE q = r
      <4>1. id \in DOMAIN nodesById[s] /\ seen[s] \in SUBSET ops
        BY <1>2, <1>5, <3>1
      <4>2. NodeFrom(seen[s], id, nodesById[s][id])
        BY <4>1 DEF CInv, NodesFromSeen
      <4>3. NodeFrom(kept, id, nodesById[s][id])
        BY <4>1, <4>2, ExplainedByKept
      <4> QED
        BY <1>5, <3>1, <4>3
    <3>2. CASE q # r
      <4>1. NodeFrom(seen[q], id, nodesById[q][id])
        BY <1>4, <3>2 DEF CInv, NodesFromSeen
      <4> QED
        BY <1>4, <3>2, <4>1
    <3> QED
      BY <3>1, <3>2
  <2> QED
    BY <2>1 DEF NodesFromSeen, NodeFrom, MarkFrom
<1>9. ASSUME NEW f \in ops, f.type = "format"
      PROVE  LET q == f.id.replicaId IN
             \/ f.id.counter <= counter'[q]
             \/ /\ f.targetId \in DOMAIN nodesById'[q]
                /\ nodesById'[q][f.targetId].tombstone
  <2>1. f \in FormatOp
    BY <1>9 DEF IInv, TypeOK, Op, InsertOp, DeleteOp
  <2>2. /\ f.id.replicaId \in Replicas /\ f.id \in OpId /\ f.id.counter \in Nat
        /\ f.mark \in Marks
    BY <2>1 DEF FormatOp, OpId
  <2>3. CASE f.id.replicaId = r
    <3> DEFINE node == nodesById[s][f.targetId]
    <3>1. /\ f.targetId \in DOMAIN nodesById[s]
          /\ node.tombstone \/ ~decides(node, f)
      BY <1>1, <1>6, <1>9, <2>3 DEF InEffect
    <3>2. CASE node.tombstone
      BY <1>5, <2>3, <3>1, <3>2
    <3>3. CASE ~decides(node, f)
      <4> DEFINE by == node.formatClock[f.mark]
      <4>1. node \in Node
        BY <1>2, <3>1
      <4>2. by # Null /\ compareOpId(by, f.id) >= 0
        BY <2>1, <3>3, <4>1, NotDecides
      <4>3. by \in OpId
        BY <2>2, <4>1, <4>2 DEF Node
      <4>4. f.id.counter <= by.counter
        BY <2>2, <4>2, <4>3, CompareCounters
      <4>5. by \in idsOf(nodesById[s])
        BY <2>2, <3>1, <4>2 DEF idsOf
      <4>6. by.counter <= top /\ by.counter \in Nat
        BY <1>3, <4>3, <4>5 DEF OpId
      <4> HIDE DEF by
      <4>7. f.id.counter <= top
        BY <1>3, <2>2, <4>4, <4>6
      <4> QED
        BY <1>5, <2>3, <4>7
    <3> QED
      BY <3>1, <3>2, <3>3
  <2>4. CASE f.id.replicaId # r
    BY <1>4, <1>9, <2>2, <2>4 DEF CInv, FormatIdsDecide
  <2> QED
    BY <2>3, <2>4
<1>10. \A f \in ops : f.type = "format" => \A g \in ops : g.type = "format" =>
         (g.id = f.id /\ g.targetId = f.targetId /\ g.mark = f.mark => g = f)
  BY DEF CInv, FormatIdsDecide
<1>11. FormatIdsDecide'
  BY <1>1, <1>9, <1>10 DEF FormatIdsDecide
<1> QED
  BY <1>7, <1>8, <1>11 DEF CInv

\* At the start nothing was seen or produced.
LEMMA InitConverges == Init => CInv
<1> SUFFICES ASSUME Init PROVE CInv
  OBVIOUS
<1>1. OpsKept
  BY DEF Init, OpsKept, buffered, EmptyMap
<1>2. NodesFromSeen
  BY DEF Init, NodesFromSeen, EmptyMap
<1>3. FormatIdsDecide
  BY DEF Init, FormatIdsDecide
<1> QED
  BY <1>1, <1>2, <1>3 DEF CInv

\* A step that changes nothing keeps CInv.
LEMMA StutterConverges ==
    ASSUME CInv, UNCHANGED vars
    PROVE  CInv'
<1>1. /\ nodesById' = nodesById /\ pending' = pending /\ counter' = counter
      /\ queue' = queue /\ ops' = ops /\ seen' = seen
  BY DEF vars
<1>2. OpsKept'
  BY <1>1 DEF CInv, OpsKept, buffered, InEffect, decides
<1>3. NodesFromSeen'
  BY <1>1, NodesStayExplained DEF CInv
<1>4. FormatIdsDecide'
  BY <1>1 DEF CInv, FormatIdsDecide
<1> QED
  BY <1>2, <1>3, <1>4 DEF CInv

\* Every step keeps CInv.
LEMMA NextConverges == IInv /\ IInv' /\ CInv /\ [Next]_vars => CInv'
<1> SUFFICES ASSUME IInv, IInv', CInv, [Next]_vars PROVE CInv'
  OBVIOUS
<1>1. ASSUME NEW r \in Editors, Edit(r) PROVE CInv'
  <2>1. r \in Replicas /\ Len(list[r]) \in Nat
    BY DEF Replicas, IInv, TypeOK
  <2>2. PICK index \in 0..Len(list[r]) :
          \/ \E attrs \in SUBSET Marks : LocalInsert(r, index, attrs)
          \/ LocalDelete(r, index)
          \/ \E length \in 1..Len(list[r]), patch \in Patches :
                 LocalFormat(r, index, length, patch)
    BY <1>1 DEF Edit
  <2>3. index \in Nat
    BY <2>1
  <2>4. CASE \E attrs \in SUBSET Marks : LocalInsert(r, index, attrs)
    BY <2>1, <2>4, LocalInsertConverges
  <2>5. CASE LocalDelete(r, index)
    BY <2>1, <2>5, LocalDeleteConverges
  <2>6. CASE \E length \in 1..Len(list[r]), patch \in Patches :
                 LocalFormat(r, index, length, patch)
    <3>1. PICK length \in 1..Len(list[r]), patch \in Patches :
                 LocalFormat(r, index, length, patch)
      BY <2>6
    <3>2. length \in Nat
      BY <2>1
    <3> QED
      BY <2>1, <2>3, <3>1, <3>2, LocalFormatConverges
  <2> QED
    BY <2>2, <2>4, <2>5, <2>6
<1>2. ASSUME NEW r \in Replicas, NEW op \in ops, Receive(r, op) PROVE CInv'
  BY <1>2, ReceiveConverges
<1>3. ASSUME NEW r \in Replicas, ApplyStep(r) PROVE CInv'
  BY <1>3, SkipAppliedConverges, BufferConverges, ApplyInsertConverges,
     ApplyDeleteConverges, ApplyFormatConverges DEF ApplyStep
<1>4. ASSUME NEW r \in Servers, CompactTombstones(r) PROVE CInv'
  BY <1>4, CompactTombstonesConverges DEF Replicas
<1>5. ASSUME NEW r \in Replicas, NEW s \in {r} \cup Servers, Reload(r, s)
      PROVE  CInv'
  BY <1>5, ReloadConverges DEF Replicas
<1>6. CASE UNCHANGED vars
  BY <1>6, StutterConverges
<1> QED
  BY <1>1, <1>2, <1>3, <1>4, <1>5, <1>6 DEF Next

-----------------------------------------------------------------------------
(* Theorems *)

\* What each replica was given is in effect, buffered or queued, what each node
\* shows comes from those operations, and format ids decide, in every reachable
\* state.
THEOREM ConvergenceInvariance == Spec => []CInv
<1>1. Init => CInv
  BY InitConverges
<1>2. IInv /\ IInv' /\ CInv /\ [Next]_vars => CInv'
  BY NextConverges
<1> QED
  BY <1>1, <1>2, Invariance, PTL DEF Spec

\* Between two calls of apply, every operation a replica was given is in effect
\* or buffered on an id that is really missing, through compaction and rebuilds.
THEOREM NothingIsLost == Spec => []NoLostOps
<1>1. IInv /\ CInv => NoLostOps
  <2> SUFFICES ASSUME IInv, CInv, Idle, NEW r \in Replicas
               PROVE  /\ \A op \in seen[r] : \/ InEffect(nodesById[r], op)
                                             \/ op \in buffered(r)
                      /\ \A op \in buffered(r) : Missing(r, op)
    BY DEF NoLostOps
  <2>1. queue[r] = <<>>
    BY DEF Idle
  <2>2. \A op \in seen[r] : InEffect(nodesById[r], op) \/ op \in buffered(r)
    BY <2>1 DEF CInv, OpsKept
  <2> QED
    BY <2>2, BufferedWaits
<1> QED
  BY <1>1, Invariance, ConvergenceInvariance, PTL

\* Two idle replicas that were given the same operations hold the same ids: the
\* origin of one that only one of them held would be another, with a smaller
\* counter.
LEMMA SameIds ==
    ASSUME IInv, CInv, Idle, NEW r \in Replicas, NEW s \in Replicas,
           seen[r] = seen[s]
    PROVE  DOMAIN nodesById[r] \subseteq DOMAIN nodesById[s]
<1> DEFINE only == DOMAIN nodesById[r] \ DOMAIN nodesById[s]
           counters == {id.counter : id \in only}
<1> SUFFICES ASSUME only # {} PROVE FALSE
  OBVIOUS
<1>1. DOMAIN nodesById[r] \subseteq OpId /\ ops \subseteq Op
      /\ seen \in [Replicas -> SUBSET ops]
  BY DEF IInv, TypeOK
<1>2. counters \in SUBSET Nat /\ counters # {}
  BY <1>1 DEF OpId
<1>3. PICK n \in counters : \A m \in counters : n <= m
  <2> HIDE DEF counters
  <2> QED
    BY <1>2, LeastNat
<1>4. PICK id \in only : id.counter = n
  BY <1>3
<1>5. \A x \in only : id.counter <= x.counter
  BY <1>3, <1>4
<1>6. PICK b \in seen[r] : b.type = "insert" /\ b.id = id
  BY <1>4 DEF CInv, NodesFromSeen, NodeFrom
<1>7. b \in ops /\ b \in seen[s]
  BY <1>1
<1>8. b \in buffered(s)
  <2>1. queue[s] = <<>> /\ ~InEffect(nodesById[s], b)
    BY <1>4, <1>6 DEF Idle, InEffect
  <2> QED
    BY <1>7, <2>1 DEF CInv, OpsKept
<1>9. b.originId # Null /\ b.originId \notin DOMAIN nodesById[s]
  BY <1>6, <1>8, BufferedWaits DEF Missing, dependencyOf
<1>10. PICK a \in ops : /\ a.type = "insert" /\ a.id = id
                        /\ a.originId = nodesById[r][id].originId
  BY <1>4 DEF IInv, NodesFromInserts
<1>11. b = a
  BY <1>6, <1>7, <1>10 DEF IInv, UniqueInsertIds
<1>12. b.originId \in DOMAIN nodesById[r]
  BY <1>4, <1>9, <1>10, <1>11, OriginHeld
<1>13. b.originId.counter < id.counter
  BY <1>6, <1>7, <1>9 DEF IInv, CausalOps
<1>14. b.originId.counter \in Nat /\ id.counter \in Nat
  BY <1>1, <1>4, <1>12 DEF OpId
<1> QED
  BY <1>5, <1>9, <1>12, <1>13, <1>14

\* Two lists without repetition that hold the same ids in the same order are
\* equal: at the first place where they differ, two ids stand in two orders.
LEMMA SameLists ==
    ASSUME NEW a \in Seq(OpId), NEW b \in Seq(OpId),
           {a[k] : k \in DOMAIN a} = {b[k] : k \in DOMAIN b},
           \A j, k \in DOMAIN a : a[j] = a[k] => j = k,
           \A j, k \in DOMAIN b : b[j] = b[k] => j = k,
           \A x, y : ~(Before(a, x, y) /\ Before(b, y, x))
    PROVE  a = b
<1> DEFINE D == {k \in DOMAIN a \cup DOMAIN b :
                   ~(k \in DOMAIN a /\ k \in DOMAIN b /\ a[k] = b[k])}
<1>1. DOMAIN a \subseteq Nat /\ DOMAIN b \subseteq Nat /\ D \in SUBSET Nat
  OBVIOUS
<1>2. /\ \A k \in DOMAIN a : \E j \in DOMAIN b : b[j] = a[k]
      /\ \A k \in DOMAIN b : \E j \in DOMAIN a : a[j] = b[k]
  <2>1. /\ \A k \in DOMAIN a : a[k] \in {a[i] : i \in DOMAIN a}
        /\ \A k \in DOMAIN b : b[k] \in {b[i] : i \in DOMAIN b}
    OBVIOUS
  <2> QED
    BY <2>1
<1>3. D = {}
  <2> SUFFICES ASSUME D # {} PROVE FALSE
    OBVIOUS
  <2>1. PICK k \in D : \A j \in D : k <= j
    <3> HIDE DEF D
    <3> QED
      BY <1>1, LeastNat
  <2>2. \A j \in DOMAIN a \cup DOMAIN b :
          j < k => j \in DOMAIN a /\ j \in DOMAIN b /\ a[j] = b[j]
    <3>1. \A j \in DOMAIN a \cup DOMAIN b : j \in Nat
      BY <1>1
    <3>2. k \in Nat
      BY <1>1, <2>1
    <3> QED
      BY <2>1, <3>1, <3>2
  <2>3. k \in Nat /\ k >= 1
    BY <2>1
  <2>4. ASSUME k \in DOMAIN a
        PROVE  \E j \in DOMAIN b : j > k /\ b[j] = a[k]
    <3>1. PICK j \in DOMAIN b : b[j] = a[k]
      BY <1>2, <2>4
    <3>2. j \in Nat /\ k \in Nat
      BY <1>1, <2>3
    <3>3. ~(j < k)
      BY <2>2, <2>4, <3>1, <3>2
    <3>4. j # k
      BY <2>1, <2>4, <3>1
    <3> QED
      BY <3>1, <3>2, <3>3, <3>4
  <2>5. ASSUME k \in DOMAIN b
        PROVE  \E j \in DOMAIN a : j > k /\ a[j] = b[k]
    <3>1. PICK j \in DOMAIN a : a[j] = b[k]
      BY <1>2, <2>5
    <3>2. j \in Nat /\ k \in Nat
      BY <1>1, <2>3
    <3>3. ~(j < k)
      BY <2>2, <2>5, <3>1, <3>2
    <3>4. j # k
      BY <2>1, <2>5, <3>1
    <3> QED
      BY <3>1, <3>2, <3>3, <3>4
  <2>6. k \in DOMAIN a /\ k \in DOMAIN b
    <3>1. ASSUME k \in DOMAIN a PROVE k \in DOMAIN b
      BY <2>3, <2>4, <3>1
    <3>2. ASSUME k \in DOMAIN b PROVE k \in DOMAIN a
      BY <2>3, <2>5, <3>2
    <3> QED
      BY <2>1, <3>1, <3>2
  <2>7. PICK j \in DOMAIN b : j > k /\ b[j] = a[k]
    BY <2>4, <2>6
  <2>8. PICK i \in DOMAIN a : i > k /\ a[i] = b[k]
    BY <2>5, <2>6
  <2>9. Before(a, a[k], b[k])
    <3>1. k < i
      BY <2>3, <2>8
    <3> QED
      BY <2>6, <2>8, <3>1 DEF Before
  <2>10. Before(b, b[k], a[k])
    <3>1. k < j
      BY <2>3, <2>7
    <3> QED
      BY <2>6, <2>7, <3>1 DEF Before
  <2> QED
    BY <2>9, <2>10
<1>4. /\ \A k \in DOMAIN a : k \in DOMAIN b /\ a[k] = b[k]
      /\ \A k \in DOMAIN b : k \in DOMAIN a
  BY <1>3
<1>5. DOMAIN a = DOMAIN b
  BY <1>4
<1> QED
  BY <1>4, <1>5

\* A node shows the same at two idle replicas that were given the same
\* operations: deleted at both or at neither, and with the same marks.
LEMMA SameNodes ==
    ASSUME IInv, CInv, Idle, NEW r \in Replicas, NEW s \in Replicas,
           seen[r] = seen[s], NEW id \in DOMAIN nodesById[r],
           id \in DOMAIN nodesById[s]
    PROVE  LET a == nodesById[r][id]
               b == nodesById[s][id]
           IN  /\ a.tombstone => b.tombstone
               /\ ~a.tombstone /\ ~b.tombstone =>
                    /\ a.value = b.value /\ a.value # Null
                    /\ a.attrs = b.attrs
<1> DEFINE a == nodesById[r][id]
           b == nodesById[s][id]
           known == seen[r]
<1>1. a \in Node /\ b \in Node /\ known \subseteq ops /\ ops \subseteq Op
  BY DEF IInv, TypeOK
<1>2. NodeFrom(known, id, a) /\ NodeFrom(known, id, b)
  BY DEF CInv, NodesFromSeen
<1>3. ASSUME NEW q \in {r, s}, NEW op \in known, op.type # "insert", op.targetId = id
      PROVE  InEffect(nodesById[q], op)
  <2>1. q \in Replicas /\ queue[q] = <<>> /\ op \in seen[q]
    BY DEF Idle
  <2>2. ~Missing(q, op)
    BY <1>3 DEF Missing, dependencyOf
  <2>3. op \notin buffered(q)
    BY <2>1, <2>2, BufferedWaits
  <2> QED
    BY <2>1, <2>3 DEF CInv, OpsKept
<1>4. ASSUME a.tombstone PROVE b.tombstone
  <2>1. PICK d \in known : d.type = "delete" /\ d.targetId = id
    BY <1>2, <1>4 DEF NodeFrom
  <2>2. InEffect(nodesById[s], d)
    BY <1>3, <2>1
  <2> QED
    BY <2>1, <2>2 DEF InEffect
<1>5. ASSUME NEW f \in known, f.type = "format", f.targetId = id
      PROVE  /\ f \in FormatOp /\ f.id \in OpId /\ f.mark \in Marks
             /\ ~a.tombstone => /\ a.formatClock[f.mark] # Null
                                /\ compareOpId(a.formatClock[f.mark], f.id) >= 0
             /\ ~b.tombstone => /\ b.formatClock[f.mark] # Null
                                /\ compareOpId(b.formatClock[f.mark], f.id) >= 0
  <2>1. f \in FormatOp
    BY <1>1, <1>5 DEF Op, InsertOp, DeleteOp
  <2>2. InEffect(nodesById[r], f) /\ InEffect(nodesById[s], f)
    BY <1>3, <1>5
  <2>3. (~a.tombstone => ~decides(a, f)) /\ (~b.tombstone => ~decides(b, f))
    BY <1>5, <2>2 DEF InEffect
  <2>4. f.id \in OpId /\ f.mark \in Marks
    BY <2>1 DEF FormatOp
  <2> HIDE DEF a, b
  <2> QED
    BY <1>1, <2>1, <2>3, <2>4, NotDecides
<1> HIDE DEF a, b
<1>6. ASSUME ~a.tombstone, ~b.tombstone
      PROVE  /\ a.value = b.value /\ a.value # Null
             /\ a.attrs = b.attrs
  <2>1. PICK x \in known :
          /\ x.type = "insert" /\ x.id = id /\ a.value = x.value
          /\ \A m \in Marks : MarkFrom(known, id, a, x, m)
    BY <1>2, <1>6 DEF NodeFrom
  <2>2. PICK y \in known :
          /\ y.type = "insert" /\ y.id = id /\ b.value = y.value
          /\ \A m \in Marks : MarkFrom(known, id, b, y, m)
    BY <1>2, <1>6 DEF NodeFrom
  <2>3. x = y
    BY <1>1, <2>1, <2>2 DEF IInv, UniqueInsertIds
  <2>4. x.value # Null
    BY <1>1, <2>1, NullAssumption DEF Op, InsertOp, DeleteOp, FormatOp
  <2>5. ASSUME NEW m \in Marks PROVE m \in a.attrs <=> m \in b.attrs
    <3>1. MarkFrom(known, id, a, x, m) /\ MarkFrom(known, id, b, x, m)
      BY <2>1, <2>2, <2>3
    <3>2. CASE a.formatClock[m] = Null
      <4>1. b.formatClock[m] = Null
        <5> SUFFICES ASSUME b.formatClock[m] # Null PROVE FALSE
          OBVIOUS
        <5>1. PICK f \in known : f.type = "format" /\ f.targetId = id /\ f.mark = m
          BY <3>1 DEF MarkFrom
        <5> QED
          BY <1>5, <1>6, <3>2, <5>1
      <4> QED
        BY <3>1, <3>2, <4>1 DEF MarkFrom
    <3>3. CASE a.formatClock[m] # Null
      <4>1. PICK f \in known : /\ f.type = "format" /\ f.targetId = id /\ f.mark = m
                               /\ f.id = a.formatClock[m]
                               /\ (m \in a.attrs <=> f.value = TRUE)
        BY <3>1, <3>3 DEF MarkFrom
      <4>2. b.formatClock[m] # Null /\ compareOpId(b.formatClock[m], f.id) >= 0
        BY <1>5, <1>6, <4>1
      <4>3. PICK g \in known : /\ g.type = "format" /\ g.targetId = id /\ g.mark = m
                               /\ g.id = b.formatClock[m]
                               /\ (m \in b.attrs <=> g.value = TRUE)
        BY <3>1, <4>2 DEF MarkFrom
      <4>4. compareOpId(a.formatClock[m], g.id) >= 0
        BY <1>5, <1>6, <4>3
      <4>5. compareOpId(g.id, f.id) >= 0 /\ compareOpId(f.id, g.id) >= 0
        BY <4>1, <4>2, <4>3, <4>4
      <4>6. f.id \in OpId /\ g.id \in OpId
        BY <1>5, <4>1, <4>3
      <4>7. f.id = g.id
        <5>1. /\ compareOpId(f.id, g.id) \in Int /\ compareOpId(g.id, f.id) \in Int
              /\ compareOpId(f.id, g.id) > 0 <=> compareOpId(g.id, f.id) < 0
              /\ compareOpId(f.id, g.id) = 0 <=> f.id = g.id
          BY <4>6, CompareTotal
        <5> QED
          BY <4>5, <5>1
      <4>8. f = g
        BY <1>1, <4>1, <4>3, <4>7 DEF CInv, FormatIdsDecide
      <4> QED
        BY <4>1, <4>3, <4>8
    <3> QED
      BY <3>2, <3>3
  <2>6. a.attrs \subseteq Marks /\ b.attrs \subseteq Marks
    BY <1>1 DEF Node
  <2> QED
    BY <2>1, <2>2, <2>3, <2>4, <2>5, <2>6
<1> QED
  BY <1>4, <1>6 DEF a, b

\* Strong eventual consistency of the CRDT: between two calls of apply, any two
\* replicas that were given the same operations, in whatever order, with
\* whatever duplicates, compactions and rebuilds, hold the same list and show
\* the same characters with the same marks.
THEOREM ReplicasConverge == Spec => []Convergence
<1>1. IInv /\ CInv => Convergence
  <2> SUFFICES ASSUME IInv, CInv, Idle, NEW r \in Replicas, NEW s \in Replicas,
                      seen[r] = seen[s]
               PROVE  list[r] = list[s] /\ contents(r) = contents(s)
    BY DEF Convergence
  <2>1. DOMAIN nodesById[r] = DOMAIN nodesById[s]
    <3>1. DOMAIN nodesById[r] \subseteq DOMAIN nodesById[s]
      BY SameIds
    <3>2. DOMAIN nodesById[s] \subseteq DOMAIN nodesById[r]
      BY SameIds
    <3> QED
      BY <3>1, <3>2
  <2>2. list[r] = list[s]
    <3>1. /\ list[r] \in Seq(OpId) /\ list[s] \in Seq(OpId)
          /\ {list[r][k] : k \in DOMAIN list[r]} = DOMAIN nodesById[r]
          /\ {list[s][k] : k \in DOMAIN list[s]} = DOMAIN nodesById[s]
          /\ \A j, k \in DOMAIN list[r] : list[r][j] = list[r][k] => j = k
          /\ \A j, k \in DOMAIN list[s] : list[s][j] = list[s][k] => j = k
      BY DEF IInv, TypeOK, ListHoldsNodes
    <3>2. \A x, y : ~(Before(list[r], x, y) /\ Before(list[s], y, x))
      BY NoDisagreement
    <3> DEFINE a == list[r]
               b == list[s]
    <3> HIDE DEF a, b
    <3>3. a = b
      BY <2>1, <3>1, <3>2, SameLists DEF a, b
    <3> QED
      BY <3>3 DEF a, b
  <2> DEFINE visible(nodes) == {id \in DOMAIN nodes : /\ ~nodes[id].tombstone
                                                     /\ nodes[id].value # Null}
             cells(nodes) == [id \in visible(nodes) |->
                                [insert |-> nodes[id].value,
                                 attributes |-> nodes[id].attrs]]
  <2>3. ASSUME NEW id \in DOMAIN nodesById[r]
        PROVE  LET a == nodesById[r][id]
                   b == nodesById[s][id]
               IN  /\ a.tombstone <=> b.tombstone
                   /\ ~a.tombstone => /\ a.value = b.value /\ a.value # Null
                                      /\ a.attrs = b.attrs
    <3>1. id \in DOMAIN nodesById[s]
      BY <2>1
    <3>2. /\ nodesById[r][id].tombstone => nodesById[s][id].tombstone
          /\ ~nodesById[r][id].tombstone /\ ~nodesById[s][id].tombstone =>
               /\ nodesById[r][id].value = nodesById[s][id].value
               /\ nodesById[r][id].value # Null
               /\ nodesById[r][id].attrs = nodesById[s][id].attrs
      BY <3>1, SameNodes
    <3>3. nodesById[s][id].tombstone => nodesById[r][id].tombstone
      BY <3>1, SameNodes
    <3> QED
      BY <3>2, <3>3
  <2>4. visible(nodesById[r]) = visible(nodesById[s])
    BY <2>1, <2>3
  <2>5. cells(nodesById[r]) = cells(nodesById[s])
    <3>1. \A id \in visible(nodesById[r]) :
            /\ nodesById[r][id].value = nodesById[s][id].value
            /\ nodesById[r][id].attrs = nodesById[s][id].attrs
      BY <2>3
    <3> HIDE DEF visible
    <3> QED
      BY <2>4, <3>1
  <2>6. /\ contents(r) = inOrder(list[r], cells(nodesById[r]))
        /\ contents(s) = inOrder(list[s], cells(nodesById[s]))
    BY DEF contents
  <2> HIDE DEF cells
  <2> QED
    BY <2>2, <2>5, <2>6
<1> QED
  BY <1>1, Invariance, ConvergenceInvariance, PTL

=============================================================================
