----------------------------- MODULE RgaProofs -----------------------------
(***************************************************************************)
(* Proofs about the sequence CRDT of Rga.tla, for every set of replicas,   *)
(* every set of marks and any number of operations.                        *)
(***************************************************************************)
EXTENDS Rga, WellFoundedInduction, FiniteSetTheorems, TLAPS

-----------------------------------------------------------------------------
(* Ids *)

\* compareOpId orders the ids totally.
LEMMA CompareTotal ==
    ASSUME NEW a \in OpId, NEW b \in OpId
    PROVE  /\ compareOpId(a, b) \in Int
           /\ compareOpId(a, b) > 0 <=> compareOpId(b, a) < 0
           /\ compareOpId(a, b) = 0 <=> a = b
<1>1. /\ a.counter \in Nat /\ a.replicaId \in Nat
      /\ b.counter \in Nat /\ b.replicaId \in Nat
  BY ReplicasAssumption DEF OpId, Replicas
<1>2. compareOpId(a, b) \in Int
  BY <1>1 DEF compareOpId
<1>3. compareOpId(a, b) > 0 <=> compareOpId(b, a) < 0
  BY <1>1 DEF compareOpId
<1>4. a.counter = b.counter /\ a.replicaId = b.replicaId => a = b
  BY DEF OpId
<1>5. compareOpId(a, b) = 0 <=> a = b
  BY <1>1, <1>4 DEF compareOpId
<1> QED
  BY <1>2, <1>3, <1>5

\* compareOpId is transitive.
LEMMA CompareTransitive ==
    ASSUME NEW a \in OpId, NEW b \in OpId, NEW c \in OpId,
           compareOpId(a, b) > 0, compareOpId(b, c) > 0
    PROVE  compareOpId(a, c) > 0
<1>1. /\ a.counter \in Nat /\ a.replicaId \in Nat
      /\ b.counter \in Nat /\ b.replicaId \in Nat
      /\ c.counter \in Nat /\ c.replicaId \in Nat
  BY ReplicasAssumption DEF OpId, Replicas
<1> QED
  BY <1>1 DEF compareOpId

\* A set of naturals that is not empty has a least element.
LEMMA LeastNat ==
    ASSUME NEW S \in SUBSET Nat, S # {}
    PROVE  \E n \in S : \A m \in S : n <= m
<1>1. PICK n \in S : \A m \in S : <<m, n>> \notin OpToRel(<, Nat)
  BY NatLessThanWellFounded, WFMin
<1>2. \A m \in S : ~(m < n)
  BY <1>1 DEF OpToRel
<1> QED
  BY <1>2

\* A bounded set of naturals that is not empty has a greatest element.
LEMMA GreatestNat ==
    ASSUME NEW S \in SUBSET Nat, S # {}, NEW b \in Nat, \A m \in S : m <= b
    PROVE  \E n \in S : \A m \in S : m <= n
<1> DEFINE U == {u \in Nat : \A m \in S : m <= u}
<1>1. PICK u \in U : \A v \in U : u <= v
  BY LeastNat
<1>2. CASE u \in S
  BY <1>2
<1>3. CASE u \notin S
  <2>1. \A m \in S : m <= u - 1
    BY <1>3
  <2>2. u - 1 \in U
    <3>1. PICK m \in S : TRUE
      OBVIOUS
    <3>2. m \in Nat /\ u \in Nat /\ m <= u - 1
      BY <2>1
    <3> QED
      BY <2>1, <3>2
  <2> QED
    BY <1>1, <2>2
<1> QED
  BY <1>2, <1>3

\* fromSnapshot's counter is not behind any id of the snapshot.
LEMMA MaxCounterDominates ==
    ASSUME NEW ids \in SUBSET OpId, NEW b \in Nat,
           \A id \in ids : id.counter <= b
    PROVE  /\ maxCounter(ids) \in Nat
           /\ \A id \in ids : id.counter <= maxCounter(ids)
<1>1. CASE ids = {}
  BY <1>1 DEF maxCounter
<1>2. CASE ids # {}
  <2> DEFINE S == {id.counter : id \in ids}
  <2>1. S \in SUBSET Nat /\ S # {} /\ \A m \in S : m <= b
    BY <1>2 DEF OpId
  <2>2. \E n \in S : \A m \in S : m <= n
    BY <2>1, GreatestNat
  <2>3. \E c \in S : \A id \in ids : id.counter <= c
    BY <2>2
  <2> QED
    BY <1>2, <2>1, <2>3 DEF maxCounter
<1> QED
  BY <1>1, <1>2

-----------------------------------------------------------------------------
(* integrate *)

\* The scan of integrate ends, right of the anchor, in front of an id that is
\* not greater, and has crossed greater ids only.
LEMMA ScanStops ==
    ASSUME NEW s \in Seq(OpId), NEW id \in OpId, NEW anchor,
           anchor # Null => \E k \in DOMAIN s : s[k] = anchor
    PROVE  LET a == anchorIndex(s, anchor)
               p == scanStop(s, anchor, id)
           IN  /\ a \in 0..Len(s)
               /\ IF a = 0 THEN anchor = Null ELSE s[a] = anchor
               /\ p \in (a + 1)..(Len(s) + 1)
               /\ p <= Len(s) => compareOpId(s[p], id) <= 0
               /\ \A k \in (a + 1)..(p - 1) : compareOpId(s[k], id) > 0
<1> DEFINE a == anchorIndex(s, anchor)
           Stops == {q \in (a + 1)..(Len(s) + 1) :
                       q <= Len(s) => compareOpId(s[q], id) <= 0}
<1>1. a \in 0..Len(s) /\ IF a = 0 THEN anchor = Null ELSE s[a] = anchor
  <2>1. CASE anchor = Null
    BY <2>1 DEF anchorIndex
  <2>2. CASE anchor # Null
    <3>1. a \in DOMAIN s /\ s[a] = anchor
      BY <2>2 DEF anchorIndex
    <3> QED
      BY <3>1
  <2> QED
    BY <2>1, <2>2
<1>2. Len(s) + 1 \in Stops
  BY <1>1
<1>3. PICK p \in Stops : \A q \in Stops : p <= q
  <2>1. Stops \in SUBSET Nat /\ Stops # {}
    BY <1>1, <1>2
  <2> HIDE DEF Stops
  <2> QED
    BY <2>1, LeastNat
<1>4. ASSUME NEW k \in (a + 1)..(p - 1)
      PROVE  compareOpId(s[k], id) > 0
  <2>1. k \in DOMAIN s /\ s[k] \in OpId /\ k \notin Stops
    BY <1>1, <1>3
  <2>2. ~(compareOpId(s[k], id) <= 0)
    BY <1>1, <1>3, <2>1
  <2> QED
    BY <2>1, <2>2, CompareTotal
<1>5. \E q \in (a + 1)..(Len(s) + 1) :
        /\ q <= Len(s) => compareOpId(s[q], id) <= 0
        /\ \A k \in (a + 1)..(q - 1) : compareOpId(s[k], id) > 0
  BY <1>3, <1>4
<1> QED
  BY <1>1, <1>5 DEF scanStop

\* linkAt makes room for id at place p and moves nothing else.
LEMMA LinkAtShifts ==
    ASSUME NEW s \in Seq(OpId), NEW id \in OpId, NEW p \in 1..(Len(s) + 1)
    PROVE  LET t == linkAt(s, p, id) IN
           /\ t \in Seq(OpId)
           /\ Len(t) = Len(s) + 1
           /\ t[p] = id
           /\ \A k \in 1..Len(s) : t[IF k < p THEN k ELSE k + 1] = s[k]
           /\ \A k \in 1..Len(t) :
                k # p => /\ (IF k < p THEN k ELSE k - 1) \in 1..Len(s)
                         /\ t[k] = s[IF k < p THEN k ELSE k - 1]
<1> DEFINE t == linkAt(s, p, id)
<1>1. \A k \in 1..(Len(s) + 1) :
        (IF k < p THEN s[k] ELSE IF k = p THEN id ELSE s[k - 1]) \in OpId
  OBVIOUS
<1>2. t \in [1..(Len(s) + 1) -> OpId]
  BY <1>1 DEF linkAt
<1>3. t \in Seq(OpId) /\ Len(t) = Len(s) + 1
  BY <1>2
<1> QED
  BY <1>3 DEF linkAt

\* The nodes of the new list are those of the old one and the new id, once each.
LEMMA LinkAtHolds ==
    ASSUME NEW s \in Seq(OpId), NEW id \in OpId, NEW p \in 1..(Len(s) + 1),
           \A k \in DOMAIN s : s[k] # id,
           \A j, k \in DOMAIN s : s[j] = s[k] => j = k
    PROVE  LET t == linkAt(s, p, id) IN
           /\ {t[k] : k \in DOMAIN t} = {s[k] : k \in DOMAIN s} \cup {id}
           /\ \A j, k \in DOMAIN t : t[j] = t[k] => j = k
<1> DEFINE t == linkAt(s, p, id)
           old(k) == IF k < p THEN k ELSE k - 1
           new(k) == IF k < p THEN k ELSE k + 1
<1>1. /\ DOMAIN t = 1..(Len(s) + 1) /\ DOMAIN s = 1..Len(s) /\ t[p] = id
      /\ \A k \in DOMAIN s : new(k) \in DOMAIN t /\ t[new(k)] = s[k]
      /\ \A k \in DOMAIN t : k # p => old(k) \in DOMAIN s /\ t[k] = s[old(k)]
  <2>1. /\ t \in Seq(OpId) /\ Len(t) = Len(s) + 1 /\ t[p] = id
        /\ \A k \in 1..Len(s) : t[new(k)] = s[k]
        /\ \A k \in 1..Len(t) :
             k # p => old(k) \in 1..Len(s) /\ t[k] = s[old(k)]
    BY LinkAtShifts
  <2>2. \A k \in 1..Len(s) : new(k) \in 1..(Len(s) + 1)
    OBVIOUS
  <2> HIDE DEF t, old, new
  <2> QED
    BY <2>1, <2>2
<1>2. {t[k] : k \in DOMAIN t} = {s[k] : k \in DOMAIN s} \cup {id}
  <2> HIDE DEF t, old, new
  <2> QED
    BY <1>1
<1>3. ASSUME NEW j \in DOMAIN t, NEW k \in DOMAIN t, t[j] = t[k]
      PROVE  j = k
  <2>1. (j = p) = (k = p)
    <3> HIDE DEF t, old, new
    <3> QED
      BY <1>1, <1>3
  <2>2. CASE j # p /\ k # p
    <3>1. old(j) = old(k)
      <4> HIDE DEF t, old, new
      <4> QED
        BY <1>1, <1>3, <2>2
    <3> QED
      BY <1>1, <2>2, <3>1
  <2> QED
    BY <2>1, <2>2
<1> QED
  BY <1>2, <1>3

\* The new node is right of its origin and below what it crossed.
LEMMA NewNodeAfterOrigin ==
    ASSUME NEW s \in Seq(OpId), NEW id \in OpId, NEW anchor,
           anchor # Null => \E k \in DOMAIN s : s[k] = anchor
    PROVE  LET p == scanStop(s, anchor, id) IN
           AfterOrigin(linkAt(s, p, id), p, anchor)
<1> DEFINE a == anchorIndex(s, anchor)
           p == scanStop(s, anchor, id)
           t == linkAt(s, p, id)
<1>1. /\ a \in 0..Len(s)
      /\ IF a = 0 THEN anchor = Null ELSE s[a] = anchor
      /\ p \in (a + 1)..(Len(s) + 1)
      /\ \A k \in (a + 1)..(p - 1) : compareOpId(s[k], id) > 0
  BY ScanStops
<1>2. p \in 1..(Len(s) + 1)
  BY <1>1
<1>3. t[p] = id /\ \A k \in 1..(p - 1) : t[k] = s[k]
  <2> HIDE DEF p
  <2> QED
    BY <1>2 DEF linkAt
<1> HIDE DEF a, p, t
<1>4. a \in 0..(p - 1) /\ IF a = 0 THEN anchor = Null ELSE t[a] = anchor
  BY <1>1, <1>2, <1>3
<1>5. \A i \in (a + 1)..(p - 1) : compareOpId(t[i], t[p]) > 0
  BY <1>1, <1>2, <1>3
<1>6. AfterOrigin(t, p, anchor)
  BY <1>4, <1>5 DEF AfterOrigin
<1> QED
  BY <1>6 DEF p, t

\* Every older node stays right of its origin with only greater ids between:
\* where the new id comes between the two, the node it stopped at lies there
\* too or is the node itself, and is less than the new id.
LEMMA OldNodeAfterOrigin ==
    ASSUME NEW s \in Seq(OpId), NEW id \in OpId, NEW anchor,
           anchor # Null => \E k \in DOMAIN s : s[k] = anchor,
           \A k \in DOMAIN s : s[k] # id,
           NEW k \in DOMAIN s, NEW origin, AfterOrigin(s, k, origin)
    PROVE  LET p == scanStop(s, anchor, id) IN
           AfterOrigin(linkAt(s, p, id), IF k < p THEN k ELSE k + 1, origin)
<1> DEFINE p == scanStop(s, anchor, id)
           t == linkAt(s, p, id)
           new(i) == IF i < p THEN i ELSE i + 1
           old(i) == IF i < p THEN i ELSE i - 1
<1>1. p \in 1..(Len(s) + 1) /\ (p <= Len(s) => compareOpId(s[p], id) <= 0)
  BY ScanStops
<1>2. p <= Len(s) => compareOpId(id, s[p]) > 0
  <2> SUFFICES ASSUME p <= Len(s) PROVE compareOpId(id, s[p]) > 0
    OBVIOUS
  <2>1. p \in DOMAIN s /\ s[p] \in OpId /\ s[p] # id
    BY <1>1
  <2> HIDE DEF p
  <2> QED
    BY <1>1, <2>1, CompareTotal
<1>3. /\ t[p] = id
      /\ \A i \in 1..Len(s) : t[new(i)] = s[i]
      /\ \A i \in 1..(Len(s) + 1) :
           i # p => old(i) \in 1..Len(s) /\ t[i] = s[old(i)]
  BY <1>1, LinkAtShifts
<1>4. PICK j \in 0..(k - 1) :
        /\ IF j = 0 THEN origin = Null ELSE s[j] = origin
        /\ \A i \in (j + 1)..(k - 1) : compareOpId(s[i], s[k]) > 0
  BY DEF AfterOrigin
<1> DEFINE n == IF j = 0 THEN 0 ELSE new(j)
<1>5. k \in 1..Len(s) /\ k \in Nat /\ Len(s) \in Nat /\ s[k] \in OpId
  OBVIOUS
<1>6. n \in 0..(new(k) - 1) /\ IF n = 0 THEN origin = Null ELSE t[n] = origin
  <2> HIDE DEF p, t
  <2> QED
    BY <1>1, <1>3, <1>4, <1>5
<1>7. ASSUME NEW i \in (n + 1)..(new(k) - 1)
      PROVE  compareOpId(t[i], t[new(k)]) > 0
  <2> HIDE DEF p, t
  <2>1. t[new(k)] = s[k]
    BY <1>3, <1>5
  <2>2. CASE i # p
    <3>1. i \in 1..(Len(s) + 1) /\ old(i) \in (j + 1)..(k - 1)
      BY <1>1, <1>4, <1>5, <2>2
    <3> QED
      BY <1>3, <1>4, <2>1, <2>2, <3>1
  <2>3. CASE i = p
    <3>1. p \in (j + 1)..k
      BY <1>1, <1>4, <1>5, <2>3
    <3>2. CASE p = k
      BY <1>2, <1>3, <1>5, <2>1, <2>3, <3>2
    <3>3. CASE p < k
      <4>1. compareOpId(s[p], s[k]) > 0
        BY <1>1, <1>4, <3>1, <3>3
      <4>2. compareOpId(id, s[p]) > 0 /\ s[p] \in OpId
        BY <1>1, <1>2, <1>5, <3>3
      <4> QED
        BY <1>3, <1>5, <2>1, <2>3, <4>1, <4>2, CompareTransitive
    <3> QED
      BY <3>1, <3>2, <3>3
  <2> QED
    BY <2>2, <2>3
<1>8. AfterOrigin(t, new(k), origin)
  <2> HIDE DEF p, t, n, new
  <2> QED
    BY <1>6, <1>7 DEF AfterOrigin
<1> QED
  BY <1>8

-----------------------------------------------------------------------------
(* Nodes *)

\* The ids of a map of nodes, one node and one mark at a time.
LEMMA IdsOfBounded ==
    ASSUME NEW nodes, NEW c
    PROVE  (\A id \in idsOf(nodes) : id.counter <= c) <=>
             \A id \in DOMAIN nodes :
                /\ id.counter <= c
                /\ \A m \in Marks : LET by == nodes[id].formatClock[m] IN
                                    by # Null => by.counter <= c
  BY DEF idsOf

\* The ids that fromSnapshot collects are operation ids.
LEMMA IdsOfType ==
    ASSUME NEW nodes, DOMAIN nodes \subseteq OpId,
           nodes \in [DOMAIN nodes -> Node]
    PROVE  idsOf(nodes) \subseteq OpId
<1> SUFFICES ASSUME NEW id \in DOMAIN nodes, NEW m \in Marks,
                    nodes[id].formatClock[m] # Null
             PROVE  nodes[id].formatClock[m] \in OpId
  BY DEF idsOf
<1>1. nodes[id] \in Node
  OBVIOUS
<1> QED
  BY <1>1 DEF Node

\* The node integrate creates for an insert is a Node.
LEMMA NewNodeType ==
    ASSUME NEW op \in InsertOp
    PROVE  /\ newNode(op) \in Node
           /\ newNode(op).originId = op.originId
           /\ \A m \in Marks : newNode(op).formatClock[m] = Null
  BY DEF newNode, NoClock, InsertOp, Node

\* A node that a delete marks stays a Node.
LEMMA TombstoneType ==
    ASSUME NEW node \in Node
    PROVE  LET n == [node EXCEPT !.tombstone = TRUE] IN
           /\ n \in Node
           /\ n.originId = node.originId
           /\ n.formatClock = node.formatClock
  BY DEF Node

\* compactTombstones turns a Node into a Node.
LEMMA CompactedType ==
    ASSUME NEW node \in Node
    PROVE  /\ compacted(node) \in Node
           /\ compacted(node).originId = node.originId
           /\ \A m \in Marks : compacted(node).formatClock[m]
                                 \in {Null, node.formatClock[m]}
<1>1. NoClock \in [Marks -> OpId \cup {Null}]
  BY DEF NoClock
<1> QED
  BY <1>1 DEF compacted, Node, NoClock

\* A format operation leaves a node's origin alone, and a mark's clock keeps
\* its id or takes that of one of the operations.
LEMMA FormattedType ==
    ASSUME NEW node \in Node, NEW fops \in SUBSET FormatOp
    PROVE  LET n == applyFormatOps(node, fops) IN
           /\ n \in Node
           /\ n.originId = node.originId
           /\ \A m \in Marks : \/ n.formatClock[m] = node.formatClock[m]
                               \/ \E op \in fops : n.formatClock[m] = op.id
<1> DEFINE won == {op \in fops : decides(node, op)}
           winner(m) == CHOOSE op \in won : op.mark = m
           decided == {op.mark : op \in won}
           on == {m \in decided : winner(m).value = TRUE}
           clock == [m \in Marks |->
                       IF m \in decided THEN winner(m).id
                       ELSE node.formatClock[m]]
           attrs == (node.attrs \ decided) \cup on
<1>1. \A m \in decided : winner(m) \in fops
  OBVIOUS
<1>2. \A op \in fops : op.id \in OpId /\ op.mark \in Marks
  BY DEF FormatOp
<1>3. node.formatClock \in [Marks -> OpId \cup {Null}]
      /\ node.attrs \in SUBSET Marks
  BY DEF Node
<1>4. decided \subseteq Marks
  BY <1>2
<1>5. attrs \in SUBSET Marks
  BY <1>3, <1>4
<1>6. clock \in [Marks -> OpId \cup {Null}]
      /\ \A m \in Marks : \/ clock[m] = node.formatClock[m]
                          \/ \E op \in fops : clock[m] = op.id
  <2> HIDE DEF winner, decided
  <2> QED
    BY <1>1, <1>2, <1>3, <1>4
<1>7. applyFormatOps(node, fops) =
        [node EXCEPT !.attrs = attrs, !.formatClock = clock]
  BY DEF applyFormatOps
<1> HIDE DEF attrs, clock
<1> DEFINE n == [node EXCEPT !.attrs = attrs, !.formatClock = clock]
<1>8. n \in Node
  BY <1>5, <1>6 DEF Node
<1>9. n.originId = node.originId /\ n.formatClock = clock
  BY DEF Node
<1> HIDE DEF n
<1> QED
  BY <1>6, <1>7, <1>8, <1>9 DEF n

-----------------------------------------------------------------------------
(* What the conjuncts of the invariant depend on *)

\* Nodes that keep their ids and origins keep the structure of the lists.
LEMMA SameSkeleton ==
    ASSUME IInv, list' = list, ops \subseteq ops',
           \A r \in Replicas :
             /\ DOMAIN nodesById'[r] = DOMAIN nodesById[r]
             /\ \A id \in DOMAIN nodesById[r] :
                  nodesById'[r][id].originId = nodesById[r][id].originId
    PROVE  ListHoldsNodes' /\ OriginRule' /\ NodesFromInserts'
<1>1. ListHoldsNodes'
  BY DEF IInv, ListHoldsNodes
<1>2. OriginRule'
  <2> SUFFICES ASSUME NEW r \in Replicas, NEW k \in DOMAIN list[r]
               PROVE  AfterOrigin(list[r], k,
                                  nodesById'[r][list[r][k]].originId)
    BY DEF OriginRule, AfterOrigin
  <2>1. list[r][k] \in DOMAIN nodesById[r]
    BY DEF IInv, ListHoldsNodes
  <2> QED
    BY <2>1 DEF IInv, OriginRule
<1>3. NodesFromInserts'
  BY DEF IInv, NodesFromInserts
<1> QED
  BY <1>1, <1>2, <1>3

\* Counters that do not fall back keep what is known of the operations.
LEMMA SameOps ==
    ASSUME IInv, ops' = ops, counter' \in [Replicas -> Nat],
           \A r \in Replicas : counter[r] <= counter'[r]
    PROVE  CausalOps' /\ UniqueInsertIds'
<1>1. UniqueInsertIds'
  BY DEF IInv, UniqueInsertIds
<1>2. ASSUME NEW op \in ops, op.type = "insert"
      PROVE  op.id.counter <= counter'[op.id.replicaId]
  <2>1. op \in InsertOp
    BY <1>2 DEF IInv, TypeOK, Op, DeleteOp, FormatOp
  <2>2. op.id.counter \in Nat /\ op.id.replicaId \in Replicas
    BY <2>1 DEF InsertOp, OpId
  <2>3. op.id.counter <= counter[op.id.replicaId]
    BY <1>2 DEF IInv, CausalOps
  <2> QED
    BY <2>2, <2>3 DEF IInv, TypeOK
<1>3. CausalOps'
  BY <1>2 DEF IInv, CausalOps, dependencyOf
<1> QED
  BY <1>1, <1>3

\* integrate adds one node to one replica and keeps the structure of the lists.
LEMMA IntegrateKeeps ==
    ASSUME IInv, NEW r \in Replicas, NEW op \in InsertOp,
           op.originId # Null => op.originId \in DOMAIN nodesById[r],
           op.id \notin DOMAIN nodesById[r],
           integrate(r, op.originId, op),
           op \in ops', ops \subseteq ops'
    PROVE  /\ list' \in [Replicas -> Seq(OpId)]
           /\ DOMAIN nodesById' = Replicas
           /\ \A q \in Replicas : /\ DOMAIN nodesById'[q] \subseteq OpId
                                  /\ nodesById'[q] \in [DOMAIN nodesById'[q] -> Node]
                                  /\ q # r => nodesById'[q] = nodesById[q]
           /\ nodesById'[r] = withNode(nodesById[r], op.id, newNode(op))
           /\ ListHoldsNodes' /\ OriginRule' /\ NodesFromInserts'
<1> DEFINE s == list[r]
           p == scanStop(s, op.originId, op.id)
           t == linkAt(s, p, op.id)
           old == nodesById[r]
           new == withNode(old, op.id, newNode(op))
<1>1. /\ s \in Seq(OpId) /\ list \in [Replicas -> Seq(OpId)]
      /\ DOMAIN nodesById = Replicas
      /\ op.id \in OpId
      /\ \A q \in Replicas : /\ DOMAIN nodesById[q] \subseteq OpId
                             /\ nodesById[q] \in [DOMAIN nodesById[q] -> Node]
  BY DEF IInv, TypeOK, InsertOp
<1>2. /\ {s[k] : k \in DOMAIN s} = DOMAIN old
      /\ \A j, k \in DOMAIN s : s[j] = s[k] => j = k
      /\ \A k \in DOMAIN s : s[k] # op.id
      /\ op.originId # Null => \E k \in DOMAIN s : s[k] = op.originId
  BY DEF IInv, ListHoldsNodes
<1>3. p \in 1..(Len(s) + 1)
  BY <1>1, <1>2, ScanStops
<1>4. t \in Seq(OpId)
  BY <1>1, <1>3, LinkAtShifts
<1>5. list' = [list EXCEPT ![r] = t] /\ nodesById' = [nodesById EXCEPT ![r] = new]
  BY DEF integrate
<1>6. /\ DOMAIN new = DOMAIN old \cup {op.id}
      /\ new[op.id] = newNode(op)
      /\ \A id \in DOMAIN old : new[id] = old[id]
      /\ new \in [DOMAIN new -> Node]
  BY <1>1, NewNodeType DEF withNode
<1>7. /\ list' \in [Replicas -> Seq(OpId)]
      /\ list'[r] = t /\ \A q \in Replicas : q # r => list'[q] = list[q]
  <2> HIDE DEF t
  <2> QED
    BY <1>1, <1>4, <1>5
<1>8. /\ DOMAIN nodesById' = Replicas /\ nodesById'[r] = new
      /\ \A q \in Replicas : q # r => nodesById'[q] = nodesById[q]
  <2> HIDE DEF new
  <2> QED
    BY <1>1, <1>5
<1>9. /\ {t[k] : k \in DOMAIN t} = {s[k] : k \in DOMAIN s} \cup {op.id}
      /\ \A j, k \in DOMAIN t : t[j] = t[k] => j = k
  BY <1>1, <1>2, <1>3, LinkAtHolds
<1>10. ListHoldsNodes'
  <2> HIDE DEF t, new
  <2> SUFFICES ASSUME NEW q \in Replicas
               PROVE  /\ {list'[q][k] : k \in DOMAIN list'[q]} = DOMAIN nodesById'[q]
                      /\ \A j, k \in DOMAIN list'[q] :
                            list'[q][j] = list'[q][k] => j = k
    BY DEF ListHoldsNodes
  <2>1. CASE q = r
    <3>1. {t[k] : k \in DOMAIN t} = DOMAIN new
      BY <1>2, <1>6, <1>9
    <3>2. list'[q] = t /\ nodesById'[q] = new
      BY <1>7, <1>8, <2>1
    <3> QED
      BY <1>9, <3>1, <3>2
  <2>2. CASE q # r
    BY <1>7, <1>8, <2>2 DEF IInv, ListHoldsNodes
  <2> QED
    BY <2>1, <2>2
<1>11. ASSUME NEW k \in DOMAIN t
       PROVE  AfterOrigin(t, k, new[t[k]].originId)
  <2>1. CASE k = p
    <3>1. t[p] = op.id
      BY <1>1, <1>3, LinkAtShifts
    <3>2. AfterOrigin(t, p, op.originId)
      BY <1>1, <1>2, NewNodeAfterOrigin
    <3>3. new[t[p]].originId = op.originId
      BY <1>6, <3>1, NewNodeType
    <3> QED
      BY <2>1, <3>2, <3>3
  <2>2. CASE k # p
    <3> DEFINE o == IF k < p THEN k ELSE k - 1
    <3>1. o \in DOMAIN s /\ t[k] = s[o]
      <4>1. \A i \in 1..Len(t) :
              i # p => /\ (IF i < p THEN i ELSE i - 1) \in 1..Len(s)
                       /\ t[i] = s[IF i < p THEN i ELSE i - 1]
        BY <1>1, <1>3, LinkAtShifts
      <4>2. k \in 1..Len(t) /\ DOMAIN s = 1..Len(s)
        BY <1>1, <1>4
      <4> HIDE DEF t, p, s
      <4> QED
        BY <2>2, <4>1, <4>2
    <3>2. AfterOrigin(s, o, old[s[o]].originId)
      BY <3>1 DEF IInv, OriginRule
    <3>3. AfterOrigin(t, IF o < p THEN o ELSE o + 1, old[s[o]].originId)
      <4> HIDE DEF o
      <4> QED
        BY <1>1, <1>2, <3>1, <3>2, OldNodeAfterOrigin
    <3>4. (IF o < p THEN o ELSE o + 1) = k
      <4>1. k \in Int /\ p \in Int
        BY <1>3, <1>4
      <4> HIDE DEF p, t
      <4> QED
        BY <2>2, <4>1
    <3>5. s[o] \in DOMAIN old
      BY <1>2, <3>1
    <3>6. new[t[k]] = old[s[o]]
      BY <1>6, <3>1, <3>5
    <3> HIDE DEF o, new, old, t
    <3> QED
      BY <3>3, <3>4, <3>6
  <2> QED
    BY <2>1, <2>2
<1>12. OriginRule'
  <2> HIDE DEF t, new
  <2> SUFFICES ASSUME NEW q \in Replicas, NEW k \in DOMAIN list'[q]
               PROVE  AfterOrigin(list'[q], k, nodesById'[q][list'[q][k]].originId)
    BY DEF OriginRule, AfterOrigin
  <2>1. CASE q = r
    BY <1>7, <1>8, <1>11, <2>1
  <2>2. CASE q # r
    BY <1>7, <1>8, <2>2 DEF IInv, OriginRule
  <2> QED
    BY <2>1, <2>2
<1>13. NodesFromInserts'
  <2> HIDE DEF new
  <2> SUFFICES ASSUME NEW q \in Replicas, NEW id \in DOMAIN nodesById'[q]
               PROVE  \E b \in ops' : /\ b.type = "insert" /\ b.id = id
                                      /\ b.originId = nodesById'[q][id].originId
    BY DEF NodesFromInserts
  <2>1. CASE q = r /\ id = op.id
    BY <1>6, <1>8, <2>1, NewNodeType DEF InsertOp
  <2>2. CASE q = r /\ id # op.id
    BY <1>6, <1>8, <2>2 DEF IInv, NodesFromInserts
  <2>3. CASE q # r
    BY <1>8, <2>3 DEF IInv, NodesFromInserts
  <2> QED
    BY <2>1, <2>2, <2>3
<1>14. \A q \in Replicas : /\ DOMAIN nodesById'[q] \subseteq OpId
                           /\ nodesById'[q] \in [DOMAIN nodesById'[q] -> Node]
  <2> HIDE DEF new
  <2> QED
    BY <1>1, <1>6, <1>8
<1> QED
  BY <1>7, <1>8, <1>10, <1>12, <1>13, <1>14

\* A sequence of operations stays one when more operations are known.
LEMMA SeqGrows ==
    ASSUME NEW S, NEW T, S \subseteq T
    PROVE  Seq(S) \subseteq Seq(T)
  OBVIOUS

\* findNodeAtPosition returns an id the replica holds, or Null.
LEMMA FoundNode ==
    ASSUME IInv, NEW r \in Replicas, NEW position,
           findNodeAtPosition(r, position) # Null
    PROVE  findNodeAtPosition(r, position) \in DOMAIN nodesById[r]
<1>1. PICK k \in DOMAIN list[r] : findNodeAtPosition(r, position) = list[r][k]
  BY DEF findNodeAtPosition
<1> QED
  BY <1>1 DEF IInv, ListHoldsNodes

\* The id a replica issues next is new: to its list, to its buffer and to all
\* operations ever produced.
LEMMA NextIdIsFresh ==
    ASSUME IInv, NEW r \in Replicas
    PROVE  /\ nextId(r) \in OpId
           /\ nextId(r) \notin DOMAIN nodesById[r]
           /\ nextId(r) \notin DOMAIN pending[r]
           /\ \A op \in ops : op.type = "insert" => op.id # nextId(r)
<1>1. counter[r] \in Nat /\ counter[r] + 1 \in Nat
  BY DEF IInv, TypeOK
<1>2. /\ nextId(r) \in OpId
      /\ nextId(r).counter = counter[r] + 1 /\ nextId(r).replicaId = r
  BY <1>1 DEF nextId, OpId
<1>3. nextId(r) \notin DOMAIN nodesById[r]
  <2>1. \A id \in DOMAIN nodesById[r] : id.counter <= counter[r]
    BY DEF IInv, CounterDominates, idsOf
  <2> QED
    BY <1>1, <1>2, <2>1
<1>4. \A op \in ops : op.type = "insert" => op.id # nextId(r)
  <2>1. \A op \in ops : op.type = "insert" =>
          op.id.counter <= counter[op.id.replicaId]
    BY DEF IInv, CausalOps
  <2> QED
    BY <1>1, <1>2, <2>1
<1>5. nextId(r) \notin DOMAIN pending[r]
  <2> SUFFICES ASSUME nextId(r) \in DOMAIN pending[r] PROVE FALSE
    OBVIOUS
  <2> DEFINE k == nextId(r)
             b == pending[r][k][1]
  <2>1. pending[r][k] \in Seq(ops)
    BY DEF IInv, TypeOK
  <2>2. 1 \in DOMAIN pending[r][k]
    <3>1. pending[r][k] # <<>>
      BY DEF IInv, InsertsKept
    <3> HIDE DEF k
    <3> QED
      BY <2>1, <3>1
  <2>3. b \in ops
    <3> HIDE DEF k
    <3> QED
      BY <2>1, <2>2
  <2>4. dependencyOf(b) = k
    BY <2>2 DEF IInv, InsertsKept
  <2>5. k # Null
    BY <1>2, NullAssumption
  <2>6. \E c \in ops : c.type = "insert" /\ c.id = k
    BY <2>3, <2>4, <2>5 DEF IInv, CausalOps
  <2> QED
    BY <1>4, <2>6
<1> QED
  BY <1>2, <1>3, <1>4, <1>5

-----------------------------------------------------------------------------
(* Every action keeps the invariant *)

\* New replicas satisfy the invariant.
LEMMA InitEstablishes == Init => IInv
<1> SUFFICES ASSUME Init PROVE IInv
  OBVIOUS
<1>1. TypeOK
  BY DEF Init, TypeOK, EmptyMap
<1>2. CounterDominates
  BY DEF Init, CounterDominates, idsOf, EmptyMap
<1>3. ListHoldsNodes
  BY DEF Init, ListHoldsNodes, EmptyMap
<1>4. NodesFromInserts
  BY DEF Init, NodesFromInserts, EmptyMap
<1>5. CausalOps /\ UniqueInsertIds
  BY DEF Init, CausalOps, UniqueInsertIds
<1>6. InsertsKept
  BY DEF Init, InsertsKept, EmptyMap
<1>7. OriginRule
  BY DEF Init, OriginRule
<1> QED
  BY <1>1, <1>2, <1>3, <1>4, <1>5, <1>6, <1>7 DEF IInv

\* The call apply(op) itself only queues the operation.
LEMMA ReceiveKeeps ==
    ASSUME IInv, NEW r \in Replicas, NEW op \in ops, Receive(r, op)
    PROVE  IInv'
<1>1. /\ UNCHANGED <<list, nodesById, pending, counter, ops, reloads>>
      /\ queue' = [queue EXCEPT ![r] = <<op>>]
      /\ seen' = [seen EXCEPT ![r] = @ \cup {op}]
      /\ \A q \in Replicas : queue[q] = <<>>
  BY DEF Receive, Idle
<1>2. TypeOK'
  <2>1. <<op>> \in Seq(ops)
    OBVIOUS
  <2> QED
    BY <1>1, <2>1 DEF IInv, TypeOK
<1>3. ListHoldsNodes' /\ OriginRule' /\ NodesFromInserts'
  BY <1>1, SameSkeleton
<1>4. CausalOps' /\ UniqueInsertIds'
  BY <1>1, SameOps DEF IInv, TypeOK
<1>5. CounterDominates'
  BY <1>1 DEF IInv, CounterDominates, idsOf
<1>6. InsertsKept'
  <2> SUFFICES ASSUME NEW q \in Replicas, NEW b \in seen'[q], b.type = "insert"
               PROVE  \/ b.id \in DOMAIN nodesById[q]
                      \/ b \in buffered(q)
                      \/ \E i \in DOMAIN queue'[q] : queue'[q][i] = b
    BY <1>1 DEF IInv, InsertsKept, buffered, dependencyOf
  <2>1. CASE q = r /\ b = op
    <3>1. queue'[r] = <<op>>
      BY <1>1 DEF IInv, TypeOK
    <3>2. 1 \in DOMAIN <<op>> /\ <<op>>[1] = op
      OBVIOUS
    <3> QED
      BY <2>1, <3>1, <3>2
  <2>2. CASE ~(q = r /\ b = op)
    <3>1. b \in seen[q]
      BY <1>1, <2>2 DEF IInv, TypeOK
    <3> QED
      BY <1>1, <3>1 DEF IInv, InsertsKept
  <2> QED
    BY <2>1, <2>2
<1> QED
  BY <1>2, <1>3, <1>4, <1>5, <1>6 DEF IInv

\* Taking the head off a queue loses only the head.
LEMMA QueueTail ==
    ASSUME NEW S, NEW s \in Seq(S), s # <<>>
    PROVE  /\ Head(s) \in S /\ Tail(s) \in Seq(S)
           /\ \A i \in DOMAIN s : \/ s[i] = Head(s)
                                  \/ \E j \in DOMAIN Tail(s) : Tail(s)[j] = s[i]
<1>1. Head(s) \in S /\ Tail(s) \in Seq(S)
  OBVIOUS
<1>2. ASSUME NEW i \in DOMAIN s, i # 1
      PROVE  i - 1 \in DOMAIN Tail(s) /\ Tail(s)[i - 1] = s[i]
  BY <1>2
<1>3. s[1] = Head(s)
  OBVIOUS
<1> QED
  BY <1>1, <1>2, <1>3

\* An iteration of apply's loop that takes the head off the queue, and leaves
\* it in the list or in the buffer if it is an insert, forgets no insert.
LEMMA HeadDone ==
    ASSUME IInv, NEW r \in Replicas, queue[r] # <<>>,
           queue' = [queue EXCEPT ![r] = Tail(@)],
           ops' = ops, seen' = seen,
           \A q \in Replicas : DOMAIN nodesById'[q] = DOMAIN nodesById[q],
           \A q \in Replicas : buffered(q) \subseteq buffered(q)',
           Head(queue[r]).type = "insert" =>
             \/ Head(queue[r]).id \in DOMAIN nodesById[r]
             \/ Head(queue[r]) \in buffered(r)'
    PROVE  /\ queue' \in [Replicas -> Seq(ops)]
           /\ \A q \in Replicas : \A b \in seen'[q] : b.type = "insert" =>
                \/ b.id \in DOMAIN nodesById'[q]
                \/ b \in buffered(q)'
                \/ \E i \in DOMAIN queue'[q] : queue'[q][i] = b
<1>1. queue \in [Replicas -> Seq(ops)]
  BY DEF IInv, TypeOK
<1>2. /\ Head(queue[r]) \in ops /\ Tail(queue[r]) \in Seq(ops)
      /\ \A i \in DOMAIN queue[r] :
           \/ queue[r][i] = Head(queue[r])
           \/ \E j \in DOMAIN Tail(queue[r]) : Tail(queue[r])[j] = queue[r][i]
  BY <1>1, QueueTail
<1>3. /\ queue' \in [Replicas -> Seq(ops)]
      /\ queue'[r] = Tail(queue[r])
      /\ \A q \in Replicas : q # r => queue'[q] = queue[q]
  BY <1>1, <1>2
<1>4. ASSUME NEW q \in Replicas, NEW b \in seen[q], b.type = "insert"
      PROVE  \/ b.id \in DOMAIN nodesById[q]
             \/ b \in buffered(q)'
             \/ \E i \in DOMAIN queue'[q] : queue'[q][i] = b
  <2>1. \/ b.id \in DOMAIN nodesById[q]
        \/ b \in buffered(q)
        \/ \E i \in DOMAIN queue[q] : queue[q][i] = b
    BY <1>4 DEF IInv, InsertsKept
  <2> QED
    BY <1>2, <1>3, <1>4, <2>1
<1> QED
  BY <1>3, <1>4

\* apply drops an insert whose node is there already.
LEMMA SkipAppliedKeeps ==
    ASSUME IInv, NEW r \in Replicas, SkipApplied(r)
    PROVE  IInv'
<1>1. /\ UNCHANGED <<list, nodesById, pending, counter, ops, seen, reloads>>
      /\ queue[r] # <<>> /\ queue' = [queue EXCEPT ![r] = Tail(@)]
      /\ Head(queue[r]).id \in DOMAIN nodesById[r]
  BY DEF SkipApplied, Current
<1>2. \A q \in Replicas : buffered(q)' = buffered(q)
  BY <1>1 DEF buffered
<1>3. /\ queue' \in [Replicas -> Seq(ops)]
      /\ \A q \in Replicas : \A b \in seen'[q] : b.type = "insert" =>
           \/ b.id \in DOMAIN nodesById'[q]
           \/ b \in buffered(q)'
           \/ \E i \in DOMAIN queue'[q] : queue'[q][i] = b
  BY <1>1, <1>2, HeadDone
<1>4. TypeOK'
  BY <1>1, <1>3 DEF IInv, TypeOK
<1>5. ListHoldsNodes' /\ OriginRule' /\ NodesFromInserts'
  BY <1>1, SameSkeleton
<1>6. CausalOps' /\ UniqueInsertIds'
  BY <1>1, SameOps DEF IInv, TypeOK
<1>7. CounterDominates'
  BY <1>1 DEF IInv, CounterDominates, idsOf
<1>8. InsertsKept'
  BY <1>1, <1>3 DEF IInv, InsertsKept, dependencyOf
<1> QED
  BY <1>4, <1>5, <1>6, <1>7, <1>8 DEF IInv

\* apply buffers an operation whose origin or target is missing.
LEMMA BufferKeeps ==
    ASSUME IInv, NEW r \in Replicas, Buffer(r)
    PROVE  IInv'
<1> DEFINE op == Head(queue[r])
           key == dependencyOf(op)
           old == pending[r]
           new == bufferOn(old, key, op)
<1>1. /\ UNCHANGED <<list, nodesById, counter, ops, seen, reloads>>
      /\ queue[r] # <<>> /\ queue' = [queue EXCEPT ![r] = Tail(@)]
      /\ pending' = [pending EXCEPT ![r] = new]
      /\ key # Null /\ key \notin DOMAIN nodesById[r]
  BY DEF Buffer, Missing
<1>2. /\ queue[r] \in Seq(ops) /\ DOMAIN pending = Replicas
      /\ DOMAIN old \subseteq OpId /\ old \in [DOMAIN old -> Seq(ops)]
  BY DEF IInv, TypeOK
<1>3. op \in ops /\ op \in Op
  <2>1. op \in ops
    BY <1>1, <1>2, QueueTail
  <2> QED
    BY <2>1 DEF IInv, TypeOK
<1>4. key \in OpId
  <2> HIDE DEF op
  <2> QED
    BY <1>1, <1>3 DEF dependencyOf, Op, InsertOp, DeleteOp, FormatOp
<1> HIDE DEF op, key
<1>5. /\ DOMAIN new = DOMAIN old \cup {key}
      /\ \A k \in DOMAIN old : k # key => new[k] = old[k]
      /\ key \in DOMAIN old => new[key] = Append(old[key], op)
      /\ key \notin DOMAIN old => new[key] = <<op>>
  BY DEF bufferOn
<1>6. /\ new[key] \in Seq(ops) /\ new[key] # <<>>
      /\ \E i \in DOMAIN new[key] : new[key][i] = op
      /\ \A i \in DOMAIN new[key] :
           \/ new[key][i] = op
           \/ key \in DOMAIN old /\ i \in DOMAIN old[key] /\ new[key][i] = old[key][i]
      /\ key \in DOMAIN old => \A i \in DOMAIN old[key] :
           i \in DOMAIN new[key] /\ new[key][i] = old[key][i]
  <2> HIDE DEF old, new
  <2>1. CASE key \in DOMAIN old
    <3>1. old[key] \in Seq(ops)
      BY <1>2, <2>1
    <3> DEFINE o == old[key]
               n == Append(o, op)
    <3> HIDE DEF o
    <3>2. /\ n \in Seq(ops) /\ Len(n) = Len(o) + 1 /\ n[Len(o) + 1] = op
          /\ \A i \in 1..Len(o) : n[i] = o[i]
      BY <1>3, <3>1 DEF o
    <3>3. DOMAIN n = 1..(Len(o) + 1) /\ DOMAIN o = 1..Len(o) /\ Len(o) \in Nat
      BY <3>1, <3>2 DEF o
    <3>4. new[key] = n
      BY <1>5, <2>1 DEF o
    <3> HIDE DEF n
    <3>5. n # <<>>
      BY <3>3
    <3> QED
      BY <2>1, <3>2, <3>3, <3>4, <3>5 DEF o
  <2>2. CASE key \notin DOMAIN old
    <3>1. new[key] = <<op>>
      BY <1>5, <2>2
    <3> QED
      BY <1>3, <2>2, <3>1
  <2> QED
    BY <2>1, <2>2
<1>7. /\ DOMAIN pending' = Replicas /\ pending'[r] = new
      /\ \A q \in Replicas : q # r => pending'[q] = pending[q]
  <2> HIDE DEF new
  <2> QED
    BY <1>1, <1>2
<1> HIDE DEF new
<1>8. \A q \in Replicas : buffered(q) \subseteq buffered(q)'
  <2> SUFFICES ASSUME NEW q \in Replicas, NEW k \in DOMAIN pending[q],
                      NEW i \in DOMAIN pending[q][k]
               PROVE  \E kk \in DOMAIN pending'[q] : \E ii \in DOMAIN pending'[q][kk] :
                         pending'[q][kk][ii] = pending[q][k][i]
    BY DEF buffered
  <2>1. CASE q = r /\ k = key
    BY <1>5, <1>6, <1>7, <2>1
  <2>2. CASE ~(q = r /\ k = key)
    BY <1>5, <1>7, <2>2
  <2> QED
    BY <2>1, <2>2
<1>9. op \in buffered(r)'
  BY <1>5, <1>6, <1>7 DEF buffered
<1>10. /\ queue' \in [Replicas -> Seq(ops)]
       /\ \A q \in Replicas : \A b \in seen'[q] : b.type = "insert" =>
           \/ b.id \in DOMAIN nodesById'[q]
           \/ b \in buffered(q)'
           \/ \E i \in DOMAIN queue'[q] : queue'[q][i] = b
  BY <1>1, <1>8, <1>9, HeadDone DEF op
<1>11. TypeOK'
  <2>1. DOMAIN new \subseteq OpId /\ new \in [DOMAIN new -> Seq(ops)]
    <3>1. \A k \in DOMAIN new : new[k] \in Seq(ops)
      BY <1>2, <1>5, <1>6
    <3>2. new = [k \in DOMAIN new |-> new[k]]
      BY DEF new, bufferOn
    <3> QED
      BY <1>2, <1>4, <1>5, <3>1, <3>2
  <2>2. \A q \in Replicas : /\ DOMAIN pending'[q] \subseteq OpId
                            /\ pending'[q] \in [DOMAIN pending'[q] -> Seq(ops)]
    BY <1>7, <2>1 DEF IInv, TypeOK
  <2> QED
    BY <1>1, <1>7, <1>10, <2>2 DEF IInv, TypeOK
<1>12. ListHoldsNodes' /\ OriginRule' /\ NodesFromInserts'
  BY <1>1, SameSkeleton
<1>13. CausalOps' /\ UniqueInsertIds'
  BY <1>1, SameOps DEF IInv, TypeOK
<1>14. CounterDominates'
  BY <1>1 DEF IInv, CounterDominates, idsOf
<1>15. ASSUME NEW q \in Replicas, NEW k \in DOMAIN pending'[q]
       PROVE  /\ k \notin DOMAIN nodesById[q]
              /\ pending'[q][k] # <<>>
              /\ \A i \in DOMAIN pending'[q][k] : dependencyOf(pending'[q][k][i]) = k
  <2>1. CASE q = r /\ k = key
    <3>1. key \in DOMAIN old => \A i \in DOMAIN old[key] : dependencyOf(old[key][i]) = key
      BY DEF IInv, InsertsKept
    <3>2. dependencyOf(op) = key
      BY DEF key
    <3> HIDE DEF old
    <3> QED
      BY <1>1, <1>6, <1>7, <2>1, <3>1, <3>2
  <2>2. CASE ~(q = r /\ k = key)
    <3>1. k \in DOMAIN pending[q] /\ pending'[q][k] = pending[q][k]
      BY <1>5, <1>7, <2>2
    <3> QED
      BY <3>1 DEF IInv, InsertsKept
  <2> QED
    BY <2>1, <2>2
<1>16. InsertsKept'
  BY <1>1, <1>10, <1>15 DEF InsertsKept, dependencyOf
<1> QED
  BY <1>11, <1>12, <1>13, <1>14, <1>16 DEF IInv

\* Marking a node as a tombstone changes no id, origin or clock.
LEMMA TombstoneKeeps ==
    ASSUME IInv, NEW r \in Replicas, NEW target \in DOMAIN nodesById[r],
           nodesById' = [nodesById EXCEPT ![r][target].tombstone = TRUE],
           list' = list, counter' = counter, ops \subseteq ops'
    PROVE  /\ DOMAIN nodesById' = Replicas
           /\ \A q \in Replicas :
                /\ DOMAIN nodesById'[q] = DOMAIN nodesById[q]
                /\ DOMAIN nodesById[q] \subseteq OpId
                /\ nodesById'[q] \in [DOMAIN nodesById[q] -> Node]
           /\ ListHoldsNodes' /\ OriginRule' /\ NodesFromInserts'
           /\ CounterDominates'
<1> DEFINE n == [nodesById[r][target] EXCEPT !.tombstone = TRUE]
           new == [nodesById[r] EXCEPT ![target] = n]
<1>1. /\ DOMAIN nodesById = Replicas
      /\ \A q \in Replicas : /\ DOMAIN nodesById[q] \subseteq OpId
                             /\ nodesById[q] \in [DOMAIN nodesById[q] -> Node]
  BY DEF IInv, TypeOK
<1>2. nodesById[r][target] \in Node
  BY <1>1
<1>3. /\ n \in Node
      /\ n.originId = nodesById[r][target].originId
      /\ n.formatClock = nodesById[r][target].formatClock
  BY <1>2, TombstoneType
<1>4. nodesById' = [nodesById EXCEPT ![r] = new]
  OBVIOUS
<1> HIDE DEF n
<1>5. /\ DOMAIN new = DOMAIN nodesById[r]
      /\ new \in [DOMAIN nodesById[r] -> Node]
      /\ \A id \in DOMAIN nodesById[r] :
           /\ new[id].originId = nodesById[r][id].originId
           /\ new[id].formatClock = nodesById[r][id].formatClock
  BY <1>1, <1>3
<1> HIDE DEF new
<1>6. /\ DOMAIN nodesById' = Replicas /\ nodesById'[r] = new
      /\ \A q \in Replicas : q # r => nodesById'[q] = nodesById[q]
  BY <1>1, <1>4
<1>7. \A q \in Replicas :
        /\ DOMAIN nodesById'[q] = DOMAIN nodesById[q]
        /\ nodesById'[q] \in [DOMAIN nodesById[q] -> Node]
        /\ \A id \in DOMAIN nodesById[q] :
             /\ nodesById'[q][id].originId = nodesById[q][id].originId
             /\ nodesById'[q][id].formatClock = nodesById[q][id].formatClock
  BY <1>1, <1>5, <1>6
<1>8. ListHoldsNodes' /\ OriginRule' /\ NodesFromInserts'
  BY <1>7, SameSkeleton
<1>9. CounterDominates'
  BY <1>7 DEF IInv, CounterDominates, idsOf
<1> QED
  BY <1>1, <1>6, <1>7, <1>8, <1>9

\* apply marks the target of a delete.
LEMMA ApplyDeleteKeeps ==
    ASSUME IInv, NEW r \in Replicas, ApplyDelete(r)
    PROVE  IInv'
<1> DEFINE op == Head(queue[r])
<1>1. /\ UNCHANGED <<list, pending, counter, ops, seen, reloads>>
      /\ queue[r] # <<>> /\ queue' = [queue EXCEPT ![r] = Tail(@)]
      /\ op.type = "delete" /\ ~Missing(r, op)
      /\ nodesById' = [nodesById EXCEPT ![r][op.targetId].tombstone = TRUE]
  BY DEF ApplyDelete, Current
<1>2. op \in DeleteOp
  <2>1. queue[r] \in Seq(ops) /\ ops \subseteq Op
    BY DEF IInv, TypeOK
  <2>2. op \in Op
    BY <1>1, <2>1, QueueTail
  <2> HIDE DEF op
  <2> QED
    BY <1>1, <2>2 DEF Op, InsertOp, FormatOp
<1> HIDE DEF op
<1>3. op.targetId \in DOMAIN nodesById[r]
  BY <1>1, <1>2, NullAssumption DEF Missing, dependencyOf, DeleteOp
<1>4. /\ DOMAIN nodesById' = Replicas
      /\ \A q \in Replicas :
           /\ DOMAIN nodesById'[q] = DOMAIN nodesById[q]
           /\ DOMAIN nodesById[q] \subseteq OpId
           /\ nodesById'[q] \in [DOMAIN nodesById[q] -> Node]
      /\ ListHoldsNodes' /\ OriginRule' /\ NodesFromInserts'
      /\ CounterDominates'
  BY <1>1, <1>3, TombstoneKeeps
<1>5. \A q \in Replicas : buffered(q)' = buffered(q)
  BY <1>1 DEF buffered
<1>6. /\ queue' \in [Replicas -> Seq(ops)]
      /\ \A q \in Replicas : \A b \in seen'[q] : b.type = "insert" =>
           \/ b.id \in DOMAIN nodesById'[q]
           \/ b \in buffered(q)'
           \/ \E i \in DOMAIN queue'[q] : queue'[q][i] = b
  BY <1>1, <1>4, <1>5, HeadDone DEF op
<1>7. TypeOK'
  BY <1>1, <1>4, <1>6 DEF IInv, TypeOK
<1>8. CausalOps' /\ UniqueInsertIds'
  BY <1>1, SameOps DEF IInv, TypeOK
<1>9. InsertsKept'
  BY <1>1, <1>4, <1>6 DEF IInv, InsertsKept, dependencyOf
<1> QED
  BY <1>4, <1>7, <1>8, <1>9 DEF IInv

\* localDelete marks the node at an index.
LEMMA LocalDeleteKeeps ==
    ASSUME IInv, NEW r \in Replicas, NEW index, LocalDelete(r, index)
    PROVE  IInv'
<1> DEFINE target == findNodeAtPosition(r, index)
           op == [type |-> "delete", targetId |-> target]
<1>1. /\ UNCHANGED <<list, pending, counter, queue, reloads>>
      /\ target # Null
      /\ ops' = ops \cup {op} /\ seen' = [seen EXCEPT ![r] = @ \cup {op}]
      /\ nodesById' = [nodesById EXCEPT ![r][target].tombstone = TRUE]
  BY DEF LocalDelete, Produce
<1>2. target \in DOMAIN nodesById[r]
  BY <1>1, FoundNode
<1> HIDE DEF target
<1>3. op \in DeleteOp /\ op.type # "insert" /\ dependencyOf(op) = target
  <2>1. target \in OpId
    BY <1>2 DEF IInv, TypeOK
  <2> QED
    BY <2>1 DEF DeleteOp, dependencyOf
<1>4. \E b \in ops : b.type = "insert" /\ b.id = target
  BY <1>2 DEF IInv, NodesFromInserts
<1> HIDE DEF op
<1>5. /\ DOMAIN nodesById' = Replicas
      /\ \A q \in Replicas :
           /\ DOMAIN nodesById'[q] = DOMAIN nodesById[q]
           /\ DOMAIN nodesById[q] \subseteq OpId
           /\ nodesById'[q] \in [DOMAIN nodesById[q] -> Node]
      /\ ListHoldsNodes' /\ OriginRule' /\ NodesFromInserts'
      /\ CounterDominates'
  BY <1>1, <1>2, TombstoneKeeps
<1>6. \A q \in Replicas : buffered(q)' = buffered(q)
  BY <1>1 DEF buffered
<1>7. TypeOK'
  <2>1. Seq(ops) \subseteq Seq(ops')
    BY <1>1, SeqGrows
  <2>2. ops' \subseteq Op /\ seen' \in [Replicas -> SUBSET ops']
    BY <1>1, <1>3 DEF IInv, TypeOK, Op
  <2>3. queue' \in [Replicas -> Seq(ops')]
    BY <1>1, <2>1 DEF IInv, TypeOK
  <2>4. \A q \in Replicas : /\ DOMAIN pending'[q] \subseteq OpId
                            /\ pending'[q] \in [DOMAIN pending'[q] -> Seq(ops')]
    BY <1>1, <2>1 DEF IInv, TypeOK
  <2> QED
    BY <1>1, <1>5, <2>2, <2>3, <2>4 DEF IInv, TypeOK
<1>8. CausalOps' /\ UniqueInsertIds'
  <2>1. UniqueInsertIds'
    BY <1>1, <1>3 DEF IInv, UniqueInsertIds
  <2>2. CausalOps'
    <3> SUFFICES ASSUME NEW b \in ops'
                 PROVE  /\ dependencyOf(b) # Null =>
                             \E c \in ops' : c.type = "insert" /\ c.id = dependencyOf(b)
                        /\ b.type = "insert" =>
                             /\ b.originId # Null => b.originId.counter < b.id.counter
                             /\ b.id.counter <= counter'[b.id.replicaId]
      BY DEF CausalOps, dependencyOf
    <3>1. CASE b \in ops
      BY <1>1, <3>1 DEF IInv, CausalOps
    <3>2. CASE b = op
      BY <1>1, <1>3, <1>4, <3>2
    <3> QED
      BY <1>1, <3>1, <3>2
  <2> QED
    BY <2>1, <2>2
<1>9. InsertsKept'
  <2>1. ASSUME NEW q \in Replicas, NEW b \in seen'[q], b.type = "insert"
        PROVE  \/ b.id \in DOMAIN nodesById'[q]
               \/ b \in buffered(q)'
               \/ \E i \in DOMAIN queue'[q] : queue'[q][i] = b
    <3>1. b \in seen[q]
      BY <1>1, <1>3, <2>1 DEF IInv, TypeOK
    <3> QED
      BY <1>1, <1>5, <1>6, <2>1, <3>1 DEF IInv, InsertsKept
  <2> QED
    BY <1>1, <1>5, <2>1 DEF IInv, InsertsKept, dependencyOf
<1> QED
  BY <1>5, <1>7, <1>8, <1>9 DEF IInv

\* Rewriting the nodes of one replica, ids and origins apart, with clocks that
\* its new counter covers.
LEMMA RewriteKeeps ==
    ASSUME IInv, NEW r \in Replicas, NEW new,
           nodesById' = [nodesById EXCEPT ![r] = new],
           DOMAIN new = DOMAIN nodesById[r],
           new \in [DOMAIN nodesById[r] -> Node],
           list' = list, ops \subseteq ops',
           counter' \in [Replicas -> Nat],
           \A q \in Replicas : counter[q] <= counter'[q],
           \A id \in DOMAIN nodesById[r] :
             /\ new[id].originId = nodesById[r][id].originId
             /\ \A m \in Marks :
                  LET by == new[id].formatClock[m] IN
                  by = nodesById[r][id].formatClock[m]
                    \/ by = Null \/ by.counter <= counter'[r]
    PROVE  /\ DOMAIN nodesById' = Replicas
           /\ \A q \in Replicas :
                /\ DOMAIN nodesById'[q] = DOMAIN nodesById[q]
                /\ DOMAIN nodesById[q] \subseteq OpId
                /\ nodesById'[q] \in [DOMAIN nodesById[q] -> Node]
           /\ ListHoldsNodes' /\ OriginRule' /\ NodesFromInserts'
           /\ CounterDominates'
<1>1. /\ DOMAIN nodesById = Replicas /\ counter \in [Replicas -> Nat]
      /\ \A q \in Replicas : /\ DOMAIN nodesById[q] \subseteq OpId
                             /\ nodesById[q] \in [DOMAIN nodesById[q] -> Node]
  BY DEF IInv, TypeOK
<1>2. /\ DOMAIN nodesById' = Replicas /\ nodesById'[r] = new
      /\ \A q \in Replicas : q # r => nodesById'[q] = nodesById[q]
  BY <1>1
<1>3. \A q \in Replicas :
        /\ DOMAIN nodesById'[q] = DOMAIN nodesById[q]
        /\ nodesById'[q] \in [DOMAIN nodesById[q] -> Node]
        /\ \A id \in DOMAIN nodesById[q] :
             nodesById'[q][id].originId = nodesById[q][id].originId
  BY <1>1, <1>2
<1>4. ListHoldsNodes' /\ OriginRule' /\ NodesFromInserts'
  BY <1>3, SameSkeleton
<1>5. ASSUME NEW q \in Replicas, NEW id \in DOMAIN nodesById[q]
      PROVE  /\ id.counter <= counter'[q]
             /\ \A m \in Marks : LET by == nodesById'[q][id].formatClock[m] IN
                                 by # Null => by.counter <= counter'[q]
  <2>1. /\ id.counter <= counter[q]
        /\ \A m \in Marks : LET by == nodesById[q][id].formatClock[m] IN
                            by # Null => by.counter <= counter[q]
    BY DEF IInv, CounterDominates, idsOf
  <2>2. id \in OpId /\ id.counter \in Nat
    BY <1>1 DEF OpId
  <2>3. ASSUME NEW m \in Marks, nodesById[q][id].formatClock[m] # Null
        PROVE  nodesById[q][id].formatClock[m].counter \in Nat
    <3>1. nodesById[q][id] \in Node
      BY <1>1
    <3> QED
      BY <2>3, <3>1 DEF Node, OpId
  <2>4. counter[q] \in Nat /\ counter'[q] \in Nat /\ counter[q] <= counter'[q]
    BY <1>1
  <2>5. id.counter <= counter'[q]
    BY <2>1, <2>2, <2>4
  <2>6. ASSUME NEW m \in Marks, nodesById'[q][id].formatClock[m] # Null
        PROVE  nodesById'[q][id].formatClock[m].counter <= counter'[q]
    <3>1. CASE nodesById'[q][id].formatClock[m] = nodesById[q][id].formatClock[m]
      BY <2>1, <2>3, <2>4, <2>6, <3>1
    <3>2. CASE nodesById'[q][id].formatClock[m] # nodesById[q][id].formatClock[m]
      BY <1>2, <2>6, <3>2
    <3> QED
      BY <3>1, <3>2
  <2> QED
    BY <2>5, <2>6
<1>6. CounterDominates'
  <2> SUFFICES ASSUME NEW q \in Replicas, NEW id \in idsOf(nodesById'[q])
               PROVE  id.counter <= counter'[q]
    BY DEF CounterDominates, idsOf
  <2> QED
    BY <1>3, <1>5, IdsOfBounded
<1> QED
  BY <1>1, <1>2, <1>3, <1>4, <1>6

\* compactTombstones leaves ids, origins and order alone.
LEMMA CompactTombstonesKeeps ==
    ASSUME IInv, NEW r \in Replicas, CompactTombstones(r)
    PROVE  IInv'
<1> DEFINE old == nodesById[r]
           new == [id \in DOMAIN old |-> compacted(old[id])]
<1>1. /\ UNCHANGED <<list, pending, counter, queue, ops, seen, reloads>>
      /\ nodesById' = [nodesById EXCEPT ![r] = new]
  BY DEF CompactTombstones
<1>2. old \in [DOMAIN old -> Node] /\ counter \in [Replicas -> Nat]
  BY DEF IInv, TypeOK
<1>3. DOMAIN new = DOMAIN old /\ new \in [DOMAIN old -> Node]
  BY <1>2, CompactedType
<1>4. \A id \in DOMAIN old :
        /\ new[id].originId = old[id].originId
        /\ \A m \in Marks : LET by == new[id].formatClock[m] IN
             by = old[id].formatClock[m] \/ by = Null \/ by.counter <= counter'[r]
  <2> SUFFICES ASSUME NEW id \in DOMAIN old
               PROVE  /\ compacted(old[id]).originId = old[id].originId
                      /\ \A m \in Marks : compacted(old[id]).formatClock[m]
                                             \in {Null, old[id].formatClock[m]}
    OBVIOUS
  <2>1. old[id] \in Node
    BY <1>2
  <2> QED
    BY <2>1, CompactedType
<1> HIDE DEF new
<1>5. /\ DOMAIN nodesById' = Replicas
      /\ \A q \in Replicas :
           /\ DOMAIN nodesById'[q] = DOMAIN nodesById[q]
           /\ DOMAIN nodesById[q] \subseteq OpId
           /\ nodesById'[q] \in [DOMAIN nodesById[q] -> Node]
      /\ ListHoldsNodes' /\ OriginRule' /\ NodesFromInserts'
      /\ CounterDominates'
  <2>1. \A q \in Replicas : counter[q] <= counter'[q]
    BY <1>1, <1>2
  <2> QED
    BY <1>1, <1>2, <1>3, <1>4, <2>1, RewriteKeeps
<1>6. TypeOK'
  BY <1>1, <1>5 DEF IInv, TypeOK
<1>7. CausalOps' /\ UniqueInsertIds'
  BY <1>1, SameOps DEF IInv, TypeOK
<1>8. InsertsKept'
  BY <1>1, <1>5 DEF IInv, InsertsKept, dependencyOf, buffered
<1> QED
  BY <1>5, <1>6, <1>7, <1>8 DEF IInv

\* apply changes the marks of one node, and catches up the counter.
LEMMA ApplyFormatKeeps ==
    ASSUME IInv, NEW r \in Replicas, ApplyFormat(r)
    PROVE  IInv'
<1> DEFINE op == Head(queue[r])
           old == nodesById[r]
           n == applyFormatOps(old[op.targetId], {op})
           new == [old EXCEPT ![op.targetId] = n]
<1>1. /\ UNCHANGED <<list, pending, ops, seen, reloads>>
      /\ queue[r] # <<>> /\ queue' = [queue EXCEPT ![r] = Tail(@)]
      /\ op.type = "format" /\ ~Missing(r, op)
      /\ nodesById' = [nodesById EXCEPT ![r] = new]
      /\ counter' = [counter EXCEPT ![r] = MaxNat(@, op.id.counter)]
  BY DEF ApplyFormat, Current
<1>2. op \in FormatOp
  <2>1. queue[r] \in Seq(ops) /\ ops \subseteq Op
    BY DEF IInv, TypeOK
  <2>2. op \in Op
    BY <1>1, <2>1, QueueTail
  <2> HIDE DEF op
  <2> QED
    BY <1>1, <2>2 DEF Op, InsertOp, DeleteOp
<1>3. /\ op.targetId \in DOMAIN old
      /\ op.id.counter \in Nat
  <2> HIDE DEF op
  <2> QED
    BY <1>1, <1>2, NullAssumption DEF Missing, dependencyOf, FormatOp, OpId
<1>4. old \in [DOMAIN old -> Node] /\ counter \in [Replicas -> Nat]
  BY DEF IInv, TypeOK
<1>5. /\ n \in Node /\ n.originId = old[op.targetId].originId
      /\ \A m \in Marks : \/ n.formatClock[m] = old[op.targetId].formatClock[m]
                          \/ n.formatClock[m] = op.id
  <2>1. old[op.targetId] \in Node /\ {op} \in SUBSET FormatOp
    BY <1>2, <1>3, <1>4
  <2> HIDE DEF op, old
  <2> QED
    BY <2>1, FormattedType
<1> HIDE DEF n, op
<1>6. /\ counter' \in [Replicas -> Nat] /\ op.id.counter <= counter'[r]
      /\ \A q \in Replicas : counter[q] <= counter'[q]
  BY <1>1, <1>3, <1>4 DEF MaxNat
<1>7. /\ DOMAIN new = DOMAIN old /\ new \in [DOMAIN old -> Node]
      /\ \A id \in DOMAIN old :
        /\ new[id].originId = old[id].originId
        /\ \A m \in Marks : LET by == new[id].formatClock[m] IN
             by = old[id].formatClock[m] \/ by = Null \/ by.counter <= counter'[r]
  BY <1>3, <1>4, <1>5, <1>6
<1> HIDE DEF new
<1>8. /\ DOMAIN nodesById' = Replicas
      /\ \A q \in Replicas :
           /\ DOMAIN nodesById'[q] = DOMAIN nodesById[q]
           /\ DOMAIN nodesById[q] \subseteq OpId
           /\ nodesById'[q] \in [DOMAIN nodesById[q] -> Node]
      /\ ListHoldsNodes' /\ OriginRule' /\ NodesFromInserts'
      /\ CounterDominates'
  BY <1>1, <1>6, <1>7, RewriteKeeps
<1>9. \A q \in Replicas : buffered(q)' = buffered(q)
  BY <1>1 DEF buffered
<1>10. /\ queue' \in [Replicas -> Seq(ops)]
       /\ \A q \in Replicas : \A b \in seen'[q] : b.type = "insert" =>
           \/ b.id \in DOMAIN nodesById'[q]
           \/ b \in buffered(q)'
           \/ \E i \in DOMAIN queue'[q] : queue'[q][i] = b
  BY <1>1, <1>8, <1>9, HeadDone DEF op
<1>11. TypeOK'
  BY <1>1, <1>6, <1>8, <1>10 DEF IInv, TypeOK
<1>12. CausalOps' /\ UniqueInsertIds'
  BY <1>1, <1>6, SameOps
<1>13. InsertsKept'
  BY <1>1, <1>8, <1>10 DEF IInv, InsertsKept, dependencyOf
<1> QED
  BY <1>8, <1>11, <1>12, <1>13 DEF IInv

\* What a local edit that produces operations leaves well typed.
LEMMA ProduceType ==
    ASSUME IInv, NEW r \in Replicas, NEW produced \in SUBSET Op,
           ops' = ops \cup produced, seen' = [seen EXCEPT ![r] = @ \cup produced],
           UNCHANGED <<pending, queue, reloads>>
    PROVE  /\ ops' \subseteq Op /\ seen' \in [Replicas -> SUBSET ops']
           /\ queue' \in [Replicas -> Seq(ops')]
           /\ DOMAIN pending' = Replicas
           /\ \A q \in Replicas : /\ DOMAIN pending'[q] \subseteq OpId
                                  /\ pending'[q] \in [DOMAIN pending'[q] -> Seq(ops')]
           /\ reloads' \in Nat
<1>1. Seq(ops) \subseteq Seq(ops')
  BY SeqGrows
<1>2. ops' \subseteq Op /\ seen' \in [Replicas -> SUBSET ops']
  BY DEF IInv, TypeOK
<1>3. queue' \in [Replicas -> Seq(ops')]
  BY <1>1 DEF IInv, TypeOK
<1>4. /\ DOMAIN pending' = Replicas
      /\ \A q \in Replicas : /\ DOMAIN pending'[q] \subseteq OpId
                             /\ pending'[q] \in [DOMAIN pending'[q] -> Seq(ops')]
  BY <1>1 DEF IInv, TypeOK
<1> QED
  BY <1>2, <1>3, <1>4 DEF IInv, TypeOK

\* localInsert links in a node with a fresh, greatest id.
LEMMA LocalInsertKeeps ==
    ASSUME IInv, NEW r \in Replicas, NEW index, NEW attrs \in SUBSET Marks,
           LocalInsert(r, index, attrs)
    PROVE  IInv'
<1> DEFINE anchor == findNodeAtPosition(r, index - 1)
           id == nextId(r)
           op == [type |-> "insert", id |-> id, originId |-> anchor,
                  value |-> id, attrs |-> attrs]
<1>1. /\ UNCHANGED <<pending, queue, reloads>>
      /\ ops' = ops \cup {op} /\ seen' = [seen EXCEPT ![r] = @ \cup {op}]
      /\ integrate(r, anchor, op)
      /\ counter' = [counter EXCEPT ![r] = @ + 1]
  BY DEF LocalInsert, Produce
<1>2. /\ id \in OpId
      /\ id \notin DOMAIN nodesById[r]
      /\ id \notin DOMAIN pending[r]
      /\ \A b \in ops : b.type = "insert" => b.id # id
  BY NextIdIsFresh
<1>3. id.counter = counter[r] + 1 /\ id.replicaId = r
  BY DEF nextId
<1>4. anchor # Null => anchor \in DOMAIN nodesById[r]
  BY FoundNode
<1>5. /\ counter \in [Replicas -> Nat] /\ counter' \in [Replicas -> Nat]
      /\ counter'[r] = counter[r] + 1
      /\ \A q \in Replicas : counter[q] <= counter'[q]
      /\ DOMAIN nodesById[r] \subseteq OpId
  BY <1>1 DEF IInv, TypeOK
<1> HIDE DEF id, anchor
<1>6. op \in InsertOp
  BY <1>2, <1>4, <1>5 DEF InsertOp
<1>7. /\ op.type = "insert" /\ op.id = id /\ op.originId = anchor
      /\ dependencyOf(op) = anchor
  BY DEF dependencyOf
<1> HIDE DEF op
<1>8. /\ list' \in [Replicas -> Seq(OpId)]
      /\ DOMAIN nodesById' = Replicas
      /\ \A q \in Replicas : /\ DOMAIN nodesById'[q] \subseteq OpId
                             /\ nodesById'[q] \in [DOMAIN nodesById'[q] -> Node]
                             /\ q # r => nodesById'[q] = nodesById[q]
      /\ nodesById'[r] = withNode(nodesById[r], id, newNode(op))
      /\ ListHoldsNodes' /\ OriginRule' /\ NodesFromInserts'
  BY <1>1, <1>2, <1>4, <1>6, <1>7, IntegrateKeeps
<1>9. /\ DOMAIN nodesById'[r] = DOMAIN nodesById[r] \cup {id}
      /\ nodesById'[r][id] = newNode(op)
      /\ \A k \in DOMAIN nodesById[r] : nodesById'[r][k] = nodesById[r][k]
  BY <1>2, <1>8 DEF withNode
<1>10. TypeOK'
  <2>1. {op} \in SUBSET Op
    BY <1>6 DEF Op
  <2>2. /\ ops' \subseteq Op /\ seen' \in [Replicas -> SUBSET ops']
        /\ queue' \in [Replicas -> Seq(ops')]
        /\ DOMAIN pending' = Replicas
        /\ \A q \in Replicas : /\ DOMAIN pending'[q] \subseteq OpId
                               /\ pending'[q] \in [DOMAIN pending'[q] -> Seq(ops')]
        /\ reloads' \in Nat
    BY <1>1, <2>1, ProduceType
  <2> QED
    BY <1>5, <1>8, <2>2 DEF TypeOK
<1>11. CounterDominates'
  <2>1. ASSUME NEW q \in Replicas, NEW k \in DOMAIN nodesById'[q]
        PROVE  /\ k.counter <= counter'[q]
               /\ \A m \in Marks : LET by == nodesById'[q][k].formatClock[m] IN
                                   by # Null => by.counter <= counter'[q]
    <3>1. CASE q = r /\ k = id
      BY <1>3, <1>5, <1>6, <1>9, <3>1, NewNodeType
    <3>2. CASE ~(q = r /\ k = id)
      <4>1. k \in DOMAIN nodesById[q] /\ nodesById'[q][k] = nodesById[q][k]
        BY <1>8, <1>9, <3>2
      <4>2. /\ k.counter <= counter[q]
            /\ \A m \in Marks : LET by == nodesById[q][k].formatClock[m] IN
                                by # Null => by.counter <= counter[q]
        BY <4>1 DEF IInv, CounterDominates, idsOf
      <4>3. k \in OpId /\ nodesById[q][k] \in Node
        BY <4>1 DEF IInv, TypeOK
      <4>4. k.counter \in Nat /\ \A m \in Marks :
              LET by == nodesById[q][k].formatClock[m] IN
              by # Null => by.counter \in Nat
        BY <4>3 DEF Node, OpId
      <4>5. counter[q] \in Nat /\ counter'[q] \in Nat /\ counter[q] <= counter'[q]
        BY <1>5
      <4> QED
        BY <4>1, <4>2, <4>4, <4>5
    <3> QED
      BY <3>1, <3>2
  <2> SUFFICES ASSUME NEW q \in Replicas, NEW k \in idsOf(nodesById'[q])
               PROVE  k.counter <= counter'[q]
    BY DEF CounterDominates, idsOf
  <2> QED
    BY <2>1, IdsOfBounded
<1>12. UniqueInsertIds'
  BY <1>1, <1>2, <1>7 DEF IInv, UniqueInsertIds
<1>13. CausalOps'
  <2> SUFFICES ASSUME NEW b \in ops'
               PROVE  /\ dependencyOf(b) # Null =>
                           \E c \in ops' : c.type = "insert" /\ c.id = dependencyOf(b)
                      /\ b.type = "insert" =>
                           /\ b.originId # Null => b.originId.counter < b.id.counter
                           /\ b.id.counter <= counter'[b.id.replicaId]
    BY DEF CausalOps, dependencyOf
  <2>1. CASE b \in ops
    <3>1. /\ dependencyOf(b) # Null =>
               \E c \in ops : c.type = "insert" /\ c.id = dependencyOf(b)
          /\ b.type = "insert" =>
               /\ b.originId # Null => b.originId.counter < b.id.counter
               /\ b.id.counter <= counter[b.id.replicaId]
      BY <2>1 DEF IInv, CausalOps
    <3>2. b.type = "insert" => b.id.counter \in Nat /\ b.id.replicaId \in Replicas
      <4>1. b \in Op
        BY <2>1 DEF IInv, TypeOK
      <4> QED
        BY <4>1 DEF Op, InsertOp, DeleteOp, FormatOp, OpId
    <3> QED
      BY <1>1, <1>5, <3>1, <3>2
  <2>2. CASE b = op
    <3>1. anchor # Null => \E c \in ops : c.type = "insert" /\ c.id = anchor
      BY <1>4 DEF IInv, NodesFromInserts
    <3>2. anchor # Null => anchor.counter <= counter[r] /\ anchor.counter \in Nat
      BY <1>4, <1>5 DEF IInv, CounterDominates, idsOf, OpId
    <3> QED
      BY <1>1, <1>3, <1>5, <1>7, <2>2, <3>1, <3>2
  <2> QED
    BY <1>1, <2>1, <2>2
<1>14. InsertsKept'
  <2>1. \A q \in Replicas : buffered(q)' = buffered(q)
    BY <1>1 DEF buffered
  <2>2. ASSUME NEW q \in Replicas, NEW b \in seen'[q], b.type = "insert"
        PROVE  \/ b.id \in DOMAIN nodesById'[q]
               \/ b \in buffered(q)'
               \/ \E i \in DOMAIN queue'[q] : queue'[q][i] = b
    <3>1. CASE q = r /\ b = op
      BY <1>7, <1>9, <3>1
    <3>2. CASE ~(q = r /\ b = op)
      <4>1. b \in seen[q]
        BY <1>1, <3>2 DEF IInv, TypeOK
      <4>2. \/ b.id \in DOMAIN nodesById[q]
            \/ b \in buffered(q)
            \/ \E i \in DOMAIN queue[q] : queue[q][i] = b
        BY <2>2, <4>1 DEF IInv, InsertsKept
      <4>3. DOMAIN nodesById[q] \subseteq DOMAIN nodesById'[q]
        BY <1>8, <1>9
      <4> QED
        BY <1>1, <2>1, <4>2, <4>3
    <3> QED
      BY <3>1, <3>2
  <2>3. ASSUME NEW q \in Replicas, NEW k \in DOMAIN pending[q]
        PROVE  k \notin DOMAIN nodesById'[q]
    BY <1>2, <1>8, <1>9 DEF IInv, InsertsKept
  <2> QED
    BY <1>1, <2>2, <2>3 DEF IInv, InsertsKept, dependencyOf
<1> QED
  BY <1>8, <1>10, <1>11, <1>12, <1>13, <1>14 DEF IInv

\* apply links in a node and queues what waited for it.
LEMMA ApplyInsertKeeps ==
    ASSUME IInv, NEW r \in Replicas, ApplyInsert(r)
    PROVE  IInv'
<1> DEFINE op == Head(queue[r])
           id == op.id
           flushed == takeBuffered(pending[r], id)
           rest == withoutBuffered(pending[r], id)
<1>1. /\ UNCHANGED <<ops, seen, reloads>>
      /\ queue[r] # <<>> /\ op.type = "insert"
      /\ id \notin DOMAIN nodesById[r] /\ ~Missing(r, op)
      /\ integrate(r, op.originId, op)
      /\ counter' = [counter EXCEPT ![r] = MaxNat(@, id.counter)]
      /\ queue' = [queue EXCEPT ![r] = Tail(@) \o flushed]
      /\ pending' = [pending EXCEPT ![r] = rest]
  BY DEF ApplyInsert, Current
<1>2. /\ queue \in [Replicas -> Seq(ops)] /\ ops \subseteq Op
      /\ counter \in [Replicas -> Nat]
      /\ DOMAIN pending = Replicas
      /\ \A q \in Replicas : /\ DOMAIN pending[q] \subseteq OpId
                             /\ pending[q] \in [DOMAIN pending[q] -> Seq(ops)]
  BY DEF IInv, TypeOK
<1>3. /\ op \in ops /\ Tail(queue[r]) \in Seq(ops)
      /\ \A i \in DOMAIN queue[r] :
           \/ queue[r][i] = op
           \/ \E j \in DOMAIN Tail(queue[r]) : Tail(queue[r])[j] = queue[r][i]
  BY <1>1, <1>2, QueueTail
<1> HIDE DEF op
<1>4. op \in InsertOp
  BY <1>1, <1>2, <1>3 DEF Op, DeleteOp, FormatOp
<1>5. /\ op.originId # Null => op.originId \in DOMAIN nodesById[r]
      /\ id \in OpId /\ id.counter \in Nat
  BY <1>1, <1>4 DEF Missing, dependencyOf, InsertOp, OpId
<1>6. /\ list' \in [Replicas -> Seq(OpId)]
      /\ DOMAIN nodesById' = Replicas
      /\ \A q \in Replicas : /\ DOMAIN nodesById'[q] \subseteq OpId
                             /\ nodesById'[q] \in [DOMAIN nodesById'[q] -> Node]
                             /\ q # r => nodesById'[q] = nodesById[q]
      /\ nodesById'[r] = withNode(nodesById[r], id, newNode(op))
      /\ ListHoldsNodes' /\ OriginRule' /\ NodesFromInserts'
  BY <1>1, <1>3, <1>4, <1>5, IntegrateKeeps
<1> HIDE DEF id
<1>7. /\ DOMAIN nodesById'[r] = DOMAIN nodesById[r] \cup {id}
      /\ nodesById'[r][id] = newNode(op)
      /\ \A k \in DOMAIN nodesById[r] : nodesById'[r][k] = nodesById[r][k]
  BY <1>1, <1>6 DEF withNode
<1>8. /\ counter' \in [Replicas -> Nat] /\ id.counter <= counter'[r]
      /\ \A q \in Replicas : counter[q] <= counter'[q]
  BY <1>1, <1>2, <1>5 DEF MaxNat
<1>9. /\ flushed \in Seq(ops)
      /\ id \in DOMAIN pending[r] => flushed = pending[r][id]
  BY <1>2 DEF takeBuffered
<1>10. /\ DOMAIN rest = DOMAIN pending[r] \ {id}
       /\ rest \in [DOMAIN rest -> Seq(ops)]
       /\ \A k \in DOMAIN rest : rest[k] = pending[r][k]
  BY <1>2 DEF withoutBuffered
<1> DEFINE q2 == Tail(queue[r]) \o flushed
<1>11. /\ q2 \in Seq(ops)
       /\ \A i \in DOMAIN Tail(queue[r]) : \E j \in DOMAIN q2 : q2[j] = Tail(queue[r])[i]
       /\ \A i \in DOMAIN flushed : \E j \in DOMAIN q2 : q2[j] = flushed[i]
  <2> DEFINE t == Tail(queue[r])
  <2>1. t \in Seq(ops)
    BY <1>3
  <2> HIDE DEF t, flushed
  <2>2. t \o flushed \in Seq(ops) /\ Len(t \o flushed) = Len(t) + Len(flushed)
    BY <1>9, <2>1
  <2>3. ASSUME NEW i \in DOMAIN t
        PROVE  i \in DOMAIN (t \o flushed) /\ (t \o flushed)[i] = t[i]
    BY <1>9, <2>1
  <2>4. ASSUME NEW i \in DOMAIN flushed
        PROVE  /\ Len(t) + i \in DOMAIN (t \o flushed)
               /\ (t \o flushed)[Len(t) + i] = flushed[i]
    BY <1>9, <2>1
  <2> QED
    BY <2>2, <2>3, <2>4 DEF t
<1> HIDE DEF flushed, rest, q2
<1>12. /\ queue' \in [Replicas -> Seq(ops)] /\ queue'[r] = q2
       /\ \A q \in Replicas : q # r => queue'[q] = queue[q]
  BY <1>1, <1>2, <1>11 DEF q2
<1>13. /\ DOMAIN pending' = Replicas /\ pending'[r] = rest
       /\ \A q \in Replicas : q # r => pending'[q] = pending[q]
  BY <1>1, <1>2
<1>14. TypeOK'
  <2>1. \A q \in Replicas : /\ DOMAIN pending'[q] \subseteq OpId
                            /\ pending'[q] \in [DOMAIN pending'[q] -> Seq(ops)]
    BY <1>2, <1>10, <1>13
  <2> QED
    BY <1>1, <1>6, <1>8, <1>12, <1>13, <2>1 DEF IInv, TypeOK
<1>15. CounterDominates'
  <2>1. ASSUME NEW q \in Replicas, NEW k \in DOMAIN nodesById'[q]
        PROVE  /\ k.counter <= counter'[q]
               /\ \A m \in Marks : LET by == nodesById'[q][k].formatClock[m] IN
                                   by # Null => by.counter <= counter'[q]
    <3>1. CASE q = r /\ k = id
      BY <1>4, <1>7, <1>8, <3>1, NewNodeType
    <3>2. CASE ~(q = r /\ k = id)
      <4>1. k \in DOMAIN nodesById[q] /\ nodesById'[q][k] = nodesById[q][k]
        BY <1>6, <1>7, <3>2
      <4>2. /\ k.counter <= counter[q]
            /\ \A m \in Marks : LET by == nodesById[q][k].formatClock[m] IN
                                by # Null => by.counter <= counter[q]
        BY <4>1 DEF IInv, CounterDominates, idsOf
      <4>3. k \in OpId /\ nodesById[q][k] \in Node
        BY <4>1 DEF IInv, TypeOK
      <4>4. k.counter \in Nat /\ \A m \in Marks :
              LET by == nodesById[q][k].formatClock[m] IN
              by # Null => by.counter \in Nat
        BY <4>3 DEF Node, OpId
      <4>5. counter[q] \in Nat /\ counter'[q] \in Nat /\ counter[q] <= counter'[q]
        BY <1>2, <1>8
      <4> QED
        BY <4>1, <4>2, <4>4, <4>5
    <3> QED
      BY <3>1, <3>2
  <2> SUFFICES ASSUME NEW q \in Replicas, NEW k \in idsOf(nodesById'[q])
               PROVE  k.counter <= counter'[q]
    BY DEF CounterDominates, idsOf
  <2> QED
    BY <2>1, IdsOfBounded
<1>16. CausalOps' /\ UniqueInsertIds'
  BY <1>1, <1>8, SameOps
<1>17. ASSUME NEW q \in Replicas, NEW b \in seen[q], b.type = "insert"
       PROVE  \/ b.id \in DOMAIN nodesById'[q]
              \/ b \in buffered(q)'
              \/ \E i \in DOMAIN queue'[q] : queue'[q][i] = b
  <2>1. \/ b.id \in DOMAIN nodesById[q]
        \/ b \in buffered(q)
        \/ \E i \in DOMAIN queue[q] : queue[q][i] = b
    BY <1>17 DEF IInv, InsertsKept
  <2>2. CASE q # r
    <3>1. buffered(q)' = buffered(q)
      BY <1>13, <2>2 DEF buffered
    <3> QED
      BY <1>6, <1>12, <2>1, <2>2, <3>1
  <2>3. CASE q = r
    <3>1. CASE b.id \in DOMAIN nodesById[r]
      BY <1>7, <2>3, <3>1
    <3>2. CASE b \in buffered(r)
      <4>1. PICK k \in DOMAIN pending[r] : \E i \in DOMAIN pending[r][k] :
                pending[r][k][i] = b
        BY <3>2 DEF buffered
      <4>2. CASE k = id
        BY <1>9, <1>11, <1>12, <2>3, <4>1, <4>2
      <4>3. CASE k # id
        <5>1. k \in DOMAIN rest /\ rest[k] = pending[r][k]
          BY <1>10, <4>3
        <5>2. b \in buffered(r)'
          BY <1>13, <4>1, <5>1 DEF buffered
        <5> QED
          BY <2>3, <5>2
      <4> QED
        BY <4>2, <4>3
    <3>3. CASE \E i \in DOMAIN queue[r] : queue[r][i] = b
      <4>1. CASE b = op
        BY <1>7, <2>3, <4>1 DEF id
      <4>2. CASE b # op
        BY <1>3, <1>11, <1>12, <2>3, <3>3, <4>2
      <4> QED
        BY <4>1, <4>2
    <3> QED
      BY <2>1, <2>3, <3>1, <3>2, <3>3
  <2> QED
    BY <2>2, <2>3
<1>18. ASSUME NEW q \in Replicas, NEW k \in DOMAIN pending'[q]
       PROVE  /\ k \notin DOMAIN nodesById'[q]
              /\ pending'[q][k] # <<>>
              /\ \A i \in DOMAIN pending'[q][k] : dependencyOf(pending'[q][k][i]) = k
  <2>1. /\ k \in DOMAIN pending[q] /\ pending'[q][k] = pending[q][k]
        /\ q = r => k # id
    BY <1>10, <1>13
  <2>2. /\ k \notin DOMAIN nodesById[q] /\ pending[q][k] # <<>>
        /\ \A i \in DOMAIN pending[q][k] : dependencyOf(pending[q][k][i]) = k
    BY <2>1 DEF IInv, InsertsKept
  <2> QED
    BY <1>6, <1>7, <2>1, <2>2
<1>19. InsertsKept'
  BY <1>1, <1>17, <1>18 DEF InsertsKept, dependencyOf
<1> QED
  BY <1>6, <1>14, <1>15, <1>16, <1>19 DEF IInv

\* localFormat's loop reaches a number of characters, all of them there.
LEMMA CharsReached ==
    ASSUME NEW r, NEW start, NEW length \in Nat
    PROVE  LET n == charsReached(r, start, length) IN
           /\ n \in 0..length
           /\ \A i \in 0..(n - 1) : findNodeAtPosition(r, start + i) # Null
<1> DEFINE Ends == {n \in 0..length :
                      n < length => findNodeAtPosition(r, start + n) = Null}
<1>1. Ends \in SUBSET Nat /\ length \in Ends
  OBVIOUS
<1>2. PICK n \in Ends : \A m \in Ends : n <= m
  <2> HIDE DEF Ends
  <2> QED
    BY <1>1, LeastNat
<1>3. ASSUME NEW i \in 0..(n - 1)
      PROVE  findNodeAtPosition(r, start + i) # Null
  BY <1>2
<1>4. \E k \in 0..length :
        /\ k < length => findNodeAtPosition(r, start + k) = Null
        /\ \A i \in 0..(k - 1) : findNodeAtPosition(r, start + i) # Null
  BY <1>2, <1>3
<1> QED
  BY <1>4 DEF charsReached

\* Every entry of a patch has a mark and a value.
LEMMA PatchType ==
    ASSUME NEW patch \in Patches
    PROVE  /\ Len(patch) \in Nat
           /\ \A j \in 1..Len(patch) : patch[j].mark \in Marks
                                       /\ patch[j].value \in {TRUE, Null}
<1>1. Cardinality(Marks) \in Nat
  BY MarksAssumption, FS_CardinalityType
<1> DEFINE Entry == [mark : Marks, value : {TRUE, Null}]
<1>2. PICK n \in 1..Cardinality(Marks) : patch \in [1..n -> Entry]
  BY DEF Patches
<1>3. n \in Nat
  BY <1>1
<1>4. patch \in Seq(Entry) /\ Len(patch) = n
  <2> HIDE DEF Entry
  <2> QED
    BY <1>2, <1>3
<1>5. \A j \in 1..Len(patch) : patch[j] \in Entry
  <2> HIDE DEF Entry
  <2> QED
    BY <1>2, <1>3, <1>4
<1> QED
  BY <1>3, <1>4, <1>5

\* The ids localFormat issues lie between the old counter and the new one.
LEMMA FormatOpsType ==
    ASSUME IInv, NEW r \in Replicas, NEW start, NEW patch \in Patches,
           NEW chars \in Nat,
           \A i \in 0..(chars - 1) : findNodeAtPosition(r, start + i) # Null
    PROVE  \A op \in formatOps(r, start, chars, patch) :
             /\ op \in FormatOp /\ op.type = "format"
             /\ op.targetId \in DOMAIN nodesById[r]
             /\ op.id.counter <= counter[r] + chars * Len(patch)
<1> DEFINE w == Len(patch)
           c == counter[r]
           mkop(i, j) == [type |-> "format",
                          id |-> [counter |-> c + i * w + j, replicaId |-> r],
                          targetId |-> findNodeAtPosition(r, start + i),
                          mark |-> patch[j].mark, value |-> patch[j].value]
<1>1. /\ w \in Nat /\ c \in Nat
      /\ \A j \in 1..w : patch[j].mark \in Marks /\ patch[j].value \in {TRUE, Null}
  BY PatchType DEF IInv, TypeOK
<1> SUFFICES ASSUME NEW i \in 0..(chars - 1), NEW j \in 1..w
             PROVE  /\ mkop(i, j) \in FormatOp /\ mkop(i, j).type = "format"
                    /\ mkop(i, j).targetId \in DOMAIN nodesById[r]
                    /\ mkop(i, j).id.counter <= c + chars * w
  BY DEF formatOps
<1> HIDE DEF w, c
<1>2. i * w + j \in Nat /\ i * w + j <= chars * w
  <2>1. i \in Nat /\ j \in Nat /\ j <= w /\ chars - 1 - i \in Nat
    BY <1>1
  <2> DEFINE d == chars - 1 - i
  <2>2. d * w \in Nat /\ i * w \in Nat /\ chars * w = i * w + w + d * w
    <3>1. chars = i + 1 + d
      BY <2>1
    <3> HIDE DEF d
    <3>2. d \in Nat
      BY <2>1 DEF d
    <3>3. (i + 1 + d) * w = i * w + w + d * w
      BY <1>1, <2>1, <3>2
    <3>4. \A x, y \in Nat : x * y \in Nat
      OBVIOUS
    <3> QED
      BY <1>1, <2>1, <3>1, <3>2, <3>3, <3>4
  <2> QED
    BY <1>1, <2>1, <2>2
<1>3. findNodeAtPosition(r, start + i) \in DOMAIN nodesById[r]
  BY FoundNode
<1>4. findNodeAtPosition(r, start + i) \in OpId
  BY <1>3 DEF IInv, TypeOK
<1>5. [counter |-> c + i * w + j, replicaId |-> r] \in OpId
  <2>1. c + i * w + j \in Nat
    BY <1>1, <1>2
  <2> QED
    BY <2>1 DEF OpId
<1>6. mkop(i, j) \in FormatOp
  BY <1>1, <1>4, <1>5 DEF FormatOp
<1>7. mkop(i, j).id.counter = c + i * w + j
  OBVIOUS
<1>8. c + i * w + j <= c + chars * w
  <2> DEFINE x == i * w
             y == chars * w
  <2>1. x \in Int /\ y \in Int
    BY <1>1
  <2>2. x + j <= y
    BY <1>2
  <2> HIDE DEF x, y
  <2> QED
    BY <1>1, <2>1, <2>2 DEF x, y
<1> QED
  BY <1>3, <1>6, <1>7, <1>8

\* localFormat changes marks and issues a block of ids.
LEMMA LocalFormatKeeps ==
    ASSUME IInv, NEW r \in Replicas, NEW start, NEW length \in Nat,
           NEW patch \in Patches, LocalFormat(r, start, length, patch)
    PROVE  IInv'
<1> DEFINE chars == charsReached(r, start, length)
           fops == formatOps(r, start, chars, patch)
           old == nodesById[r]
           on(id) == {op \in fops : op.targetId = id}
           new == [id \in DOMAIN old |-> applyFormatOps(old[id], on(id))]
           issued == chars * Len(patch)
<1>1. /\ UNCHANGED <<list, pending, queue, reloads>>
      /\ ops' = ops \cup fops /\ seen' = [seen EXCEPT ![r] = @ \cup fops]
      /\ nodesById' = [nodesById EXCEPT ![r] = new]
      /\ counter' = [counter EXCEPT ![r] = @ + issued]
  BY DEF LocalFormat, Produce
<1>2. chars \in Nat /\ \A i \in 0..(chars - 1) : findNodeAtPosition(r, start + i) # Null
  BY CharsReached
<1>3. issued \in Nat
  <2>1. Len(patch) \in Nat
    BY PatchType
  <2>2. \A x, y \in Nat : x * y \in Nat
    OBVIOUS
  <2> HIDE DEF chars
  <2> QED
    BY <1>2, <2>1, <2>2
<1>4. \A op \in fops : /\ op \in FormatOp /\ op.type = "format"
                       /\ op.targetId \in DOMAIN old
                       /\ op.id.counter <= counter[r] + issued
  <2> HIDE DEF chars
  <2> QED
    BY <1>2, FormatOpsType
<1> HIDE DEF chars, fops, issued
<1>5. /\ counter \in [Replicas -> Nat] /\ counter' \in [Replicas -> Nat]
      /\ counter'[r] = counter[r] + issued
      /\ \A q \in Replicas : counter[q] <= counter'[q]
      /\ old \in [DOMAIN old -> Node]
  BY <1>1, <1>3 DEF IInv, TypeOK
<1>6. ASSUME NEW id \in DOMAIN old
      PROVE  /\ new[id] \in Node
             /\ new[id].originId = old[id].originId
             /\ \A m \in Marks : LET by == new[id].formatClock[m] IN
                  by = old[id].formatClock[m] \/ by.counter <= counter'[r]
  <2>1. old[id] \in Node /\ on(id) \in SUBSET FormatOp
    BY <1>4, <1>5
  <2> DEFINE n == applyFormatOps(old[id], on(id))
  <2>2. /\ n \in Node /\ n.originId = old[id].originId
        /\ \A m \in Marks : \/ n.formatClock[m] = old[id].formatClock[m]
                            \/ \E op \in on(id) : n.formatClock[m] = op.id
    <3> HIDE DEF on, old
    <3> QED
      BY <2>1, FormattedType
  <2>3. new[id] = n
    OBVIOUS
  <2> HIDE DEF n, new
  <2> QED
    BY <1>4, <1>5, <2>2, <2>3
<1>7. DOMAIN new = DOMAIN old /\ new \in [DOMAIN old -> Node]
  BY <1>6
<1> HIDE DEF new
<1>8. /\ DOMAIN nodesById' = Replicas
      /\ \A q \in Replicas :
           /\ DOMAIN nodesById'[q] = DOMAIN nodesById[q]
           /\ DOMAIN nodesById[q] \subseteq OpId
           /\ nodesById'[q] \in [DOMAIN nodesById[q] -> Node]
      /\ ListHoldsNodes' /\ OriginRule' /\ NodesFromInserts'
      /\ CounterDominates'
  BY <1>1, <1>5, <1>6, <1>7, RewriteKeeps
<1>9. TypeOK'
  <2>1. fops \in SUBSET Op
    BY <1>4 DEF Op
  <2>2. /\ ops' \subseteq Op /\ seen' \in [Replicas -> SUBSET ops']
        /\ queue' \in [Replicas -> Seq(ops')]
        /\ DOMAIN pending' = Replicas
        /\ \A q \in Replicas : /\ DOMAIN pending'[q] \subseteq OpId
                               /\ pending'[q] \in [DOMAIN pending'[q] -> Seq(ops')]
        /\ reloads' \in Nat
    BY <1>1, <2>1, ProduceType
  <2>3. list' \in [Replicas -> Seq(OpId)]
    BY <1>1 DEF IInv, TypeOK
  <2> QED
    BY <1>5, <1>8, <2>2, <2>3 DEF TypeOK
<1>10. UniqueInsertIds'
  BY <1>1, <1>4 DEF IInv, UniqueInsertIds
<1>11. CausalOps'
  <2> SUFFICES ASSUME NEW b \in ops'
               PROVE  /\ dependencyOf(b) # Null =>
                           \E c \in ops' : c.type = "insert" /\ c.id = dependencyOf(b)
                      /\ b.type = "insert" =>
                           /\ b.originId # Null => b.originId.counter < b.id.counter
                           /\ b.id.counter <= counter'[b.id.replicaId]
    BY DEF CausalOps, dependencyOf
  <2>1. CASE b \in ops
    <3>1. /\ dependencyOf(b) # Null =>
               \E c \in ops : c.type = "insert" /\ c.id = dependencyOf(b)
          /\ b.type = "insert" =>
               /\ b.originId # Null => b.originId.counter < b.id.counter
               /\ b.id.counter <= counter[b.id.replicaId]
      BY <2>1 DEF IInv, CausalOps
    <3>2. b.type = "insert" => b.id.counter \in Nat /\ b.id.replicaId \in Replicas
      <4>1. b \in Op
        BY <2>1 DEF IInv, TypeOK
      <4> QED
        BY <4>1 DEF Op, InsertOp, DeleteOp, FormatOp, OpId
    <3> QED
      BY <1>1, <1>5, <3>1, <3>2
  <2>2. CASE b \in fops
    <3>1. b.type = "format" /\ dependencyOf(b) \in DOMAIN old
      BY <1>4, <2>2 DEF dependencyOf
    <3>2. \E c \in ops : c.type = "insert" /\ c.id = dependencyOf(b)
      BY <3>1 DEF IInv, NodesFromInserts
    <3> QED
      BY <1>1, <3>1, <3>2
  <2> QED
    BY <1>1, <2>1, <2>2
<1>12. InsertsKept'
  <2>1. \A q \in Replicas : buffered(q)' = buffered(q)
    BY <1>1 DEF buffered
  <2>2. ASSUME NEW q \in Replicas, NEW b \in seen'[q], b.type = "insert"
        PROVE  \/ b.id \in DOMAIN nodesById'[q]
               \/ b \in buffered(q)'
               \/ \E i \in DOMAIN queue'[q] : queue'[q][i] = b
    <3>1. b \in seen[q]
      BY <1>1, <1>4, <2>2 DEF IInv, TypeOK
    <3>2. \/ b.id \in DOMAIN nodesById[q]
          \/ b \in buffered(q)
          \/ \E i \in DOMAIN queue[q] : queue[q][i] = b
      BY <2>2, <3>1 DEF IInv, InsertsKept
    <3> QED
      BY <1>1, <1>8, <2>1, <3>2
  <2> QED
    BY <1>1, <1>8, <2>2 DEF IInv, InsertsKept, dependencyOf
<1> QED
  BY <1>8, <1>9, <1>10, <1>11, <1>12 DEF IInv

\* A rebuilt replica: its own inserts are in the snapshot, so the counter that
\* fromSnapshot seeds covers them.
LEMMA ReloadKeeps ==
    ASSUME IInv, NEW r \in Replicas, NEW s \in Replicas, Reload(r, s)
    PROVE  IInv'
<1> DEFINE top == maxCounter(idsOf(nodesById[s]))
           kept == seen[s] \ buffered(s)
<1>1. /\ UNCHANGED <<queue, ops>> /\ reloads' = reloads + 1
      /\ \A q \in Replicas : queue[q] = <<>>
      /\ \A op \in ops : op.type # "delete" /\ op.id.replicaId = r => op \in kept
      /\ list' = [list EXCEPT ![r] = list[s]]
      /\ nodesById' = [nodesById EXCEPT ![r] = nodesById[s]]
      /\ pending' = [pending EXCEPT ![r] = EmptyMap]
      /\ counter' = [counter EXCEPT ![r] = top]
      /\ seen' = [seen EXCEPT ![r] = kept]
  BY DEF Reload, Idle
<1>2. /\ list \in [Replicas -> Seq(OpId)]
      /\ DOMAIN nodesById = Replicas /\ DOMAIN pending = Replicas
      /\ counter \in [Replicas -> Nat] /\ seen \in [Replicas -> SUBSET ops]
      /\ \A q \in Replicas :
           /\ DOMAIN nodesById[q] \subseteq OpId
           /\ nodesById[q] \in [DOMAIN nodesById[q] -> Node]
           /\ DOMAIN pending[q] \subseteq OpId
           /\ pending[q] \in [DOMAIN pending[q] -> Seq(ops)]
  BY DEF IInv, TypeOK
<1>3. top \in Nat /\ \A id \in idsOf(nodesById[s]) : id.counter <= top
  <2>1. idsOf(nodesById[s]) \in SUBSET OpId
    BY <1>2, IdsOfType
  <2>2. counter[s] \in Nat /\ \A id \in idsOf(nodesById[s]) : id.counter <= counter[s]
    BY <1>2 DEF IInv, CounterDominates
  <2> QED
    BY <2>1, <2>2, MaxCounterDominates
<1> HIDE DEF top
<1>4. ASSUME NEW q \in Replicas, q # r
      PROVE  /\ list'[q] = list[q] /\ nodesById'[q] = nodesById[q]
             /\ pending'[q] = pending[q] /\ counter'[q] = counter[q]
             /\ seen'[q] = seen[q] /\ buffered(q)' = buffered(q)
  <2>1. pending'[q] = pending[q]
    BY <1>1, <1>2, <1>4
  <2> QED
    BY <1>1, <1>2, <1>4, <2>1 DEF buffered
<1>5. /\ list'[r] = list[s] /\ nodesById'[r] = nodesById[s]
      /\ pending'[r] = EmptyMap /\ counter'[r] = top /\ seen'[r] = kept
  BY <1>1, <1>2
<1>6. DOMAIN EmptyMap = {} /\ EmptyMap \in [{} -> Seq(ops)]
  BY DEF EmptyMap
<1>7. \A op \in kept : op.type = "insert" => op.id \in DOMAIN nodesById[s]
  BY <1>1 DEF IInv, InsertsKept
<1>8. TypeOK'
  <2>1. list' \in [Replicas -> Seq(OpId)]
    BY <1>1, <1>2
  <2>2. \A q \in Replicas :
          /\ DOMAIN nodesById'[q] \subseteq OpId
          /\ nodesById'[q] \in [DOMAIN nodesById'[q] -> Node]
          /\ DOMAIN pending'[q] \subseteq OpId
          /\ pending'[q] \in [DOMAIN pending'[q] -> Seq(ops)]
    BY <1>2, <1>4, <1>5, <1>6
  <2>3. counter' \in [Replicas -> Nat] /\ seen' \in [Replicas -> SUBSET ops]
    BY <1>1, <1>2, <1>3
  <2>4. DOMAIN nodesById' = Replicas /\ DOMAIN pending' = Replicas
    BY <1>1, <1>2
  <2> QED
    BY <1>1, <2>1, <2>2, <2>3, <2>4 DEF IInv, TypeOK
<1>9. CounterDominates'
  <2> SUFFICES ASSUME NEW q \in Replicas, NEW id \in idsOf(nodesById'[q])
               PROVE  id.counter <= counter'[q]
    BY DEF CounterDominates, idsOf
  <2>1. CASE q = r
    BY <1>3, <1>5, <2>1
  <2>2. CASE q # r
    BY <1>4, <2>2 DEF IInv, CounterDominates
  <2> QED
    BY <2>1, <2>2
<1>10. ListHoldsNodes'
  BY <1>4, <1>5 DEF IInv, ListHoldsNodes
<1>11. OriginRule'
  <2> SUFFICES ASSUME NEW q \in Replicas, NEW k \in DOMAIN list'[q]
               PROVE  AfterOrigin(list'[q], k, nodesById'[q][list'[q][k]].originId)
    BY DEF OriginRule, AfterOrigin
  <2> QED
    BY <1>4, <1>5 DEF IInv, OriginRule
<1>12. NodesFromInserts'
  BY <1>1, <1>4, <1>5 DEF IInv, NodesFromInserts
<1>13. UniqueInsertIds'
  BY <1>1 DEF IInv, UniqueInsertIds
<1>14. ASSUME NEW op \in ops, op.type = "insert"
       PROVE  op.id.counter <= counter'[op.id.replicaId]
  <2>1. op.id.replicaId \in Replicas
    <3>1. op \in Op
      BY DEF IInv, TypeOK
    <3> QED
      BY <1>14, <3>1 DEF Op, InsertOp, DeleteOp, FormatOp, OpId
  <2>2. CASE op.id.replicaId = r
    <3>1. op.id \in DOMAIN nodesById[s]
      BY <1>1, <1>7, <1>14, <2>2
    <3> QED
      BY <1>3, <1>5, <2>2, <3>1 DEF idsOf
  <2>3. CASE op.id.replicaId # r
    BY <1>4, <1>14, <2>1, <2>3 DEF IInv, CausalOps
  <2> QED
    BY <2>2, <2>3
<1>15. CausalOps'
  BY <1>1, <1>14 DEF IInv, CausalOps, dependencyOf
<1>16. ASSUME NEW q \in Replicas, NEW b \in seen'[q], b.type = "insert"
       PROVE  \/ b.id \in DOMAIN nodesById'[q]
              \/ b \in buffered(q)'
              \/ \E i \in DOMAIN queue'[q] : queue'[q][i] = b
  <2>1. CASE q = r
    BY <1>5, <1>7, <1>16, <2>1
  <2>2. CASE q # r
    BY <1>1, <1>4, <1>16, <2>2 DEF IInv, InsertsKept
  <2> QED
    BY <2>1, <2>2
<1>17. ASSUME NEW q \in Replicas, NEW k \in DOMAIN pending'[q]
       PROVE  /\ k \notin DOMAIN nodesById'[q]
              /\ pending'[q][k] # <<>>
              /\ \A i \in DOMAIN pending'[q][k] : dependencyOf(pending'[q][k][i]) = k
  <2>1. q # r
    BY <1>5, <1>6
  <2> QED
    BY <1>4, <2>1 DEF IInv, InsertsKept
<1>18. InsertsKept'
  BY <1>16, <1>17 DEF InsertsKept, dependencyOf
<1> QED
  BY <1>8, <1>9, <1>10, <1>11, <1>12, <1>13, <1>15, <1>18 DEF IInv

\* A step that changes nothing keeps the invariant.
LEMMA StutterKeeps ==
    ASSUME IInv, UNCHANGED vars
    PROVE  IInv'
<1>1. UNCHANGED <<list, nodesById, pending, counter, queue, ops, seen, reloads>>
  BY DEF vars
<1>2. TypeOK'
  BY <1>1 DEF IInv, TypeOK
<1>3. ListHoldsNodes' /\ OriginRule' /\ NodesFromInserts'
  BY <1>1, SameSkeleton
<1>4. CausalOps' /\ UniqueInsertIds'
  BY <1>1, SameOps DEF IInv, TypeOK
<1>5. CounterDominates'
  BY <1>1 DEF IInv, CounterDominates, idsOf
<1>6. InsertsKept'
  BY <1>1 DEF IInv, InsertsKept, dependencyOf, buffered
<1> QED
  BY <1>2, <1>3, <1>4, <1>5, <1>6 DEF IInv

\* Every step of the specification keeps the invariant.
LEMMA NextKeeps == IInv /\ [Next]_vars => IInv'
<1> SUFFICES ASSUME IInv, [Next]_vars PROVE IInv'
  OBVIOUS
<1>1. ASSUME NEW r \in Editors, Edit(r) PROVE IInv'
  <2>1. r \in Replicas /\ Len(list[r]) \in Nat
    BY DEF Replicas, IInv, TypeOK
  <2>2. PICK index \in 0..Len(list[r]) :
          \/ \E attrs \in SUBSET Marks : LocalInsert(r, index, attrs)
          \/ LocalDelete(r, index)
          \/ \E length \in 1..Len(list[r]), patch \in Patches :
                 LocalFormat(r, index, length, patch)
    BY <1>1 DEF Edit
  <2>3. CASE \E attrs \in SUBSET Marks : LocalInsert(r, index, attrs)
    BY <2>1, <2>3, LocalInsertKeeps
  <2>4. CASE LocalDelete(r, index)
    BY <2>1, <2>4, LocalDeleteKeeps
  <2>5. CASE \E length \in 1..Len(list[r]), patch \in Patches :
                 LocalFormat(r, index, length, patch)
    <3>1. PICK length \in 1..Len(list[r]), patch \in Patches :
                 LocalFormat(r, index, length, patch)
      BY <2>5
    <3>2. length \in Nat
      BY <2>1
    <3> QED
      BY <2>1, <3>1, <3>2, LocalFormatKeeps
  <2> QED
    BY <2>2, <2>3, <2>4, <2>5
<1>2. ASSUME NEW r \in Replicas, NEW op \in ops, Receive(r, op) PROVE IInv'
  BY <1>2, ReceiveKeeps
<1>3. ASSUME NEW r \in Replicas, ApplyStep(r) PROVE IInv'
  BY <1>3, SkipAppliedKeeps, BufferKeeps, ApplyInsertKeeps, ApplyDeleteKeeps,
     ApplyFormatKeeps DEF ApplyStep
<1>4. ASSUME NEW r \in Servers, CompactTombstones(r) PROVE IInv'
  BY <1>4, CompactTombstonesKeeps DEF Replicas
<1>5. ASSUME NEW r \in Replicas, NEW s \in {r} \cup Servers, Reload(r, s)
      PROVE  IInv'
  <2>1. s \in Replicas
    BY DEF Replicas
  <2> QED
    BY <1>5, <2>1, ReloadKeeps
<1>6. CASE UNCHANGED vars
  BY <1>6, StutterKeeps
<1> QED
  BY <1>1, <1>2, <1>3, <1>4, <1>5, <1>6 DEF Next

\* The inductive invariant holds in every behaviour of the replicas.
THEOREM Invariance == Spec => []IInv
<1>1. Init => IInv
  BY InitEstablishes
<1>2. IInv /\ [Next]_vars => IInv'
  BY NextKeeps
<1> QED
  BY <1>1, <1>2, PTL DEF Spec

\* Types are respected: a snapshot's counter, every buffered operation and every
\* queued one are what the code's declarations say.
THEOREM TypeCorrect == Spec => []TypeOK
<1>1. IInv => TypeOK
  BY DEF IInv
<1> QED
  BY <1>1, Invariance, PTL

\* The scan of integrate keeps every node right of its origin with only greater
\* ids between, for any number of replicas and any order of delivery.
THEOREM OriginRuleHolds == Spec => []OriginRule
<1>1. IInv => OriginRule
  BY DEF IInv
<1> QED
  BY <1>1, Invariance, PTL

\* The id of an insert is never issued again, however often replicas are rebuilt
\* from snapshots: fromSnapshot seeds a counter that covers every character.
THEOREM InsertIdsAreFresh == Spec => []InsertIdsFresh
<1>1. ASSUME IInv
      PROVE  InsertIdsFresh
  <2>1. ASSUME NEW r \in Editors, NEW op \in ops, op.type = "insert"
        PROVE  op.id # nextId(r)
    <3>1. op.id.counter <= counter[op.id.replicaId]
      BY <1>1, <2>1 DEF IInv, CausalOps
    <3>2. r \in Replicas /\ counter[r] \in Nat
      BY <1>1 DEF IInv, TypeOK, Replicas
    <3>3. CASE op.id.replicaId = r
      <4>1. op.id.counter # counter[r] + 1
        BY <3>1, <3>2, <3>3, SMT
      <4> QED
        BY <4>1 DEF nextId
    <3>4. CASE op.id.replicaId # r
      BY <3>4 DEF nextId
    <3> QED
      BY <3>3, <3>4
  <2> QED
    BY <1>1, <2>1 DEF IInv, InsertIdsFresh
<1> QED
  BY <1>1, Invariance, PTL

-----------------------------------------------------------------------------
(* Convergence of the order *)

\* A node has the same origin wherever it is, and the origin is an older id.
LEMMA SameOrigin ==
    ASSUME IInv, NEW r \in Replicas, NEW s \in Replicas,
           NEW y \in DOMAIN nodesById[r], y \in DOMAIN nodesById[s]
    PROVE  /\ nodesById[s][y].originId = nodesById[r][y].originId
           /\ LET o == nodesById[r][y].originId IN
              o # Null => o.counter < y.counter
<1>1. PICK a \in ops : /\ a.type = "insert" /\ a.id = y
                       /\ a.originId = nodesById[r][y].originId
  BY DEF IInv, NodesFromInserts
<1>2. PICK b \in ops : /\ b.type = "insert" /\ b.id = y
                       /\ b.originId = nodesById[s][y].originId
  BY DEF IInv, NodesFromInserts
<1>3. a = b
  BY <1>1, <1>2 DEF IInv, UniqueInsertIds
<1>4. a.originId # Null => a.originId.counter < a.id.counter
  BY <1>1 DEF IInv, CausalOps
<1> QED
  BY <1>1, <1>2, <1>3, <1>4

\* What stands between a node and its origin is greater than the node, so a
\* smaller id left of the node is the origin or left of it.
LEMMA LeftOfOrigin ==
    ASSUME NEW s \in Seq(OpId), NEW i \in DOMAIN s, NEW k \in DOMAIN s,
           NEW origin, AfterOrigin(s, k, origin),
           i < k, compareOpId(s[k], s[i]) > 0
    PROVE  \E j \in DOMAIN s : j < k /\ s[j] = origin /\ i <= j
<1>1. PICK j \in 0..(k - 1) :
        /\ IF j = 0 THEN origin = Null ELSE s[j] = origin
        /\ \A n \in (j + 1)..(k - 1) : compareOpId(s[n], s[k]) > 0
  BY DEF AfterOrigin
<1>2. s[i] \in OpId /\ s[k] \in OpId /\ i \in 1..Len(s) /\ k \in 1..Len(s)
  OBVIOUS
<1>3. ~(compareOpId(s[i], s[k]) > 0)
  <2>1. compareOpId(s[i], s[k]) < 0 /\ compareOpId(s[i], s[k]) \in Int
    BY <1>2, CompareTotal
  <2> QED
    BY <2>1
<1>4. i <= j
  BY <1>1, <1>2, <1>3
<1> QED
  BY <1>1, <1>2, <1>4

\* If two replicas disagreed on a pair, they would disagree on one of the two
\* and the origin of the other.
LEMMA Descend ==
    ASSUME IInv, NEW r \in Replicas, NEW s \in Replicas,
           NEW x, NEW y \in DOMAIN nodesById[r], y \in DOMAIN nodesById[s],
           Before(list[r], x, y), Before(list[s], y, x),
           compareOpId(y, x) > 0
    PROVE  \E o : /\ Before(list[r], x, o) /\ Before(list[s], o, x)
                  /\ o.counter < y.counter
<1> DEFINE a == list[r]
           b == list[s]
           o == nodesById[r][y].originId
<1>1. a \in Seq(OpId) /\ b \in Seq(OpId)
  BY DEF IInv, TypeOK
<1>2. /\ \A j, k \in DOMAIN a : a[j] = a[k] => j = k
      /\ \A j, k \in DOMAIN b : b[j] = b[k] => j = k
      /\ \A k \in DOMAIN b : b[k] \in DOMAIN nodesById[s]
      /\ \A k \in DOMAIN a : AfterOrigin(a, k, nodesById[r][a[k]].originId)
      /\ \A k \in DOMAIN b : AfterOrigin(b, k, nodesById[s][b[k]].originId)
  BY DEF IInv, ListHoldsNodes, OriginRule
<1>3. nodesById[s][y].originId = o /\ (o # Null => o.counter < y.counter)
  BY SameOrigin
<1>4. PICK i, k \in DOMAIN a : i < k /\ a[i] = x /\ a[k] = y
  BY DEF Before
<1>5. PICK j \in DOMAIN a : j < k /\ a[j] = o /\ i <= j
  <2>1. AfterOrigin(a, k, o)
    BY <1>2, <1>4
  <2> HIDE DEF a, o
  <2> QED
    BY <1>1, <1>4, <2>1, LeftOfOrigin
<1>6. o # Null
  BY <1>1, <1>5, NullAssumption
<1>7. PICK k2, i2 \in DOMAIN b : k2 < i2 /\ b[k2] = y /\ b[i2] = x
  BY DEF Before
<1>8. PICK j2 \in 0..(k2 - 1) : IF j2 = 0 THEN o = Null ELSE b[j2] = o
  <2>1. AfterOrigin(b, k2, o)
    BY <1>2, <1>3, <1>7
  <2> QED
    BY <2>1 DEF AfterOrigin
<1> HIDE DEF a, b, o
<1>9. j2 \in DOMAIN b /\ j2 < i2 /\ b[j2] = o
  BY <1>1, <1>6, <1>7, <1>8
<1>10. i # j
  BY <1>1, <1>2, <1>4, <1>5, <1>7, <1>9
<1>11. i < j
  BY <1>1, <1>4, <1>5, <1>10
<1>12. Before(a, x, o) /\ Before(b, o, x)
  BY <1>4, <1>5, <1>7, <1>9, <1>11 DEF Before
<1> QED
  BY <1>3, <1>6, <1>12 DEF a, b

\* The pairs of ids on which two replicas disagree, by the sum of the counters.
Disagree(r, s, x, y, n) ==
    /\ Before(list[r], x, y) /\ Before(list[s], y, x)
    /\ n = x.counter + y.counter

\* Two replicas disagree on no pair: of the pairs they disagree on, one with the
\* least sum of counters would lead to one with a lesser sum.
LEMMA NoDisagreement ==
    ASSUME IInv, NEW r \in Replicas, NEW s \in Replicas, NEW x, NEW y,
           Before(list[r], x, y), Before(list[s], y, x)
    PROVE  FALSE
<1> DEFINE Sums == {n \in Nat : \E p, q \in Replicas, u, v \in OpId :
                                  Disagree(p, q, u, v, n)}
<1>1. ASSUME NEW p \in Replicas, NEW u, NEW v, Before(list[p], u, v)
      PROVE  /\ u \in OpId /\ v \in OpId /\ u # v
             /\ u \in DOMAIN nodesById[p] /\ v \in DOMAIN nodesById[p]
             /\ u.counter \in Nat /\ v.counter \in Nat
  <2>1. PICK i, j \in DOMAIN list[p] : i < j /\ list[p][i] = u /\ list[p][j] = v
    BY <1>1 DEF Before
  <2>2. u \in DOMAIN nodesById[p] /\ v \in DOMAIN nodesById[p]
    BY <2>1 DEF IInv, ListHoldsNodes
  <2>3. u \in OpId /\ v \in OpId
    BY <2>2 DEF IInv, TypeOK
  <2>4. u # v
    <3>1. i \in Int /\ j \in Int
      BY DEF IInv, TypeOK
    <3> QED
      BY <2>1, <3>1 DEF IInv, ListHoldsNodes
  <2> QED
    BY <2>2, <2>3, <2>4 DEF OpId
<1>2. x \in OpId /\ y \in OpId /\ x.counter \in Nat /\ y.counter \in Nat
  BY <1>1
<1>3. x.counter + y.counter \in Sums
  BY <1>2 DEF Disagree
<1>4. PICK n \in Sums : \A m \in Sums : n <= m
  <2>1. Sums \in SUBSET Nat
    OBVIOUS
  <2> HIDE DEF Sums
  <2> QED
    BY <1>3, <2>1, LeastNat
<1>5. PICK p, q \in Replicas, u, v \in OpId : Disagree(p, q, u, v, n)
  BY <1>4
<1>6. ASSUME NEW p1 \in Replicas, NEW q1 \in Replicas, NEW u1, NEW v1,
             Disagree(p1, q1, u1, v1, n), compareOpId(v1, u1) > 0
      PROVE  FALSE
  <2>1. /\ Before(list[p1], u1, v1) /\ Before(list[q1], v1, u1)
        /\ n = u1.counter + v1.counter
    BY <1>6 DEF Disagree
  <2>2. /\ v1 \in DOMAIN nodesById[p1] /\ v1 \in DOMAIN nodesById[q1]
        /\ u1.counter \in Nat /\ v1.counter \in Nat /\ u1 \in OpId
    BY <1>1, <2>1
  <2>3. PICK o : /\ Before(list[p1], u1, o) /\ Before(list[q1], o, u1)
                 /\ o.counter < v1.counter
    BY <1>6, <2>1, <2>2, Descend
  <2>4. o \in OpId /\ o.counter \in Nat
    BY <1>1, <2>3
  <2> DEFINE m == u1.counter + o.counter
  <2>5. m \in Nat /\ m < n
    BY <2>1, <2>2, <2>3, <2>4
  <2>6. Disagree(p1, q1, u1, o, m)
    BY <2>3 DEF Disagree
  <2>7. m \in Sums
    BY <2>2, <2>4, <2>5, <2>6
  <2> HIDE DEF m, Sums
  <2>8. n <= m
    BY <1>4, <2>7
  <2>9. n \in Nat
    BY <2>1, <2>2
  <2> QED
    BY <2>5, <2>8, <2>9
<1>7. /\ Before(list[p], u, v) /\ Before(list[q], v, u)
      /\ u # v /\ n = u.counter + v.counter
      /\ u.counter \in Nat /\ v.counter \in Nat
  BY <1>1, <1>5 DEF Disagree
<1>8. compareOpId(v, u) > 0 \/ compareOpId(u, v) > 0
  <2>1. /\ compareOpId(u, v) \in Int
        /\ compareOpId(v, u) > 0 <=> compareOpId(u, v) < 0
        /\ compareOpId(u, v) # 0
    BY <1>7, CompareTotal
  <2> QED
    BY <2>1
<1>9. Disagree(q, p, v, u, n)
  BY <1>7 DEF Disagree
<1> QED
  BY <1>5, <1>6, <1>8, <1>9

\* Any two characters stand in the same order at all replicas that hold both:
\* the order of the document does not depend on the order of delivery.
THEOREM OrderConverges == Spec => []SameOrder
<1>1. ASSUME IInv PROVE SameOrder
  <2> SUFFICES ASSUME NEW r \in Replicas, NEW s \in Replicas,
                      NEW x \in DOMAIN nodesById[r], NEW y \in DOMAIN nodesById[r],
                      Before(list[r], x, y),
                      {x, y} \subseteq DOMAIN nodesById[s]
               PROVE  Before(list[s], x, y)
    BY DEF SameOrder
  <2>1. PICK i, j \in DOMAIN list[s] : list[s][i] = x /\ list[s][j] = y
    <3>1. {list[s][k] : k \in DOMAIN list[s]} = DOMAIN nodesById[s]
      BY <1>1 DEF IInv, ListHoldsNodes
    <3> QED
      BY <3>1
  <2>2. i \in Int /\ j \in Int
    BY <1>1 DEF IInv, TypeOK
  <2>3. x # y
    <3>1. PICK k, m \in DOMAIN list[r] : k < m /\ list[r][k] = x /\ list[r][m] = y
      BY DEF Before
    <3>2. k \in Int /\ m \in Int
      BY <1>1 DEF IInv, TypeOK
    <3> QED
      BY <1>1, <3>1, <3>2 DEF IInv, ListHoldsNodes
  <2>4. ~Before(list[s], y, x)
    BY <1>1, NoDisagreement
  <2> QED
    BY <2>1, <2>2, <2>3, <2>4 DEF Before
<1>2. IInv => SameOrder
  BY <1>1
<1> QED
  BY <1>2, Invariance, PTL
=============================================================================
