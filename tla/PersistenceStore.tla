-------------------------- MODULE PersistenceStore --------------------------
(***************************************************************************)
(* The durable state of one document: the Document row, the Snapshot rows  *)
(* and the Operation rows of PrismaPersistenceStore, as a value that the   *)
(* transactions below map to a new one.  A transaction is atomic; load is  *)
(* three queries without one, so it is three operators.                    *)
(***************************************************************************)
EXTENDS OpSets

Batch(seqs) == [seq : seqs, ops : SUBSET Ops]

\* latestSeq is None while there is no Document row.
EmptyStore == [latestSeq |-> None, snapshots |-> {}, rows |-> {}]

\* toRow gives every field of an operation a column, and fromRow takes it back;
\* a delete's target is its opId column.  So a row is its seq and operation.
Row(seqs) == [seq : seqs, op : Ops]
StoreType(seqs) ==
    [latestSeq : seqs \cup {None}, snapshots : SUBSET Batch(seqs),
     rows : SUBSET Row(seqs)]

\* Mutant: one operation that is there already suppresses its whole batch.
appendFreshBatch(store, seq, ops) ==
    LET taken == KeysOf({row.op : row \in store.rows}) IN
    [store EXCEPT
        !.latestSeq = IF @ = None \/ @ < seq THEN seq ELSE @,
        !.rows = IF KeysOf(ops) \cap taken # {} THEN @
                 ELSE @ \cup {[seq |-> seq, op |-> op] : op \in ops}]

\* appendOps: GREATEST on the Document row, and the operations whose key is not
\* in the table yet (skipDuplicates on the unique docId, opId).
appendOps(store, seq, ops) ==
    LET taken == KeysOf({row.op : row \in store.rows}) IN
    [store EXCEPT
        !.latestSeq = IF @ = None \/ @ < seq THEN seq ELSE @,
        !.rows = @ \cup {[seq |-> seq, op |-> op] :
                           op \in {o \in ops : KeyOf[o] \notin taken}}]

\* Mutant: the deletion reaches one seq too far.
writeSnapshotWide(store, atSeq, state) ==
    [store EXCEPT
        !.snapshots = @ \cup {[seq |-> atSeq, ops |-> state]},
        !.rows = {row \in @ : row.seq > atSeq + 1}]

\* writeSnapshot: a new Snapshot row, and no rows up to its seq any more.
writeSnapshot(store, atSeq, state) ==
    [store EXCEPT
        !.snapshots = @ \cup {[seq |-> atSeq, ops |-> state]},
        !.rows = {row \in @ : row.seq > atSeq}]

\* load, second query: a snapshot with the greatest atSeq, if there is one.
latestSnapshots(store) ==
    IF store.snapshots = {} THEN {[seq |-> 0, ops |-> {}]}
    ELSE {s \in store.snapshots :
            \A t \in store.snapshots : t.seq <= s.seq}

\* load, third query, and groupBySeq: the batches after the snapshot.
batchesAfter(store, snapshotSeq) ==
    LET after == {row \in store.rows : row.seq > snapshotSeq} IN
    {[seq |-> n, ops |-> {row.op : row \in {w \in after : w.seq = n}}] :
        n \in {row.seq : row \in after}}

OpsOf(batches) == UNION {b.ops : b \in batches}

\* What a load that nothing interferes with finds, whichever of the latest
\* snapshots it starts from: nothing while there is no Document row, even if a
\* room wrote a snapshot before the first append.
DurableOps(store) ==
    IF store.latestSeq = None THEN {}
    ELSE {op \in Ops : \A s \in latestSnapshots(store) :
                         op \in s.ops \cup OpsOf(batchesAfter(store, s.seq))}
=============================================================================
