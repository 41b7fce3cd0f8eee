------------------------------- MODULE Editor -------------------------------
(***************************************************************************)
(* The binding between Quill and the document (Editor.tsx,                 *)
(* deltaToEdits.ts): Quill's own document, which the user changes first,   *)
(* the visible characters of the Rga, which follow by index, and the       *)
(* cursors of the other users.                                             *)
(*                                                                         *)
(* Quill counts UTF-16 units, the Rga counts nodes: a character outside    *)
(* the basic plane is two units and one node.  Quill's document is the     *)
(* sequence of its units without the newline it always ends with.  A mark  *)
(* that is not boolean, such as a colour, stands for all those the CRDT    *)
(* cannot represent.                                                       *)
(***************************************************************************)
EXTENDS Integers, SequencesExt

CONSTANTS
    None, Nowhere,
    Chars, Astral,  \* characters of one unit and of two
    Me, Others,     \* replica ids
    DeltaOps,       \* the pieces that the deltas of the user are made of
    MaxPosition,    \* bound: how far a selection elsewhere may reach
    Sessions        \* bounds: the document at first and how often each may
                    \* happen in one behaviour

BooleanMarks == {"bold"}
Marks == BooleanMarks \cup {"colour"}

DeltaOp == [kind : {"retain", "insert", "embed", "delete"}, n : Nat,
            text : Seq(Chars \cup Astral), on : SUBSET Marks, off : SUBSET Marks]

Node == [value : Chars \cup Astral, attrs : SUBSET BooleanMarks]
\* part tells the two units of an astral character apart.
Unit == [value : Chars \cup Astral \cup {"embed"}, part : {1, 2},
         attrs : SUBSET Marks]

Session == [doc : Seq(Node), edits : Nat, maxOps : Nat, remotes : Nat,
            presences : Nat, mounts : Nat]

ASSUME EditorAssumption ==
    /\ Chars \cap Astral = {}
    /\ Me \notin Others
    /\ DeltaOps \subseteq DeltaOp
    /\ MaxPosition \in Nat
    /\ \A s \in Sessions : s \in Session

VARIABLES
    rga,        \* the visible nodes
    quill,      \* the units Quill shows
    event,      \* the delta whose text-change event is being handled, or None
    presence,   \* presence[r]: the selection of r, Nowhere if it has none;
                \* None if r is not in the client's map
    cursors,    \* cursors[r]: where r's cursor is drawn, or None
    abandoned,  \* a text-change handler has thrown (history)
    left        \* what is left of the session

vars == <<rga, quill, event, presence, cursors, abandoned, left>>

Replicas == Others \cup {Me}
Selection == [anchor : Nat, head : Nat]

Spend(what) ==
    /\ left[what] > 0
    /\ left' = [left EXCEPT ![what] = @ - 1]

lesser(m, n) == IF m < n THEN m ELSE n
greater(m, n) == IF m < n THEN n ELSE m

-----------------------------------------------------------------------------
(* Quill *)

unitsOf(value, attrs) ==
    [k \in 1..(IF value \in Astral THEN 2 ELSE 1) |->
       [value |-> value, part |-> k, attrs |-> attrs]]

unitsOfText(text, attrs) ==
    FoldLeft(LAMBDA units, char : units \o unitsOf(char, attrs), <<>>, text)

\* What Quill does with one piece of a delta: done is what it has passed.
appliedOp(at, op) ==
    LET kept == SubSeq(at.todo, 1, op.n)
        rest == SubSeq(at.todo, op.n + 1, Len(at.todo))
    IN  CASE op.kind = "retain" ->
               [done |-> at.done \o [k \in DOMAIN kept |->
                  [kept[k] EXCEPT !.attrs = (@ \ op.off) \cup op.on]],
                todo |-> rest]
          [] op.kind = "insert" ->
               [at EXCEPT !.done = @ \o unitsOfText(op.text, op.on)]
          [] op.kind = "embed" ->
               [at EXCEPT !.done = @ \o unitsOf("embed", {})]
          [] op.kind = "delete" -> [at EXCEPT !.todo = rest]

appliedDelta(units, delta) ==
    LET end == FoldLeft(appliedOp, [done |-> <<>>, todo |-> units], delta)
    IN  end.done \o end.todo

\* No unit of an astral character without the other: what a user selects and
\* edits is whole characters.
Whole(units) ==
    \A k \in DOMAIN units : units[k].value \in Astral =>
        LET twin == IF units[k].part = 1 THEN k + 1 ELSE k - 1 IN
        /\ twin \in DOMAIN units
        /\ units[twin] = [units[k] EXCEPT !.part = 3 - @]

\* How many units of the document a delta needs.
Needed(delta) ==
    FoldLeft(LAMBDA n, op : IF op.kind \in {"retain", "delete"} THEN n + op.n
                            ELSE n, 0, delta)

\* A delta as quill-delta normalises it: inserts precede deletes, and no plain
\* retain comes last.
IsPlainRetain(op) == op.kind = "retain" /\ op.on \cup op.off = {}
Normal(delta) ==
    /\ ~IsPlainRetain(delta[Len(delta)])
    /\ \A k \in 2..Len(delta) :
         ~(delta[k - 1].kind = "delete" /\ delta[k].kind \in {"insert", "embed"})

-----------------------------------------------------------------------------
(* deltaToEdits.ts *)

toFormatMark(on) == on \cap BooleanMarks

\* The marks to set and to clear.  Any mark may be cleared.
toFormatPatch(op) == [on |-> op.on \cap BooleanMarks, off |-> op.off]
NoPatch == [on |-> {}, off |-> {}]

\* Mutant: the cursor moves on with each delete.
deletesAdvancing(at, n) ==
    [edits |-> at.edits \o [k \in 1..n |-> [kind |-> "delete",
                                          index |-> at.cursor + k - 1]],
     cursor |-> at.cursor + n]

\* Each delete collapses the position, so that the cursor stays.
deletes(at, n) ==
    [at EXCEPT !.edits = @ \o [k \in 1..n |-> [kind |-> "delete",
                                              index |-> at.cursor]]]

\* One round of the loop: the edits so far and the cursor.
editsOf(at, op) ==
    CASE op.kind = "retain" ->
           [edits |-> IF toFormatPatch(op) = NoPatch THEN at.edits
                      ELSE Append(at.edits,
                             [kind |-> "format", index |-> at.cursor,
                              length |-> op.n, attrs |-> toFormatPatch(op)]),
            cursor |-> at.cursor + op.n]
      [] op.kind = "insert" ->
           [edits |-> at.edits \o [k \in DOMAIN op.text |->
              [kind |-> "insert", index |-> at.cursor + k - 1,
               value |-> op.text[k], attrs |-> toFormatMark(op.on)]],
            cursor |-> at.cursor + Len(op.text)]
      [] op.kind = "embed" -> [at EXCEPT !.cursor = @ + 1]
      [] op.kind = "delete" -> deletes(at, op.n)

deltaToEdits(delta) ==
    FoldLeft(editsOf, [edits |-> <<>>, cursor |-> 0], delta).edits

-----------------------------------------------------------------------------
(* The Rga by index, and applyLocalEdits *)

\* findNodeAtPosition finds none past the end: the new node then becomes the
\* first of the document.
localInsert(doc, index, value, attrs) ==
    InsertAt(doc, IF index <= Len(doc) THEN index + 1 ELSE 1,
             [value |-> value, attrs |-> attrs])

localDelete(doc, index) == RemoveAt(doc, index + 1)

\* Whatever of the range lies past the end is left out.
localFormat(doc, index, length, patch) ==
    [k \in DOMAIN doc |->
       IF k \in (index + 1)..(index + length)
       THEN [doc[k] EXCEPT !.attrs = (@ \ patch.off) \cup patch.on]
       ELSE doc[k]]

\* One edit.  localDelete throws where there is no node; the edits before it
\* stay in the Rga, the ones after it are not made.
edited(at, edit) ==
    CASE at.thrown -> at
      [] ~at.thrown /\ edit.kind = "insert" ->
           [at EXCEPT !.doc = localInsert(@, edit.index, edit.value, edit.attrs)]
      [] ~at.thrown /\ edit.kind = "delete" ->
           IF edit.index < Len(at.doc)
           THEN [at EXCEPT !.doc = localDelete(@, edit.index)]
           ELSE [at EXCEPT !.thrown = TRUE]
      [] ~at.thrown /\ edit.kind = "format" ->
           [at EXCEPT !.doc = localFormat(@, edit.index, edit.length, edit.attrs)]

editedAll(doc, edits) ==
    FoldLeft(edited, [doc |-> doc, thrown |-> FALSE], edits)

\* getContentsForEditor
contents(doc) ==
    FoldLeft(LAMBDA units, node : units \o unitsOf(node.value, node.attrs),
             <<>>, doc)

-----------------------------------------------------------------------------
(* The cursors of the others *)

\* The selection that the other editor's handleSelectionChange sends.
handleSelectionChange(range) ==
    IF range = None THEN Nowhere
    ELSE [anchor |-> range.index, head |-> range.index + range.length]

toQuillRange(s) ==
    [index |-> lesser(s.anchor, s.head),
     length |-> greater(s.anchor, s.head) - lesser(s.anchor, s.head)]

\* Mutants: the length alone is clamped; the index alone is.
clampedLength(range, maxIndex) ==
    [index |-> range.index, length |-> lesser(range.length, maxIndex - range.index)]
clampedIndex(range, maxIndex) ==
    [index |-> lesser(range.index, maxIndex), length |-> range.length]

clamped(range, maxIndex) ==
    LET index == lesser(range.index, maxIndex) IN
    [index |-> index, length |-> lesser(range.length, maxIndex - index)]

\* Mutant: a cursor goes only with the entry of its owner.
syncCursorsOfAbsent(drawn, entries, units) ==
    [r \in Replicas |->
       CASE entries[r] = None -> None
         [] entries[r] = Nowhere -> drawn[r]
         [] r = Me -> drawn[r]
         [] OTHER -> clamped(toQuillRange(entries[r]), Len(units))]

\* syncCursors: a cursor that is drawn goes when its owner does or has no
\* selection any more; the others are moved to where their owners are.
syncCursors(drawn, entries, units) ==
    [r \in Replicas |->
       CASE entries[r] = None -> None
         [] entries[r] # None /\ r = Me -> drawn[r]
         [] entries[r] = Nowhere /\ r # Me -> None
         [] OTHER -> clamped(toQuillRange(entries[r]), Len(units))]

\* The listener of subscribe, and a new mount: Quill is brought to the contents
\* of doc, by the difference or as a whole, and the cursors after it.
Show(doc, drawn, entries) ==
    /\ quill' = contents(doc)
    /\ cursors' = syncCursors(drawn, entries, contents(doc))

NoCursors == [r \in Replicas |-> None]

-----------------------------------------------------------------------------
Init ==
    /\ \E s \in Sessions : rga = s.doc /\ left = [s EXCEPT !.doc = <<>>]
    /\ quill = contents(rga)
    /\ event = None
    /\ presence = [r \in Replicas |-> None]
    /\ cursors = NoCursors
    /\ abandoned = FALSE

\* The user edits, at any place: Quill applies the delta and fires text-change.
UserEdit ==
    /\ event = None
    /\ Spend("edits")
    /\ \E i \in 0..Len(quill), m \in 1..left.maxOps :
         \E core \in [1..m -> DeltaOps] :
           LET skip == [kind |-> "retain", n |-> i, text |-> <<>>, on |-> {},
                        off |-> {}]
               delta == IF i = 0 THEN core ELSE <<skip>> \o core
           IN  /\ Normal(delta)
               /\ Needed(delta) <= Len(quill)
               /\ Whole(appliedDelta(quill, delta))
               /\ quill' = appliedDelta(quill, delta)
               /\ event' = delta
    /\ UNCHANGED <<rga, presence, cursors, abandoned>>

\* handleTextChange and applyLocalEdits: without edits nobody is notified, and
\* neither if an edit throws.
HandleTextChange ==
    LET edits == deltaToEdits(event)
        result == editedAll(rga, edits)
    IN  /\ event # None
        /\ rga' = result.doc
        /\ IF edits = <<>> \/ result.thrown THEN UNCHANGED <<quill, cursors>>
           ELSE Show(result.doc, cursors, presence)
        /\ abandoned' = (abandoned \/ result.thrown)
        /\ event' = None
        /\ UNCHANGED <<presence, left>>

\* A message with an operation of someone else, and the notification after it.
RemoteEdit ==
    /\ event = None
    /\ Spend("remotes")
    /\ \E i \in 0..Len(rga) :
         \/ \E value \in Chars \cup Astral :
              rga' = localInsert(rga, i, value, {})
         \/ i < Len(rga) /\ rga' = localDelete(rga, i)
         \/ i < Len(rga) /\ rga' = localFormat(rga, i, 1,
                                     [on |-> BooleanMarks, off |-> {}])
    /\ Show(rga', cursors, presence)
    /\ UNCHANGED <<event, presence, abandoned>>

\* presence-update, which may come before the characters it points at, and
\* presence-leave.  The server sends a client its own presence too, when an old
\* connection of his was to another process.
PresenceMessage ==
    /\ event = None
    /\ Spend("presences")
    /\ \E r \in Replicas :
         \/ \E index \in 0..MaxPosition :
              \E length \in 0..(MaxPosition - index) :
                presence' = [presence EXCEPT ![r] = handleSelectionChange(
                               [index |-> index, length |-> length])]
         \/ presence' = [presence EXCEPT ![r] = handleSelectionChange(None)]
         \/ presence[r] # None /\ presence' = [presence EXCEPT ![r] = None]
    /\ Show(rga, cursors, presence')
    /\ UNCHANGED <<rga, event, abandoned>>

\* The effect runs again: a new Quill with the contents of the document.
Mount ==
    /\ event = None
    /\ Spend("mounts")
    /\ Show(rga, NoCursors, presence)
    /\ UNCHANGED <<rga, event, presence, abandoned>>

Next ==
    \/ UserEdit
    \/ HandleTextChange
    \/ RemoteEdit
    \/ PresenceMessage
    \/ Mount

Spec == Init /\ [][Next]_vars

-----------------------------------------------------------------------------
(* Properties *)

TypeOK ==
    /\ \A k \in DOMAIN rga : rga[k] \in Node
    /\ \A k \in DOMAIN quill : quill[k] \in Unit
    /\ event # None => \A k \in DOMAIN event : event[k] \in DeltaOp
    /\ presence \in [Replicas -> Selection \cup {Nowhere, None}]
    /\ cursors \in [Replicas -> [index : Nat, length : Nat] \cup {None}]
    /\ abandoned \in BOOLEAN

\* Text that Quill and the Rga count alike, in a document that both showed
\* alike: no character of two units, nothing that is not text, no mark that is
\* not boolean.
PlainDelta(delta) ==
    \A k \in DOMAIN delta :
        /\ delta[k].kind # "embed"
        /\ \A j \in DOMAIN delta[k].text : delta[k].text[j] \in Chars
        /\ delta[k].on \cup delta[k].off \subseteq BooleanMarks
PlainEdit ==
    /\ event # None
    /\ PlainDelta(event)
    /\ \A k \in DOMAIN rga : rga[k].value \in Chars
    /\ Needed(event) <= Len(contents(rga))
    /\ quill = appliedDelta(contents(rga), event)

\* However many places a delta touches, its edits by index make of the Rga what
\* Quill has made of its own document: nothing is written back over what the
\* user did, no edit throws, and the others get all of it.
PlainEditsLand ==
    [][PlainEdit /\ event' = None =>
         quill' = quill /\ abandoned' = abandoned]_vars

\* The same of every edit, as the comment on Editor says.
NothingWrittenBack ==
    [][event # None /\ event' = None => quill' = quill]_vars

\* No cursor is drawn outside the document, whatever the order in which edits
\* and presence arrive: quill-cursors may crash on one.
CursorsInside ==
    event = None /\ ~abandoned =>
        \A r \in Replicas : cursors[r] # None =>
            cursors[r].index + cursors[r].length <= Len(quill)

\* A cursor is drawn for each of the others that is present with a selection,
\* and for nobody else.
CursorsOfOthers ==
    \A r \in Replicas :
        cursors[r] # None <=> r # Me /\ presence[r] \notin {None, Nowhere}
=============================================================================
