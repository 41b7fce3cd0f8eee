------------------------------ MODULE MC_Editor ------------------------------
(* Editor with small documents and the deltas a user can make in them. *)
EXTENDS Editor

Op(kind, n, text, on, off) ==
    [kind |-> kind, n |-> n, text |-> text, on |-> on, off |-> off]

Bold == {"bold"}
PlainOps == {Op("insert", 0, <<"a">>, {}, {}), Op("insert", 0, <<"a", "b">>, Bold, {}),
             Op("delete", 1, <<>>, {}, {}), Op("delete", 2, <<>>, {}, {}),
             Op("retain", 1, <<>>, {}, {}), Op("retain", 1, <<>>, Bold, {}),
             Op("retain", 2, <<>>, {}, Bold)}
OddOps == {Op("insert", 0, <<"S">>, {}, {}), Op("embed", 0, <<>>, {}, {}),
           Op("insert", 0, <<"a">>, {"colour"}, {}),
           Op("retain", 1, <<>>, {"colour"}, {})}
\* Text and boolean marks alone.
TextOps == PlainOps \cup {Op("insert", 0, <<"S">>, {}, {})}

AllOps == PlainOps \cup OddOps

SmallNodes == [value : {"a", "b", "S"}, attrs : {{}}] \cup [value : {"a"}, attrs : {Bold}]
Docs(n) == UNION {[1..k -> SmallNodes] : k \in 0..n}

\* One delta of up to three pieces, at any place of any document.
OneDelta == [doc : Docs(3), edits : {1}, maxOps : {3}, remotes : {0},
             presences : {0}, mounts : {0}]

\* One edit after the other, and one from elsewhere.
TwoDeltas == [doc : Docs(2), edits : {2}, maxOps : {1}, remotes : {1},
              presences : {0}, mounts : {1}]

\* Presence that arrives before, between and after edits.
Presences == [doc : Docs(1), edits : {1}, maxOps : {1}, remotes : {1},
              presences : {2}, mounts : {1}]

AllSessions == OneDelta \cup TwoDeltas \cup Presences
=============================================================================
