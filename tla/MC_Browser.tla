----------------------------- MODULE MC_Browser -----------------------------
(* Browser with the budgets of the behaviours to be explored. *)
EXTENDS Browser

Nothing == [mounts |-> 1, unmounts |-> 0, edits |-> 0, remoteEdits |-> 0,
            breaks |-> 0, toggles |-> 0]

\* A page that is closed at any point and opened again, while two characters
\* are typed in it and one elsewhere.
Reload == [Nothing EXCEPT !.mounts = 2, !.edits = 2, !.remoteEdits = 1]

\* A component that is mounted a second time in the same page.
Remount == [Nothing EXCEPT !.mounts = 2, !.unmounts = 2, !.edits = 1]

\* A connection that breaks while two characters are on their way.
Drop == [Nothing EXCEPT !.edits = 2, !.breaks = 1]

\* A user who goes offline, and a connection that breaks.
Toggle == [Nothing EXCEPT !.edits = 1, !.breaks = 1, !.toggles = 1]

\* Three characters typed before the connection is open: one too many for one
\* message.
Overflow == [Nothing EXCEPT !.edits = 3]

\* Two characters whose outbox records are lost with the first page, a third in
\* the second page, and a third page.
Shadow == {[Nothing EXCEPT !.mounts = 3, !.edits = 3, !.remoteEdits = 1]}

Scenarios == {Reload, Remount, Drop, Toggle, Overflow}
=============================================================================
