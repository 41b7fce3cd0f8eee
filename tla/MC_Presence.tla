---------------------------- MODULE MC_Presence ----------------------------
(* Presence with two clients, one of which stays connected, and the budgets of
   the behaviours to be explored. *)
EXTENDS Presence

CONSTANTS p1, p2, c1, c2

\* A connection breaks, and the client makes a second one, to either process,
\* perhaps before the server has noticed.
Return == [conns |-> [c \in Clients |-> IF c = c1 THEN 2 ELSE 1],
           breaks |-> [c \in Clients |-> IF c = c1 THEN 1 ELSE 0],
           faults |-> 0]

\* One connection each; one may break, and one call or process fails.
Failure == [conns |-> [c \in Clients |-> 1],
            breaks |-> [c \in Clients |-> IF c = c1 THEN 1 ELSE 0],
            faults |-> 1]

Scenarios == {Return, Failure}
=============================================================================
