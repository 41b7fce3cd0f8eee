---------------------------- MODULE SyncService ----------------------------
(***************************************************************************)
(* What the sync server promises its clients, without rooms, sequence      *)
(* numbers, processes or messages: an edit is shown to its author at once, *)
(* is acknowledged only when it is saved, and once it is acknowledged it   *)
(* stays saved and no client that has seen it loses sight of it.           *)
(***************************************************************************)
CONSTANTS Ops, Clients, AuthorOf

VARIABLES
    produced,   \* the operations made so far
    durable,    \* those that are saved
    acked,      \* those their author holds an ack for
    shown       \* shown[c]: those c has in its document

vars == <<produced, durable, acked, shown>>

Init ==
    /\ produced = {} /\ durable = {} /\ acked = {}
    /\ shown = [c \in Clients |-> {}]

Produce(op) ==
    /\ op \notin produced
    /\ produced' = produced \cup {op}
    /\ shown' = [shown EXCEPT ![AuthorOf[op]] = @ \cup {op}]
    /\ UNCHANGED <<durable, acked>>

\* An operation that is not acknowledged may also be lost from the tables.
Save ==
    /\ UNCHANGED <<produced, acked, shown>>
    /\ acked \subseteq durable'
    /\ durable' \subseteq produced

Acknowledge ==
    /\ UNCHANGED <<produced, durable, shown>>
    /\ acked \subseteq acked'
    /\ acked' \subseteq durable

\* An operation that is not acknowledged may be lost from sight again.
Show ==
    /\ UNCHANGED <<produced, durable, acked>>
    /\ shown' \in [Clients -> SUBSET produced]
    /\ \A c \in Clients : shown[c] \cap acked \subseteq shown'[c]

Next ==
    \/ Show
    \/ Save
    \/ Acknowledge
    \/ \E op \in Ops : Produce(op)

Spec == Init /\ [][Next]_vars
=============================================================================
