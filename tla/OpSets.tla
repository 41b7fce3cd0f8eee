------------------------------- MODULE OpSets -------------------------------
(***************************************************************************)
(* The operations of one document as the server and the client handle      *)
(* them: opaque values with an identity (opIdKeyOf) and a dependency.      *)
(*                                                                         *)
(* Here an Rga is the set of operations applied to it.  Rga.tla is what    *)
(* justifies this: its Convergence says that the content is a function of  *)
(* that set.  What the set does not show, the operations that are buffered *)
(* because their dependency is missing, is computed by Integrated.         *)
(***************************************************************************)
EXTENDS Integers, FiniteSets

CONSTANTS
    Ops,        \* the operations that clients may produce
    None,       \* no operation, no room, no process
    KeyOf,      \* KeyOf[op]: its opIdKeyOf; a delete has its target's
    DependsOn   \* DependsOn[op]: the insert it refers to, or None

ASSUME OpSetsAssumption ==
    /\ None \notin Ops /\ None \notin Nat
    /\ DOMAIN KeyOf = Ops
    /\ DependsOn \in [Ops -> Ops \cup {None}]

\* The operations of S that are in the list: the others are in pending.
Integrated(S) ==
    UNION {T \in SUBSET S : \A op \in T : DependsOn[op] \in T \cup {None}}

KeysOf(S) == {KeyOf[op] : op \in S}
=============================================================================
