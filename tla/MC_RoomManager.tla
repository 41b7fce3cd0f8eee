-------------------------- MODULE MC_RoomManager --------------------------
(* RoomManager with the operations of small documents. *)
EXTENDS RoomManager

CONSTANTS p1, p2, c1, c2, insA, insB, delA

\* Two characters, the second typed after the first, by one or two authors.
ChainOps == {insA, insB}
ChainKeyOf == [op \in ChainOps |-> op]
ChainDependsOn == [op \in ChainOps |-> IF op = insB THEN insA ELSE None]
ChainByOne == [op \in ChainOps |-> c1]
ChainByTwo == [op \in ChainOps |-> IF op = insA THEN c1 ELSE c2]
ChainByOther == [op \in ChainOps |-> IF op = insA THEN c2 ELSE c1]

\* Two characters that do not depend on each other.
FreeDependsOn == [op \in ChainOps |-> None]

\* One character.
OneOp == {insA}
OneKeyOf == [op \in OneOp |-> op]
OneDependsOn == [op \in OneOp |-> None]
OneByOne == [op \in OneOp |-> c1]

\* How often a client connects, and how many of its connections break.
OnceEach == [c \in Clients |-> 1]
TwiceFirst == [c \in Clients |-> IF c = c1 THEN 2 ELSE 1]
FourTimesFirst == [c \in Clients |-> IF c = c1 THEN 4 ELSE 1]
NoneBreaks == [c \in Clients |-> 0]
EachBreaks == [c \in Clients |-> 1]
FirstBreaks == [c \in Clients |-> IF c = c1 THEN 1 ELSE 0]

\* A character and its deletion, which opIdKeyOf gives one key.
DeleteOps == {insA, delA}
DeleteKeyOf == [op \in DeleteOps |-> insA]
DeleteDependsOn == [op \in DeleteOps |-> IF op = delA THEN insA ELSE None]
DeleteByOne == [op \in DeleteOps |-> c1]
=============================================================================
