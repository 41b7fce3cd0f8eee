------------------------------ MODULE Protocol ------------------------------
(***************************************************************************)
(* The messages of the wire and what either side accepts of them           *)
(* (packages/protocol).  A schema is the set of the values that pass it.   *)
(* There is one document, so that docId is left out; lists of operations   *)
(* are sets; the lengths of strings are not modelled, nor are the fields   *)
(* that no property tells apart (originId, attrs, names, colours).         *)
(***************************************************************************)
EXTENDS Naturals, FiniteSets

CONSTANTS
    ReplicaIds,         \* the non-empty replica ids
    Marks,              \* names of formatting marks
    MaxOpsPerMessage    \* 2000 in the code

opIdSchema == [counter : Nat, replicaId : ReplicaIds]

\* A value stands for a character.
insertOpSchema == [type : {"insert"}, id : opIdSchema, value : Nat]
deleteOpSchema == [type : {"delete"}, targetId : opIdSchema]
formatOpSchema == [type : {"format"}, id : opIdSchema, targetId : opIdSchema,
                   mark : Marks, value : {"true", "null"}]
opSchema == insertOpSchema \cup deleteOpSchema \cup formatOpSchema

(* client -> server *)

joinMessageSchema ==
    [type : {"join"}, replicaId : ReplicaIds, sinceSeq : Nat]

\* Mutant: the limit itself is refused.
opMessageBelow ==
    [type : {"op"},
     ops : {S \in SUBSET opSchema :
              Cardinality(S) \in 1..(MaxOpsPerMessage - 1)}]

opMessageSchema ==
    [type : {"op"},
     ops : {S \in SUBSET opSchema : Cardinality(S) \in 1..MaxOpsPerMessage}]

presenceMessageSchema == [type : {"presence"}]
leaveMessageSchema == [type : {"leave"}]

clientMessageSchema ==
    joinMessageSchema \cup opMessageSchema \cup presenceMessageSchema
        \cup leaveMessageSchema

(* server -> client *)

\* A node stands for the insert that made it.
rgaSnapshotNodeSchema == insertOpSchema
snapshotMessageSchema ==
    [type : {"snapshot"}, seq : Nat, state : SUBSET rgaSnapshotNodeSchema]
syncMessageSchema == [type : {"sync"}, seq : Nat, ops : SUBSET opSchema]
ackMessageSchema == [type : {"ack"}, seq : Nat, opIds : SUBSET opIdSchema]
broadcastOpMessageSchema ==
    [type : {"broadcast-op"}, seq : Nat, ops : SUBSET opSchema]
presenceUpdateMessageSchema ==
    [type : {"presence-update"}, replicaId : ReplicaIds]
presenceLeaveMessageSchema ==
    [type : {"presence-leave"}, replicaId : ReplicaIds]
errorMessageSchema == [type : {"error"}, code : STRING]

serverMessageSchema ==
    snapshotMessageSchema \cup syncMessageSchema \cup ackMessageSchema
        \cup broadcastOpMessageSchema \cup presenceUpdateMessageSchema
        \cup presenceLeaveMessageSchema \cup errorMessageSchema

parseClientMessage(message) == message \in clientMessageSchema
parseServerMessage(message) == message \in serverMessageSchema
=============================================================================
