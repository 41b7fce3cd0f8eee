--------------------------- MODULE DocumentClient ---------------------------
(***************************************************************************)
(* The state a browser keeps for one document (documentClient.ts), as a    *)
(* value that its message handlers map to a new one.                       *)
(***************************************************************************)
EXTENDS OpSets

\* ws is the socket of the current connection; None while there is none.
NewClient == [view |-> {}, outbox |-> {}, lastAckedSeq |-> 0, ws |-> None]

\* applyLocalEdits: the operation is in effect at once, and the outbox, a map
\* by opIdKeyOf, keeps it in place of an earlier one with its key.
edited(client, op) ==
    [client EXCEPT
        !.view = @ \cup {op},
        !.outbox = {o \in @ : KeyOf[o] # KeyOf[op]} \cup {op}]

\* handleServerMessage, one operator per type of message.
onSync(client, seq, ops) ==
    [client EXCEPT !.view = @ \cup ops, !.lastAckedSeq = seq]

onSnapshot(client, seq, state) ==
    [client EXCEPT !.view = state \cup client.outbox, !.lastAckedSeq = seq]

onBroadcast(client, ops) == [client EXCEPT !.view = @ \cup ops]

\* Mutant: an ack clears the whole outbox.
onAckAll(client, seq, keys) ==
    [client EXCEPT !.outbox = {}, !.lastAckedSeq = seq]
onAck(client, seq, keys) ==
    [client EXCEPT !.outbox = {o \in @ : KeyOf[o] \notin keys},
                   !.lastAckedSeq = seq]

\* Mutant: nothing is resent.
flushNothing(client) == <<>>

\* flushOutbox: the messages it sends, none if there is nothing to resend.
flushOutbox(client) ==
    IF client.outbox = {} THEN <<>>
    ELSE <<[type |-> "op", ops |-> client.outbox]>>
=============================================================================
