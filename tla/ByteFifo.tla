------------------------------- MODULE ByteFifo -------------------------------
(***************************************************************************)
(* A queue of at most Capacity bytes.  A call answers with whether it did  *)
(* what it was asked to and, if so, with the byte it moved.                *)
(***************************************************************************)
EXTENDS Naturals, Sequences

CONSTANTS Byte, Capacity

VARIABLES bytes, answer

Refused == [ok |-> FALSE]
Moved(v) == [ok |-> TRUE, byte |-> v]

Init == bytes = <<>> /\ answer = Refused

Put(v) ==
    IF Len(bytes) < Capacity
    THEN bytes' = Append(bytes, v) /\ answer' = Moved(v)
    ELSE bytes' = bytes /\ answer' = Refused

Get ==
    IF bytes # <<>>
    THEN bytes' = Tail(bytes) /\ answer' = Moved(Head(bytes))
    ELSE bytes' = bytes /\ answer' = Refused

Clear == bytes' = <<>> /\ answer' = answer

Next == (\E v \in Byte : Put(v)) \/ Get \/ Clear

Spec == Init /\ [][Next]_<<bytes, answer>>
=============================================================================
