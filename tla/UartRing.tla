------------------------------- MODULE UartRing -------------------------------
(***************************************************************************)
(* The ring buffer of uartctrl: RingPut, RingGet and RingAvail, called with*)
(* the lock of the ring held, and the reset by UARTCTRL_ExtAllocateBuffers.*)
(***************************************************************************)
EXTENDS Naturals, Sequences

CONSTANTS Byte, Size

ASSUME SizeAssumption == Size \in Nat \ {0}

VARIABLES
    buf, head, tail,  \* RxBuf, RxHead and RxTail, or TxBuf, TxHead and TxTail
    answer            \* result of the last RingPut or RingGet

ringVars == <<buf, head, tail, answer>>

Index == 0 .. Size - 1

(* What RingPut and RingGet return, and the byte they moved.               *)
Refused == [ok |-> FALSE]
Moved(v) == [ok |-> TRUE, byte |-> v]

RingTypeOK ==
    /\ buf \in [Index -> Byte]
    /\ head \in Index /\ tail \in Index
    /\ answer \in {Refused} \cup {Moved(v) : v \in Byte}

(* The pool memory holds anything.                                         *)
RingInit ==
    /\ buf \in [Index -> Byte]
    /\ head = 0 /\ tail = 0
    /\ answer = Refused

NextIndex(i) == (i + 1) % Size

(* Mutant of RingPut: a full ring takes one more byte.                     *)
RingPutOverfull(v) ==
    /\ buf' = [buf EXCEPT ![head] = v]
    /\ head' = NextIndex(head)
    /\ answer' = Moved(v)
    /\ UNCHANGED tail

RingPut(v) ==
    \/ /\ NextIndex(head) # tail
       /\ buf' = [buf EXCEPT ![head] = v]
       /\ head' = NextIndex(head)
       /\ answer' = Moved(v)
       /\ UNCHANGED tail
    \/ /\ NextIndex(head) = tail
       /\ answer' = Refused
       /\ UNCHANGED <<buf, head, tail>>

RingGet ==
    \/ /\ tail # head
       /\ answer' = Moved(buf[tail])
       /\ tail' = NextIndex(tail)
       /\ UNCHANGED <<buf, head>>
    \/ /\ tail = head
       /\ answer' = Refused
       /\ UNCHANGED <<buf, head, tail>>

(* UARTCTRL_ExtAllocateBuffers on the next start.                          *)
Reset ==
    /\ buf' \in [Index -> Byte]
    /\ head' = 0 /\ tail' = 0
    /\ UNCHANGED answer

RingAvail == IF head >= tail THEN head - tail ELSE Size - (tail - head)

RingNext == (\E v \in Byte : RingPut(v)) \/ RingGet \/ Reset

RingSpec == RingInit /\ [][RingNext]_ringVars
-----------------------------------------------------------------------------
Slot(k) == IF tail + k < Size THEN tail + k ELSE tail + k - Size

(* The bytes put and not yet got, oldest first, as many as RingAvail says. *)
Contents == [k \in 1 .. RingAvail |-> buf[Slot(k - 1)]]

Queue == INSTANCE ByteFifo WITH Capacity <- Size - 1, bytes <- Contents

(* The ring is a FIFO of Size - 1 bytes: RingPut refuses a byte only when  *)
(* that many wait, RingGet returns the oldest, wherever the indices wrap,  *)
(* and RingAvail counts exactly the bytes that wait.                       *)
ImplementsFifo == Queue!Spec
=============================================================================
