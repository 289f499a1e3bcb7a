---------------------------- MODULE UartTransmit ----------------------------
(***************************************************************************)
(* The transmit path of uartctrl: IRP_MJ_WRITE and IOCTL_UART_WRITE put    *)
(* bytes into the TX ring under TxLock; the DPC drains the ring under      *)
(* TxLock, IOCTL_UART_WRITE drains it without.  A drain is a RingGet, which*)
(* reads the tail twice, and a write to the UART, and goes on while the    *)
(* UART says it is empty.  Bytes are numbered in the order they were put.  *)
(***************************************************************************)
EXTENDS Naturals, Sequences

CONSTANTS
    UtWriter,     \* threads that write
    UtCpu,        \* processors that run PollDpc
    UtSize,       \* slots of the ring
    UtMaxBytes    \* bound: bytes put, and sent

ASSUME UtAssumption ==
    /\ UtSize \in Nat \ {0, 1} /\ UtMaxBytes \in Nat
    /\ UtWriter \cap UtCpu = {}

UtDrainer == UtWriter \cup UtCpu

VARIABLES
    utBuf, utHead, utTail,  \* the TX ring
    utLock,                 \* TxLock: "free", "held" by a DPC
    utAt, utByte,           \* per drainer, its next step and the byte it has
    utThre, utIer,          \* the UART is empty; its THRE interrupt is enabled
    utInt, utDpc,           \* the interrupt is raised; PollDpc is queued
    utPut, utSent,          \* bytes put; the bytes that went to the UART
    utRaced                 \* history: a drain without the lock met another

utVars == <<utBuf, utHead, utTail, utLock, utAt, utByte, utThre, utIer, utInt, utDpc,
            utPut, utSent, utRaced>>

utRing == <<utBuf, utHead, utTail>>
utLine == <<utThre, utIer, utInt, utDpc>>

UtInit ==
    /\ utBuf = [i \in 0 .. UtSize - 1 |-> 0] /\ utHead = 0 /\ utTail = 0
    /\ utLock = "free"
    /\ utAt = [d \in UtDrainer |-> "idle"] /\ utByte = [d \in UtDrainer |-> 0]
    /\ utThre = TRUE /\ utIer = TRUE /\ utInt = FALSE /\ utDpc = FALSE
    /\ utPut = 0 /\ utSent = <<>> /\ utRaced = FALSE

UtGoto(d, at) == utAt' = [utAt EXCEPT ![d] = at]

UtNext(i) == (i + 1) % UtSize
UtFree == (utTail + UtSize - 1 - utHead) % UtSize
UtFits(n) == IF n < UtFree THEN n ELSE UtFree

(* RingPut until the ring is full; the rest of the write is dropped.       *)
UtRingPut(n) ==
    /\ utPut + n <= UtMaxBytes
    /\ utBuf' = [i \in DOMAIN utBuf |->
          LET k == (i + UtSize - utHead) % UtSize
          IN IF k < UtFits(n) THEN utPut + k + 1 ELSE utBuf[i]]
    /\ utHead' = (utHead + UtFits(n)) % UtSize
    /\ utPut' = utPut + UtFits(n)

(* IRP_MJ_WRITE; enabling an enabled interrupt may raise it or not.        *)
UtDispatchWrite(w, n) ==
    /\ utAt[w] = "idle" /\ utLock = "free"
    /\ UtRingPut(n)
    /\ IF UtFits(n) > 0
       THEN /\ utIer' = TRUE
            /\ utInt' \in IF ~utThre THEN {utInt} ELSE IF utIer THEN {utInt, TRUE} ELSE {TRUE}
       ELSE UNCHANGED <<utIer, utInt>>
    /\ UNCHANGED <<utTail, utLock, utAt, utByte, utThre, utDpc, utSent, utRaced>>

UtIoctlWrite(w, n) ==
    /\ utAt[w] = "idle" /\ utLock = "free"
    /\ UtRingPut(n)
    /\ UtGoto(w, "look")
    /\ UNCHANGED <<utTail, utLock, utByte, utSent, utRaced, utLine>>

(* IOCTL_UART_OPEN and CLOSE disable the interrupts.                       *)
UtDisableInterrupts ==
    /\ utIer' = FALSE
    /\ UNCHANGED <<utRing, utLock, utAt, utByte, utThre, utInt, utDpc, utPut, utSent, utRaced>>

UtIsr ==
    /\ utInt /\ utInt' = FALSE /\ utDpc' = TRUE
    /\ UNCHANGED <<utRing, utLock, utAt, utByte, utThre, utIer, utPut, utSent, utRaced>>

UtDpcStarts(c) ==
    /\ utDpc /\ utAt[c] = "idle"
    /\ utDpc' = FALSE /\ UtGoto(c, "look")
    /\ UNCHANGED <<utRing, utLock, utByte, utThre, utIer, utInt, utPut, utSent, utRaced>>

UtReadsThre(d) ==
    /\ utAt[d] = "look"
    /\ UtGoto(d, IF ~utThre THEN "idle" ELSE IF d \in UtCpu THEN "lock" ELSE "get")
    /\ UNCHANGED <<utRing, utLock, utByte, utLine, utPut, utSent, utRaced>>

UtDraining(d) == utAt[d] \in {"get", "advance", "send", "again"}

(* Mutant of UtLocks: the DPC drains without TxLock.                       *)
UtLocksNot(c) ==
    /\ utAt[c] = "lock" /\ UtGoto(c, "get")
    /\ UNCHANGED <<utRing, utLock, utByte, utLine, utPut, utSent, utRaced>>

UtLocks(c) ==
    /\ utAt[c] = "lock" /\ utLock = "free"
    /\ utLock' = "held" /\ UtGoto(c, "get")
    /\ UNCHANGED <<utRing, utByte, utLine, utPut, utSent, utRaced>>

UtUnlock(d) == utLock' = IF d \in UtCpu THEN "free" ELSE utLock

UtRingGet(d) ==
    /\ utAt[d] = "get"
    /\ utRaced' = (utRaced \/ \E e \in UtDrainer \ {d} :
                                   UtDraining(e) /\ {d, e} \cap UtWriter # {})
    /\ IF utTail = utHead THEN UtGoto(d, "idle") /\ UtUnlock(d) /\ UNCHANGED utByte
       ELSE /\ utByte' = [utByte EXCEPT ![d] = utBuf[utTail]]
            /\ UtGoto(d, "advance") /\ UNCHANGED utLock
    /\ UNCHANGED <<utRing, utLine, utPut, utSent>>

UtAdvances(d) ==
    /\ utAt[d] = "advance"
    /\ utTail' = UtNext(utTail) /\ UtGoto(d, "send")
    /\ UNCHANGED <<utBuf, utHead, utLock, utByte, utLine, utPut, utSent, utRaced>>

UtSends(d) ==
    /\ utAt[d] = "send" /\ Len(utSent) < UtMaxBytes
    /\ utSent' = Append(utSent, utByte[d])
    /\ utThre' = FALSE /\ UtGoto(d, "again")
    /\ UNCHANGED <<utRing, utLock, utByte, utIer, utInt, utDpc, utPut, utRaced>>

UtGoesOn(d) ==
    /\ utAt[d] = "again"
    /\ IF utThre THEN UtGoto(d, "get") /\ UNCHANGED utLock
       ELSE UtGoto(d, "idle") /\ UtUnlock(d)
    /\ UNCHANGED <<utRing, utByte, utLine, utPut, utSent, utRaced>>

UtShiftsOut ==
    /\ ~utThre /\ utThre' = TRUE /\ utInt' = (utInt \/ utIer)
    /\ UNCHANGED <<utRing, utLock, utAt, utByte, utIer, utDpc, utPut, utSent, utRaced>>

UtDrains(d) ==
    \/ UtReadsThre(d) \/ UtRingGet(d) \/ UtAdvances(d) \/ UtSends(d) \/ UtGoesOn(d)

UtStep ==
    \/ \E w \in UtWriter, n \in 1 .. 2 : UtDispatchWrite(w, n) \/ UtIoctlWrite(w, n)
    \/ \E d \in UtDrainer : UtDrains(d)
    \/ \E c \in UtCpu : UtDpcStarts(c) \/ UtLocks(c)
    \/ UtDisableInterrupts \/ UtIsr \/ UtShiftsOut

UtSpec == UtInit /\ [][UtStep]_utVars

-----------------------------------------------------------------------------
(* Each byte that was put goes to the UART once and in order, however the  *)
(* DPCs on two processors interleave, as long as no IOCTL_UART_WRITE has   *)
(* drained the ring, without its lock, beside another drain.               *)
UtInOrder == utRaced \/ \A i \in DOMAIN utSent : utSent[i] = i
=============================================================================
