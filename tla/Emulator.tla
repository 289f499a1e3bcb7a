------------------------------ MODULE Emulator ------------------------------
(***************************************************************************)
(* i2cctrl_emulator: a root device that stands for a controller with one   *)
(* HID child.  Its IOCTLs push the bytes of a report into a FIFO and reset *)
(* it, its HAL operations take them out, and nothing serialises the two:   *)
(* dispatch routines run at once on several threads, and the FIFO has no   *)
(* lock.  Bytes are numbered in the order in which they enter the FIFO.    *)
(***************************************************************************)
EXTENDS Naturals, Sequences

CONSTANTS
    EmThread,     \* threads that send IOCTLs
    EmHal,        \* threads of the controller driver that call the HAL operations
    EmSize,       \* slots of the FIFO, 256
    EmBlock,      \* bytes of a primed descriptor
    EmMaxBytes    \* bound: bytes pushed and read

ASSUME EmAssumption ==
    /\ EmHal \cap EmThread = {} /\ EmSize \in Nat \ {0, 1} /\ EmBlock \in Nat /\ EmMaxBytes \in Nat

EmActor == EmThread \cup EmHal

VARIABLES
    emDevice,     \* none, added, halted; Enabled is read by nothing
    emChild,      \* none, made, reported, or orphan: no FDO points at it
    emData, emHead, emTail,  \* RxFifo
    emIntr,       \* RawIntr
    emOurs,       \* Target7bit is the address of the emulated device
    emReg,        \* LastReg: header, reportDesc, other
    emAt, emLeft, \* per actor, where it is in a FIFO operation; bytes it still has
    emNext,       \* per actor, the head it has computed
    emPut, emGot, \* history: bytes stored since the last reset; bytes read from the FIFO
    emRaced       \* history: two pushes, two pops, or a reset and something overlapped

emVars == <<emDevice, emChild, emData, emHead, emTail, emIntr, emOurs, emReg,
            emAt, emLeft, emNext, emPut, emGot, emRaced>>

emPnp == <<emDevice, emChild>>
emFifo == <<emData, emHead, emTail>>
emTarget == <<emOurs, emReg>>
emFlow == <<emAt, emLeft, emNext, emPut, emGot, emRaced>>

EmInit ==
    /\ emDevice = "none" /\ emChild = "none"
    /\ emData = [i \in 0 .. EmSize - 1 |-> 0] /\ emHead = 0 /\ emTail = 0
    /\ emIntr = FALSE /\ emOurs = FALSE /\ emReg = "other"
    /\ emAt = [a \in EmActor |-> "idle"] /\ emLeft = [a \in EmActor |-> 0]
    /\ emNext = [a \in EmActor |-> 0]
    /\ emPut = 0 /\ emGot = <<>> /\ emRaced = FALSE

EmAlive == emDevice = "added"
-----------------------------------------------------------------------------
(* AddDevice: a child that cannot be made does not fail it.                *)
EmAddDevice ==
    /\ emDevice = "none" /\ emDevice' = "added"
    /\ emChild' \in {"none", "made"}
    /\ UNCHANGED <<emFifo, emIntr, emTarget, emFlow>>

(* Bus relations; the child that was made is handed to the PnP manager.    *)
EmFdoRelations ==
    /\ emChild = "made" /\ emChild' = "reported" /\ UNCHANGED emDevice

(* REMOVE_DEVICE clears LowerDevice and deletes the device object, and     *)
(* then passes the request to LowerDevice: the system stops.  Nothing has  *)
(* deleted the child, whose own REMOVE_DEVICE does nothing.                *)
EmFdoRemove ==
    /\ emDevice' = "halted"
    /\ emChild' = IF emChild = "none" THEN "none" ELSE "orphan"

EmFdoPnp ==
    /\ EmAlive /\ (EmFdoRelations \/ EmFdoRemove)
    /\ UNCHANGED <<emFifo, emIntr, emTarget, emFlow>>
-----------------------------------------------------------------------------
EmPushing(a) == emAt[a] \in {"push", "advance"}
EmResetting(a) == emAt[a] \in {"reset", "resetTail"}

(* Two producers, two consumers, or a reset beside anything else.          *)
EmRace(a, to) ==
    emRaced' = (emRaced \/ \E b \in EmActor \ {a} :
                    \/ EmPushing(b) /\ to = "push"
                    \/ emAt[b] = "pop" /\ to = "pop"
                    \/ EmResetting(b)
                    \/ to = "reset" /\ emAt[b] # "idle")

EmGoto(a, to, left) ==
    /\ emAt' = [emAt EXCEPT ![a] = to] /\ emLeft' = [emLeft EXCEPT ![a] = left]

(* IOCTL_I2CCTRL_EMU_PUSH_REPORT and RESET of the FDO; the child refuses.  *)
EmPushReport(t, n) ==
    /\ EmAlive /\ emAt[t] = "idle"
    /\ EmGoto(t, "push", n) /\ EmRace(t, "push")
    /\ UNCHANGED <<emPnp, emFifo, emIntr, emTarget, emNext, emPut, emGot>>

EmReset(t) ==
    /\ EmAlive /\ emAt[t] = "idle"
    /\ EmGoto(t, "reset", 0) /\ EmRace(t, "reset")
    /\ UNCHANGED <<emPnp, emFifo, emIntr, emTarget, emNext, emPut, emGot>>

(* HidPrimeForRegister and HidPrimeFullDescriptor.                         *)
EmPrime(h, full) ==
    /\ EmAlive /\ emAt[h] = "idle"
    /\ emOurs /\ (full \/ emReg \in {"header", "reportDesc"})
    /\ EmGoto(h, "push", EmBlock) /\ EmRace(h, "push")
    /\ UNCHANGED <<emPnp, emFifo, emIntr, emTarget, emNext, emPut, emGot>>

EmFull == (emHead + 1) % EmSize = emTail

(* EmuFifoPush: a byte that does not fit is dropped, and with a block all  *)
(* that follow it; the caller is told of success either way.               *)
EmFifoPush(a) ==
    /\ emAt[a] = "push" /\ emLeft[a] > 0 /\ emPut < EmMaxBytes
    /\ IF EmFull
       THEN /\ EmGoto(a, "push", IF a \in EmHal THEN 0 ELSE emLeft[a] - 1)
            /\ UNCHANGED <<emData, emNext, emPut>>
       ELSE /\ emData' = [emData EXCEPT ![emHead] = emPut + 1] /\ emPut' = emPut + 1
            /\ emNext' = [emNext EXCEPT ![a] = (emHead + 1) % EmSize]
            /\ EmGoto(a, "advance", emLeft[a] - 1)
    /\ UNCHANGED <<emPnp, emHead, emTail, emIntr, emTarget, emGot, emRaced>>

(* Mutant of EmFifoAdvance: the head moves two slots.                      *)
EmFifoAdvanceTwice(a) ==
    /\ emAt[a] = "advance" /\ EmGoto(a, "push", emLeft[a])
    /\ emHead' = (emNext[a] + 1) % EmSize
    /\ UNCHANGED <<emPnp, emData, emTail, emIntr, emTarget, emNext, emPut, emGot, emRaced>>

EmFifoAdvance(a) ==
    /\ emAt[a] = "advance" /\ EmGoto(a, "push", emLeft[a])
    /\ emHead' = emNext[a] /\ emNext' = [emNext EXCEPT ![a] = 0]
    /\ UNCHANGED <<emPnp, emData, emTail, emIntr, emTarget, emPut, emGot, emRaced>>

EmPushed(a) ==
    /\ emAt[a] = "push" /\ emLeft[a] = 0
    /\ EmGoto(a, "idle", 0) /\ emIntr' = TRUE
    /\ UNCHANGED <<emPnp, emFifo, emTarget, emNext, emPut, emGot, emRaced>>

EmResetHead(t) ==
    /\ emAt[t] = "reset" /\ EmGoto(t, "resetTail", 0)
    /\ emHead' = 0
    /\ UNCHANGED <<emPnp, emData, emTail, emIntr, emTarget, emNext, emPut, emGot, emRaced>>

EmResetRest(t) ==
    /\ emAt[t] = "resetTail" /\ EmGoto(t, "idle", 0)
    /\ emTail' = 0 /\ emData' = [i \in DOMAIN emData |-> 0] /\ emIntr' = FALSE
    /\ emPut' = 0 /\ emGot' = <<>>
    /\ UNCHANGED <<emPnp, emHead, emTarget, emNext, emRaced>>
-----------------------------------------------------------------------------
(* The HAL operations of the emulated controller.                          *)
EmSetTarget(h, ours) ==
    /\ EmAlive /\ emAt[h] = "idle" /\ emOurs' = ours
    /\ UNCHANGED <<emPnp, emFifo, emIntr, emReg, emFlow>>

EmIssueWriteByte(h, reg) ==
    /\ EmAlive /\ emAt[h] = "idle" /\ emReg' = reg
    /\ UNCHANGED <<emPnp, emFifo, emIntr, emOurs, emFlow>>

EmInterrupts(h) ==      \* IssueReadToken raises RawIntr, AckInterrupts clears it
    /\ EmAlive /\ emAt[h] = "idle" /\ emIntr' \in BOOLEAN
    /\ UNCHANGED <<emPnp, emFifo, emTarget, emFlow>>

EmReadRxByte(h) ==      \* with nothing in the FIFO it reports a zero and success
    /\ EmAlive /\ emAt[h] = "idle" /\ emHead # emTail
    /\ EmGoto(h, "pop", 0) /\ EmRace(h, "pop")
    /\ emGot' = Append(emGot, emData[emTail])
    /\ UNCHANGED <<emPnp, emFifo, emIntr, emTarget, emNext, emPut>>

EmFifoPop(h) ==
    /\ emAt[h] = "pop" /\ EmGoto(h, "idle", 0)
    /\ emTail' = (emTail + 1) % EmSize
    /\ UNCHANGED <<emPnp, emData, emHead, emIntr, emTarget, emNext, emPut, emGot, emRaced>>

EmHalCalls(h) ==
    \/ \E ours \in BOOLEAN : EmSetTarget(h, ours) \/ EmPrime(h, ours)
    \/ \E reg \in {"header", "reportDesc", "other"} : EmIssueWriteByte(h, reg)
    \/ EmInterrupts(h) \/ (Len(emGot) < EmMaxBytes /\ EmReadRxByte(h)) \/ EmFifoPop(h)

EmStep ==
    \/ EmAddDevice \/ EmFdoPnp
    \/ \E t \in EmThread : (\E n \in 1 .. 2 : EmPushReport(t, n)) \/ EmReset(t)
    \/ \E a \in EmActor : \/ EmFifoPush(a) \/ EmFifoAdvance(a) \/ EmPushed(a)
                          \/ EmResetHead(a) \/ EmResetRest(a)
    \/ \E h \in EmHal : EmHalCalls(h)

EmSpec == EmInit /\ [][EmStep]_emVars

-----------------------------------------------------------------------------
(* The HAL reads the bytes that were pushed, each once and in their order, *)
(* though a push may run beside it and bytes that do not fit are dropped,  *)
(* as long as no two pushes, no two pops, and no reset and anything else   *)
(* overlapped.                                                             *)
EmInOrder == emRaced \/ \A i \in DOMAIN emGot : emGot[i] = i
=============================================================================
