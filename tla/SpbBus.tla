------------------------------- MODULE SpbBus -------------------------------
(***************************************************************************)
(* The synchronous calls of i2cctrl's ACPIEX and SPBCX facades.  A client  *)
(* is a thread with a file handle; its target is the handle's FsContext,   *)
(* which both facades use.  All clients share XferCtx, TransferEvent and   *)
(* the controller with each other and with the queued requests, and no     *)
(* lock is held.  Speeds and timings are left out as far as they only      *)
(* reach registers.  DispatchCreate and DispatchClose of either facade,    *)
(* StartTransfer and ExecuteTransfer are called by nobody the driver runs; *)
(* they are clients here.                                                  *)
(***************************************************************************)
CONSTANT
    SpClient      \* threads, each with a file handle

VARIABLES
    spHandle,     \* per client: closed, open, or with a bound target
    spAt,         \* per client, its next step
    spArg,        \* per client, the speed or the kind of the call it is in
    spTold,       \* per client at rest, what its last transfer returned
    spXfer,       \* XferCtx: status, irp (Irp is set), buf (Buffer is set)
    spEvent,      \* TransferEvent
    spOn,         \* the controller is enabled
    spMasked,     \* its interrupts are masked
    spStopping,   \* Stopping, or not Started
    spWoken       \* history: clients since whose claim the event was set

spVars == <<spHandle, spAt, spArg, spTold, spXfer, spEvent, spOn, spMasked,
            spStopping, spWoken>>

spClients == <<spHandle, spAt, spArg, spTold>>
spContext == <<spXfer, spEvent, spWoken>>
spBus == <<spOn, spMasked>>

SpSpeed == {"standard", "fast", "high", "over"}

SpZero == [status |-> "ok", irp |-> FALSE, buf |-> FALSE]

SpInit ==
    /\ spHandle = [p \in SpClient |-> "closed"]
    /\ spAt = [p \in SpClient |-> "idle"] /\ spArg = [p \in SpClient |-> "none"]
    /\ spTold = [p \in SpClient |-> "none"]
    /\ spXfer = SpZero /\ spEvent = FALSE /\ spWoken = {}
    /\ spOn = FALSE /\ spMasked = FALSE
    /\ spStopping = FALSE

SpAt(p, at) == spAt[p] = at
SpGoto(p, at) == spAt' = [spAt EXCEPT ![p] = at]
SpStarts(p, at, arg) ==
    /\ SpGoto(p, at) /\ spArg' = [spArg EXCEPT ![p] = arg]
    /\ spTold' = [spTold EXCEPT ![p] = "none"]
SpGoesOn(p, at) == SpGoto(p, at) /\ UNCHANGED <<spArg, spTold>>
SpReturn(p, told) ==
    /\ SpGoto(p, "idle") /\ spArg' = [spArg EXCEPT ![p] = "none"]
    /\ spTold' = [spTold EXCEPT ![p] = told]
SpSet(p) == SpReturn(p, "none")      \* the target is set, or was refused

(* DispatchIoctl serves a device that runs; the facade makes the target.   *)
SpCall(p) == SpAt(p, "idle") /\ spHandle[p] # "closed" /\ ~spStopping

SpCreate(p) ==
    /\ SpAt(p, "idle") /\ spHandle[p] = "closed"
    /\ spHandle' = [spHandle EXCEPT ![p] = "open"]
    /\ UNCHANGED <<spAt, spArg, spTold, spStopping, spContext, spBus>>

SpClose(p) ==
    /\ SpAt(p, "idle") /\ spHandle[p] # "closed"
    /\ spHandle' = [spHandle EXCEPT ![p] = "closed"]
    /\ UNCHANGED <<spAt, spArg, spTold, spStopping, spContext, spBus>>
-----------------------------------------------------------------------------
(* AcpiexSetTarget binds the target, then changes the speed of the bus; a  *)
(* speed it does not know goes to the SPBCX facade.                        *)
SpAcpiexSetTarget(p, speed) ==
    /\ SpCall(p)
    /\ spHandle' = [spHandle EXCEPT ![p] = "bound"]
    /\ IF speed = "over" THEN SpStarts(p, "spbcx", speed) /\ spOn' = spOn
       ELSE SpStarts(p, "speed", speed) /\ spOn' = FALSE
    /\ UNCHANGED <<spMasked, spStopping, spContext>>

(* SetBusSpeed: counts that were never computed leave the bus disabled.    *)
SpSetBusSpeed(p) ==
    /\ SpAt(p, "speed")
    /\ \/ SpSet(p) /\ (spOn' = TRUE \/ UNCHANGED spOn)
       \/ spArg[p] = "high" /\ SpGoesOn(p, "spbcx") /\ UNCHANGED spOn   \* no HsEnabled
    /\ UNCHANGED <<spHandle, spMasked, spStopping, spContext>>

SpSpbcxSetTarget(p) ==
    /\ SpAt(p, "spbcx") /\ SpSet(p)
    /\ IF spStopping THEN UNCHANGED <<spHandle, spOn>>
       ELSE /\ spHandle' = [spHandle EXCEPT ![p] = "bound"]
            /\ spOn' = TRUE \/ UNCHANGED spOn
    /\ UNCHANGED <<spMasked, spStopping, spContext>>

(* IoctlTransfer sends IOCTL_TRANSFER to its own device without a file     *)
(* object; the facade reads through it and AcpiexTransfer catches that.    *)
(* Only a request refused because the device stops comes back.             *)
SpTransfer(p) ==
    /\ SpCall(p)
    /\ IF spHandle[p] = "bound" THEN SpStarts(p, "forward", "desc")
       ELSE SpReturn(p, "error")
    /\ UNCHANGED <<spHandle, spStopping, spContext, spBus>>

SpForward(p) ==
    /\ SpAt(p, "forward") /\ SpReturn(p, "error")
    /\ UNCHANGED <<spHandle, spStopping, spContext, spBus>>
-----------------------------------------------------------------------------
(* IOCTL_SEQUENCE and IOCTL_PROBE zero XferCtx, and with it the status and *)
(* the IRP of whoever uses it; the other two take it as it is.             *)
SpBegin(p, kind, xfer) ==
    /\ SpCall(p)
    /\ IF spHandle[p] # "bound" THEN SpReturn(p, "error") /\ UNCHANGED spXfer
       ELSE SpStarts(p, "begun", kind) /\ spXfer' = xfer
    /\ UNCHANGED <<spHandle, spEvent, spWoken, spStopping, spBus>>

SpSequence(p) == SpBegin(p, "sequence", SpZero)
SpProbe(p) == SpBegin(p, "probe", SpZero)
SpStartTransfer(p) == SpBegin(p, "transfer", spXfer)
SpExecute(p) == SpBegin(p, "execute", spXfer)

SpRefuses(kind) == spStopping /\ kind = "sequence"

SpClaim(p) ==
    /\ SpAt(p, "begun")
    /\ IF SpRefuses(spArg[p]) \/ (spArg[p] = "transfer" /\ ~spXfer.buf)
       THEN SpReturn(p, "error") /\ UNCHANGED <<spXfer, spWoken>>
       ELSE /\ SpGoesOn(p, "claimed")
            /\ spXfer' = [spXfer EXCEPT !.status = "pending", !.buf = spArg[p] # "probe"]
            /\ spWoken' = spWoken \ {p}
    /\ UNCHANGED <<spHandle, spEvent, spStopping, spBus>>

(* Mutant of SpClearEvent: the event of an earlier transfer stays set.     *)
SpClearEventNot == spEvent' = spEvent

SpClearEvent == spEvent' = FALSE

SpFirstByteRefused(p) ==
    /\ spArg[p] # "probe" /\ SpReturn(p, "error")
    /\ spXfer' = IF spArg[p] = "sequence" THEN [spXfer EXCEPT !.status = "error"] ELSE spXfer

SpPrime(p) ==
    /\ SpAt(p, "claimed")
    /\ SpClearEvent /\ spOn' = TRUE
    /\ \/ SpGoesOn(p, "waiting") /\ UNCHANGED spXfer
       \/ SpFirstByteRefused(p)
    /\ UNCHANGED <<spHandle, spMasked, spStopping, spWoken>>

SpWokenStatus == IF spXfer.status = "pending" THEN "timeout" ELSE spXfer.status

SpWake(p) ==
    /\ SpAt(p, "released") \/ (SpAt(p, "waiting") /\ spEvent)
    /\ spXfer' = [spXfer EXCEPT !.status = SpWokenStatus] /\ SpReturn(p, SpWokenStatus)
    /\ UNCHANGED <<spHandle, spEvent, spStopping, spWoken, spBus>>

SpGiveUp(p) ==
    /\ SpAt(p, "waiting") /\ ~spEvent
    /\ SpGoesOn(p, "late")
    /\ UNCHANGED <<spHandle, spStopping, spContext, spBus>>

(* Masked, disabled and marked as timed out, whoever uses it now.          *)
SpTimeout(p) ==
    /\ SpAt(p, "late") /\ SpReturn(p, "timeout")
    /\ spMasked' = TRUE /\ spOn' = FALSE /\ spXfer' = [spXfer EXCEPT !.status = "timeout"]
    /\ UNCHANGED <<spHandle, spEvent, spStopping, spWoken>>
-----------------------------------------------------------------------------
(* The queue DPC zeroes the context and starts a request of its own.       *)
SpQueued ==
    /\ ~spStopping /\ ~spXfer.irp
    /\ spXfer' = [status |-> "pending", irp |-> TRUE, buf |-> TRUE] /\ spOn' = TRUE
    /\ UNCHANGED <<spEvent, spWoken, spMasked, spStopping, spClients>>

SpIsrStatus ==
    /\ spOn /\ ~spMasked /\ spXfer.buf
    /\ \E status \in {"ok", "error"} : spXfer' = [spXfer EXCEPT !.status = status]
    /\ UNCHANGED <<spEvent, spWoken, spStopping, spBus, spClients>>

(* KeSetEvent releases who waits already, whatever becomes of the event.   *)
SpReleases ==
    /\ \E waiting \in SUBSET {p \in SpClient : SpAt(p, "waiting")} :
          spAt' = [p \in SpClient |-> IF p \in waiting THEN "released" ELSE spAt[p]]
    /\ UNCHANGED <<spHandle, spArg, spTold>>

SpCompleteIrp ==
    /\ spXfer.irp /\ spEvent' = TRUE /\ spWoken' = SpClient
    /\ SpReleases

(* The interrupt DPC sets the event only for an IRP.                       *)
SpIsrComplete ==
    /\ spXfer.status \in {"ok", "error"} /\ SpCompleteIrp
    /\ spXfer' = [spXfer EXCEPT !.irp = FALSE]
    /\ spMasked' = FALSE
    /\ UNCHANGED <<spOn, spStopping>>

SpIrpTimeout ==
    /\ SpCompleteIrp
    /\ spXfer' = [spXfer EXCEPT !.irp = FALSE, !.status = "timeout"]
    /\ spMasked' = TRUE /\ spOn' = FALSE
    /\ UNCHANGED spStopping

SpStop ==
    /\ ~spStopping /\ spStopping' = TRUE
    /\ \/ SpCompleteIrp /\ spXfer' = [spXfer EXCEPT !.irp = FALSE]
       \/ ~spXfer.irp /\ UNCHANGED <<spXfer, spEvent, spWoken, spClients>>
    /\ UNCHANGED spBus

SpStart ==
    /\ spStopping /\ spStopping' = FALSE
    /\ spEvent' = FALSE /\ spXfer' = SpZero
    /\ UNCHANGED <<spWoken, spBus, spClients>>

SpClientStep(p) ==
    \/ SpCreate(p) \/ SpClose(p) \/ SpSetBusSpeed(p) \/ SpSpbcxSetTarget(p) \/ SpTransfer(p)
    \/ SpForward(p) \/ SpClaim(p) \/ SpPrime(p) \/ SpWake(p) \/ SpGiveUp(p) \/ SpTimeout(p)
    \/ \E speed \in SpSpeed : SpAcpiexSetTarget(p, speed)
    \/ SpSequence(p) \/ SpProbe(p) \/ SpStartTransfer(p) \/ SpExecute(p)

SpNext ==
    \/ \E p \in SpClient : SpClientStep(p)
    \/ SpQueued \/ SpIsrStatus \/ SpIsrComplete \/ SpIrpTimeout \/ SpStop \/ SpStart

SpSpec == SpInit /\ [][SpNext]_spVars

-----------------------------------------------------------------------------
(* A synchronous call reports success only if TransferEvent was set since  *)
(* it took the context, which only the completion of some IRP does: never  *)
(* because of an event left over, or because XferCtx reads as success      *)
(* while another client has zeroed it.                                     *)
SpOkCompleted ==
    \A p \in SpClient : spTold[p] = "ok" => p \in spWoken
=============================================================================
