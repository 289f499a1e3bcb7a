------------------------------ MODULE CtrlIoctl ------------------------------
(***************************************************************************)
(* I2cCtrl_DispatchIoctl on a device of i2cctrl: which requests it answers *)
(* itself, which it passes on, and the one HID read it parks in            *)
(* PendingHidReadIrp with a cancel routine.  Nothing ever completes a      *)
(* parked read but its cancellation.                                       *)
(***************************************************************************)
EXTENDS Naturals, FiniteSets

CONSTANTS
    CrIrp,        \* requests
    CrNoIrp       \* NULL

ASSUME CrAssumption == CrNoIrp \notin CrIrp

VARIABLES
    crAt,         \* per request, where it is
    crCode,       \* per request, its IOCTL
    crCancel,     \* per request: no, early (no cancel routine then), running, ignored, done
    crSlot,       \* PendingHidReadIrp
    crDesc,       \* HidDesc holds "none", the "enumerated" one or the "device" one
    crReady       \* Started, not Stopping and with a backend

crIrpVars == <<crAt, crCode, crCancel>>
crVars == <<crIrpVars, crSlot, crDesc, crReady>>

CrFeature == {"writeReport", "getFeature", "setFeature"}
CrFacade == {"setTarget", "transfer", "sequence", "probe"}
CrCodes == {"readReport", "deviceDescriptor", "reportDescriptor", "acpiEval", "unknown"}
           \cup CrFeature \cup CrFacade

CrInit ==
    /\ crAt = [i \in CrIrp |-> "free"] /\ crCode = [i \in CrIrp |-> "unknown"]
    /\ crCancel = [i \in CrIrp |-> "no"]
    /\ crSlot = CrNoIrp /\ crDesc = "none" /\ crReady = FALSE

CrMove(i, from, to) == crAt[i] = from /\ crAt' = [crAt EXCEPT ![i] = to]

CrArrive(i, code) ==
    /\ CrMove(i, "free", "owned")
    /\ crCode' = [crCode EXCEPT ![i] = code]
    /\ UNCHANGED <<crCancel, crSlot, crDesc, crReady>>

-----------------------------------------------------------------------------
(* The device: its start forgets the parked read, its stop leaves it.      *)
CrStart ==
    /\ ~crReady
    /\ crReady' = TRUE /\ crSlot' = CrNoIrp /\ crDesc' \in {"none", "enumerated"}
    /\ UNCHANGED crIrpVars

CrStop == crReady /\ crReady' = FALSE /\ UNCHANGED <<crIrpVars, crSlot, crDesc>>

-----------------------------------------------------------------------------
(* Requests that are answered or passed on without waiting.                *)
CrPassDown(i) ==
    /\ crCode[i] = "acpiEval" /\ CrMove(i, "owned", "lower")
    /\ UNCHANGED <<crCode, crCancel, crSlot, crDesc, crReady>>

CrLowerCompletes(i) ==
    /\ CrMove(i, "lower", "done")
    /\ UNCHANGED <<crCode, crCancel, crSlot, crDesc, crReady>>

CrCompleteDirect(i) ==
    /\ CrMove(i, "owned", "done")
    /\ UNCHANGED <<crCode, crCancel, crSlot, crDesc, crReady>>

CrHere(i) == crReady /\ crAt[i] = "owned" /\ crCode[i] # "acpiEval"

CrNotReady(i) == ~crReady /\ crCode[i] # "acpiEval" /\ CrCompleteDirect(i)

CrDescriptor(i) ==           \* the descriptor or an error
    /\ CrHere(i) /\ crCode[i] \in {"deviceDescriptor", "reportDescriptor"}
    /\ CrCompleteDirect(i)

(* A write and both features read the HID descriptor from the device and   *)
(* replace the stored one when that succeeds, whatever becomes of the      *)
(* transfer that follows.  A write needs a stored one.                     *)
CrFeatureReport(i) ==
    /\ CrHere(i) /\ crCode[i] \in CrFeature
    /\ CrMove(i, "owned", "done")
    /\ crDesc' \in {crDesc} \cup
          (IF crCode[i] # "writeReport" \/ crDesc # "none" THEN {"device"} ELSE {})
    /\ UNCHANGED <<crCode, crCancel, crSlot, crReady>>

(* The ACPIEx facade sets the status of a code it knows and completes      *)
(* nothing; neither does its caller.                                       *)
CrAcpiexHandled(i) ==
    /\ CrHere(i) /\ crCode[i] \in CrFacade /\ CrMove(i, "owned", "returned")
    /\ UNCHANGED <<crCode, crCancel, crSlot, crDesc, crReady>>

(* What that one does not handle goes to the SPBCX facade, which completes *)
(* the request; the caller completes it once more unless that one handled  *)
(* it.                                                                     *)
CrSpbcxHandled(i) ==
    /\ CrHere(i) /\ crCode[i] \in CrFacade /\ CrMove(i, "owned", "done")
    /\ UNCHANGED <<crCode, crCancel, crSlot, crDesc, crReady>>

CrSpbcxRefused(i) ==
    /\ CrHere(i) /\ crCode[i] \in CrFacade \cup {"unknown"}
    /\ CrMove(i, "owned", "twice")
    /\ UNCHANGED <<crCode, crCancel, crSlot, crDesc, crReady>>

-----------------------------------------------------------------------------
(* IOCTL_HID_READ_REPORT: pending and cancellable before it has the slot.  *)
CrReadInvalid(i) == CrHere(i) /\ crCode[i] = "readReport" /\ CrCompleteDirect(i)

CrReadSetCancel(i) ==
    /\ CrHere(i) /\ crCode[i] = "readReport" /\ CrMove(i, "owned", "cancellable")
    /\ UNCHANGED <<crCode, crCancel, crSlot, crDesc, crReady>>

CrReadTakesSlot(i) ==
    /\ crSlot = CrNoIrp
    /\ CrMove(i, "cancellable", "parked") /\ crSlot' = i
    /\ UNCHANGED <<crCode, crCancel, crDesc, crReady>>

CrReadBusy(i) ==             \* clears the cancel routine, completes with DEVICE_BUSY
    /\ crSlot # CrNoIrp /\ CrMove(i, "cancellable", "done")
    /\ UNCHANGED <<crCode, crCancel, crSlot, crDesc, crReady>>

CrIoCancelIrp(i) ==
    /\ crCancel[i] = "no" /\ crAt[i] \in {"owned", "cancellable", "parked"}
    /\ crCode[i] = "readReport"
    /\ crCancel' = [crCancel EXCEPT ![i] = IF crAt[i] = "owned" THEN "early" ELSE "running"]
    /\ UNCHANGED <<crAt, crCode, crSlot, crDesc, crReady>>

(* The cancel routine under HidInputLock: a read that is not in the slot   *)
(* is left to whoever took it, or has not put it there yet.                *)
CrHidCancelReadAnyway(i) ==
    /\ crCancel[i] = "running"
    /\ crAt' = [crAt EXCEPT ![i] = "done"]
    /\ crSlot' = IF crSlot = i THEN CrNoIrp ELSE crSlot
    /\ crCancel' = [crCancel EXCEPT ![i] = "done"]
    /\ UNCHANGED <<crCode, crDesc, crReady>>

CrHidCancelRead(i) ==
    /\ crCancel[i] = "running"
    /\ \/ /\ crSlot = i
          /\ crSlot' = CrNoIrp /\ CrMove(i, "parked", "taken")
          /\ crCancel' = [crCancel EXCEPT ![i] = "done"]
       \/ /\ crSlot # i
          /\ crCancel' = [crCancel EXCEPT ![i] = "ignored"]
          /\ UNCHANGED <<crSlot, crAt>>
    /\ UNCHANGED <<crCode, crDesc, crReady>>

CrCancelCompletes(i) ==
    /\ CrMove(i, "taken", "done")
    /\ UNCHANGED <<crCode, crCancel, crSlot, crDesc, crReady>>

CrNext ==
    \/ CrStart \/ CrStop
    \/ \E i \in CrIrp :
          \/ \E code \in CrCodes : CrArrive(i, code)
          \/ CrPassDown(i) \/ CrLowerCompletes(i) \/ CrNotReady(i)
          \/ CrDescriptor(i) \/ CrFeatureReport(i)
          \/ CrAcpiexHandled(i) \/ CrSpbcxHandled(i) \/ CrSpbcxRefused(i)
          \/ CrReadInvalid(i) \/ CrReadSetCancel(i) \/ CrReadTakesSlot(i) \/ CrReadBusy(i)
          \/ CrIoCancelIrp(i) \/ CrHidCancelRead(i) \/ CrCancelCompletes(i)

CrSpec == CrInit /\ [][CrNext]_crVars

-----------------------------------------------------------------------------
(* HID reads and the requests this driver answers honour the IRP contract. *)
(* The facades' requests do not: one is never completed and one is         *)
(* completed again, so they are not part of it.                            *)
CrContractState ==
    [i \in CrIrp |->
        IF crCode[i] \in CrFacade \cup {"unknown"} /\ crAt[i] # "free" THEN "owned"
        ELSE CASE crAt[i] = "free" -> "free"
               [] crAt[i] = "parked" -> "parked"
               [] crAt[i] = "done" -> "completed"
               [] OTHER -> "owned"]

CrContract == INSTANCE IrpContract WITH Irp <- CrIrp, state <- CrContractState

CrHonoursContract == CrContract!Spec
=============================================================================
