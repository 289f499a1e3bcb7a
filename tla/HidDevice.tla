------------------------------ MODULE HidDevice ------------------------------
(***************************************************************************)
(* The function device of i2chid: AddDevice with its unwinding, the PnP    *)
(* and power dispatch, the interrupt with its DPC, and the READ_REPORT     *)
(* IRPs that wait in ReadQueue.  Each region under ReadQueueLock is one    *)
(* action, and so is each completion.  The ISR is one action: interrupts   *)
(* are disconnected only after a DPC flush that runs on every processor.   *)
(* As committed nobody allocates the report-descriptor buffer, so          *)
(* I2CHID_InitHidDescriptors refuses and AddDevice always fails:           *)
(* HidReportBuffer says whether that buffer is there.  As committed the    *)
(* DPC also reads into 64 bytes, which I2CHID_ReadInput refuses for it     *)
(* wants sizeof(I2CHID_REPORT): HidReportFits says whether it is given it. *)
(***************************************************************************)
EXTENDS Naturals, Sequences, FiniteSets, SequencesExt

CONSTANTS
    HidIrp,           \* IOCTL_HID_READ_REPORT requests
    HidNoIrp,         \* no request
    HidCpu,           \* processors that run I2CHID_InterruptDpc
    HidReportBuffer,  \* HidStatic.ReportDesc is allocated
    HidReportFits,    \* the DPC's buffer is as large as I2CHID_REPORT
    HidMaxStarts      \* bound: IRP_MN_START_DEVICE requests

ASSUME HidAssumption == HidNoIrp \notin HidIrp /\ HidMaxStarts \in Nat

VARIABLES
    hidHeld,          \* what the driver has acquired and not released
    hidFlags,         \* members of the extension that are TRUE, and a queued DPC
    hidDx,            \* DeviceState
    hidInput,         \* the touchpad's report: "none", "raised", "accepted" by the ISR
    hidIrp,           \* per read: who has it
    hidQueue,         \* ReadQueue
    hidRun,           \* per CPU, the run of the DPC: step and irp
    hidPnp,           \* the PnP thread: status of the device, request, step, irp
    hidCame,          \* history: the status in which REMOVE came
    hidDue,           \* history: reads that waited when StopDevice began
    hidStarts,        \* bound: starts so far
    hidWiped          \* history: the dispatch re-initialised a queued InterruptDpc

hidStartVars == <<hidStarts, hidWiped>>
hidPnpVars == <<hidHeld, hidDx, hidPnp, hidCame, hidDue, hidStartVars>>
hidReadVars == <<hidIrp, hidQueue>>
hidDpcVars == <<hidFlags, hidInput, hidRun>>
hidVars == <<hidPnpVars, hidReadVars, hidDpcVars>>

HidIdleRun == [pc |-> "idle", irp |-> HidNoIrp]

HidInit ==
    /\ hidHeld = {} /\ hidFlags = {} /\ hidDx = "unspecified" /\ hidInput = "none"
    /\ hidIrp = [r \in HidIrp |-> "free"] /\ hidQueue = <<>>
    /\ hidRun = [c \in HidCpu |-> HidIdleRun]
    /\ hidPnp = [status |-> "absent", op |-> "none", pc |-> "idle", irp |-> HidNoIrp]
    /\ hidCame = "absent" /\ hidDue = {} /\ hidStarts = 0 /\ hidWiped = FALSE

-----------------------------------------------------------------------------
(* AddDevice: the device is not announced before it ends, so it is one     *)
(* action.  Each failing call jumps to the label that undoes what was done. *)
HidUnwindKeepsController(label, held) ==
    CASE label = "FailIoCreateDevice" -> held \ {"device"}
      [] label = "FailAttached" -> held \ {"device", "attached"}
      [] label = "FailControllerOpened" -> held \ {"device", "attached", "interface", "doslink"}

HidUnwind(label, held) ==
    held \ CASE label = "FailIoCreateDevice" -> {"device"}
             [] label = "FailAttached" -> {"device", "attached"}
             [] label = "FailControllerOpened" ->
                   {"device", "attached", "controller", "interface", "doslink"}

(* Call that fails, what is held by then and where the code jumps.         *)
HidAddFailure ==
    {<<"IoCreateDevice", {}, "FailIoCreateDevice">>,
     <<"IoAttachDevice", {"device"}, "FailIoCreateDevice">>,
     <<"DpiInitializeFromBus", {"device", "attached"}, "FailAttached">>,
     <<"I2cCtrl_Open", {"device", "attached"}, "FailAttached">>,
     <<"DetectTouchpad", {"device", "attached", "controller"}, "FailControllerOpened">>,
     <<"InitHidDescriptors", {"device", "attached", "controller"}, "FailControllerOpened">>,
     <<"DpiRegisterInterface", {"device", "attached", "controller"}, "FailControllerOpened">>}

HidAddFails ==
    /\ hidPnp.status = "absent"
    /\ \E f \in HidAddFailure : hidHeld' = HidUnwind(f[3], f[2])
    /\ hidPnp' = [hidPnp EXCEPT !.status = "refused"]
    /\ UNCHANGED <<hidDx, hidCame, hidDue, hidStartVars, hidReadVars, hidDpcVars>>

HidAddDevice ==
    /\ hidPnp.status = "absent" /\ HidReportBuffer
    /\ \E link \in SUBSET {"doslink"} :      \* IoCreateSymbolicLink may fail
          hidHeld' = {"device", "attached", "controller", "interface"} \cup link
    /\ hidPnp' = [hidPnp EXCEPT !.status = "added"]
    /\ UNCHANGED <<hidDx, hidCame, hidDue, hidStartVars, hidReadVars, hidDpcVars>>

-----------------------------------------------------------------------------
(* IRP_MN_START_DEVICE: the lower driver first, then I2CHID_StartDevice.   *)
(* The interrupt is connected before Started is set, and the dispatch      *)
(* routine initialises the DPC once more afterwards.  KeInitializeDpc on a *)
(* DPC that is queued may or may not make the kernel forget it.            *)
HidPresent == hidPnp.status \notin {"absent", "refused", "deleted"}

HidInitializeDpc(flags) == {flags, flags \ {"DpcQueued"}}
HidResetFlags == hidFlags \ {"Started", "PendingInput"}

HidStartFails ==     \* the lower driver, or the hardware with its DPC initialised
    /\ hidPnp.status \in {"added", "stopped"} /\ hidPnp.op = "none"
    /\ hidFlags' \in {hidFlags} \cup HidInitializeDpc(HidResetFlags)
    /\ hidPnp' = [hidPnp EXCEPT !.status = "failed"]
    /\ UNCHANGED <<hidHeld, hidDx, hidCame, hidDue, hidStartVars, hidReadVars, hidInput, hidRun>>

HidStartConnect ==   \* the ISR refuses while Started is FALSE
    /\ hidPnp.status \in {"added", "stopped"} /\ hidPnp.op = "none"
    /\ hidStarts < HidMaxStarts /\ hidStarts' = hidStarts + 1
    /\ hidFlags' \in HidInitializeDpc(HidResetFlags) /\ hidWiped' = FALSE
    /\ \E int \in SUBSET {"interrupt"} :     \* the resources may list no interrupt
          hidHeld' = hidHeld \cup int
    /\ hidPnp' = [hidPnp EXCEPT !.op = "start", !.pc = "connected"]
    /\ UNCHANGED <<hidDx, hidCame, hidDue, hidReadVars, hidInput, hidRun>>

HidStartDevice ==    \* from here on the ISR queues the DPC
    /\ hidPnp.pc = "connected"
    /\ hidFlags' = hidFlags \cup {"Started"}
    /\ hidPnp' = [hidPnp EXCEPT !.pc = "initialized"]
    /\ UNCHANGED <<hidHeld, hidDx, hidCame, hidDue, hidStartVars, hidReadVars, hidInput, hidRun>>

HidStartEnd ==
    /\ hidPnp.pc = "initialized"
    /\ hidFlags' \in HidInitializeDpc((hidFlags \ {"Removed"}) \cup {"Started"})
    /\ hidWiped' = ("DpcQueued" \in hidFlags \ hidFlags')
    /\ hidPnp' = [hidPnp EXCEPT !.status = "started", !.op = "none", !.pc = "idle"]
    /\ UNCHANGED <<hidHeld, hidDx, hidCame, hidDue, hidStarts, hidReadVars, hidInput, hidRun>>

-----------------------------------------------------------------------------
(* STOP, SURPRISE_REMOVAL and REMOVE all call I2CHID_StopDevice, which     *)
(* returns at once when Started is FALSE.                                  *)
HidRequest(op, from) ==
    /\ hidPnp.status \in from /\ hidPnp.op = "none"
    /\ hidPnp' = [hidPnp EXCEPT !.op = op, !.pc = "StopDevice"]

HidStop ==
    /\ HidRequest("stop", {"started"})
    /\ UNCHANGED <<hidHeld, hidDx, hidCame, hidDue, hidStartVars, hidReadVars, hidDpcVars>>

HidSurpriseLate ==
    /\ HidRequest("surprise", {"started", "stopped"})
    /\ UNCHANGED <<hidHeld, hidDx, hidCame, hidDue, hidStartVars, hidReadVars, hidDpcVars>>

HidSurprise ==
    /\ HidRequest("surprise", {"started", "stopped"})
    /\ hidFlags' = hidFlags \cup {"Removed"}
    /\ UNCHANGED <<hidHeld, hidDx, hidCame, hidDue, hidStartVars, hidReadVars, hidInput, hidRun>>

HidRemove ==
    /\ HidRequest("remove", {"added", "started", "stopped", "failed", "surprised",
                             "unplugged"})
    /\ hidFlags' = (hidFlags \ {"Started"}) \cup {"Removed"}
    /\ hidCame' = hidPnp.status
    /\ UNCHANGED <<hidHeld, hidDx, hidDue, hidStartVars, hidReadVars, hidInput, hidRun>>

HidStopAt(pc) == hidPnp.pc = pc
HidStopGoes(pc) == hidPnp' = [hidPnp EXCEPT !.pc = pc]

HidStopSkipped ==
    /\ HidStopAt("StopDevice") /\ "Started" \notin hidFlags
    /\ HidStopGoes("returned")
    /\ UNCHANGED <<hidHeld, hidDx, hidCame, hidDue, hidStartVars, hidReadVars, hidDpcVars>>

HidStopFlush ==      \* cancels the idle timer and waits for the DPCs
    /\ HidStopAt("StopDevice") /\ "Started" \in hidFlags
    /\ "DpcQueued" \notin hidFlags /\ \A c \in HidCpu : hidRun[c].pc = "idle"
    /\ hidFlags' = hidFlags \ {"IdleArmed"} /\ hidDue' = Range(hidQueue)
    /\ HidStopGoes("flushed")
    /\ UNCHANGED <<hidHeld, hidDx, hidCame, hidStartVars, hidReadVars, hidInput, hidRun>>

HidStopDisconnect ==
    /\ HidStopAt("flushed")
    /\ hidHeld' = hidHeld \ {"interrupt"}
    /\ HidStopGoes("drain")
    /\ UNCHANGED <<hidDx, hidCame, hidDue, hidStartVars, hidReadVars, hidDpcVars>>

(* The read queue is drained, every read completed, under ReadQueueLock.   *)
HidDrainTake ==
    /\ HidStopAt("drain") \/ HidStopAt("purge")
    /\ hidQueue # <<>>
    /\ hidIrp' = [hidIrp EXCEPT ![Head(hidQueue)] = "owned"]
    /\ hidQueue' = Tail(hidQueue)
    /\ hidPnp' = [hidPnp EXCEPT !.irp = Head(hidQueue)]
    /\ hidPnp.irp = HidNoIrp
    /\ UNCHANGED <<hidHeld, hidDx, hidCame, hidDue, hidStartVars, hidDpcVars>>

HidDrainComplete ==
    /\ hidPnp.irp # HidNoIrp
    /\ hidIrp' = [hidIrp EXCEPT ![hidPnp.irp] = "completed"]
    /\ hidPnp' = [hidPnp EXCEPT !.irp = HidNoIrp]
    /\ UNCHANGED <<hidHeld, hidDx, hidCame, hidDue, hidStartVars, hidQueue, hidDpcVars>>

HidDrainedFirst == hidPnp.irp = HidNoIrp
HidDrained == hidPnp.irp = HidNoIrp /\ hidQueue = <<>>

HidStopDrainEnd ==
    /\ HidStopAt("drain") /\ HidDrained
    /\ HidStopGoes("close")
    /\ UNCHANGED <<hidHeld, hidDx, hidCame, hidDue, hidStartVars, hidReadVars, hidDpcVars>>

(* Handle, interface and the flags; a report accepted before is forgotten. *)
HidStopClose ==
    /\ HidStopAt("close")
    /\ hidHeld' = hidHeld \ {"controller", "interface"}
    /\ hidFlags' = hidFlags \ {"PendingInput", "Started"}
    /\ hidInput' = IF hidInput = "none" THEN "none" ELSE "raised"
    /\ HidStopGoes("returned")
    /\ UNCHANGED <<hidDx, hidCame, hidDue, hidStartVars, hidReadVars, hidRun>>

HidStopReturned ==
    /\ HidStopAt("returned") /\ hidPnp.op \in {"stop", "surprise"}
    /\ hidPnp' = [hidPnp EXCEPT !.pc = "idle", !.op = "none",
                     !.status = CASE hidPnp.op = "stop" -> "stopped"
                                  [] hidPnp.op = "surprise" /\ hidPnp.status = "started" ->
                                        "surprised"
                                  [] OTHER -> "unplugged"]   \* surprised while stopped
    /\ UNCHANGED <<hidHeld, hidDx, hidCame, hidDue, hidStartVars, hidReadVars, hidDpcVars>>

HidRemovePurge ==
    /\ HidStopAt("returned") /\ hidPnp.op = "remove"
    /\ hidFlags' = hidFlags \ {"IdleArmed"}
    /\ HidStopGoes("purge")
    /\ UNCHANGED <<hidHeld, hidDx, hidCame, hidDue, hidStartVars, hidReadVars, hidInput, hidRun>>

HidRemoveDelete ==   \* interface, detach, ReleaseRemoveLockAndWait, IoDeleteDevice
    /\ HidStopAt("purge") /\ HidDrained
    /\ hidHeld' = hidHeld \ {"interface", "attached", "device"}
    /\ hidPnp' = [hidPnp EXCEPT !.pc = "idle", !.op = "none", !.status = "deleted"]
    /\ UNCHANGED <<hidDx, hidCame, hidDue, hidStartVars, hidReadVars, hidDpcVars>>

-----------------------------------------------------------------------------
(* Device power, between two PnP requests; D1, D2 and D3 are one state Dx. *)
(* EnterD0 calls ArmIdle before DeviceState is D0.  EnterDx forgets the     *)
(* interrupt object, so EnterD0 never finds one to connect again.          *)
HidArmIdle(flags) == IF hidDx = "D0" THEN flags \cup {"IdleArmed"} ELSE flags

HidEnterD0 ==
    /\ HidPresent /\ hidPnp.op = "none"
    /\ hidFlags' = HidArmIdle(hidFlags \ {"IdleArmed"}) /\ hidDx' = "D0"
    /\ UNCHANGED <<hidHeld, hidPnp, hidCame, hidDue, hidStartVars, hidReadVars, hidInput, hidRun>>

HidEnterDx ==
    /\ HidPresent /\ hidPnp.op = "none"
    /\ hidFlags' = hidFlags \ {"IdleArmed"}
    /\ hidHeld' = hidHeld \ {"interrupt"} /\ hidDx' = "Dx"
    /\ UNCHANGED <<hidPnp, hidCame, hidDue, hidStartVars, hidReadVars, hidInput, hidRun>>

HidPower == HidEnterD0 \/ HidEnterDx

-----------------------------------------------------------------------------
(* The touchpad raises its line for a report; a READ_REPORT request; the   *)
(* ISR and the DPC.                                                        *)
HidRaise ==
    /\ HidPresent /\ hidInput' = "raised"
    /\ UNCHANGED <<hidPnpVars, hidReadVars, hidFlags, hidRun>>

HidIsr ==
    /\ hidInput \in {"raised", "accepted"} /\ "interrupt" \in hidHeld /\ HidPresent
    /\ "Removed" \notin hidFlags /\ "Started" \in hidFlags
    /\ hidFlags' = hidFlags \cup {"PendingInput"} \cup
          (IF "PendingInput" \in hidFlags THEN {} ELSE {"DpcQueued"})
    /\ hidInput' = "accepted"
    /\ UNCHANGED <<hidPnpVars, hidReadVars, hidRun>>

HidDpcAt(c, pc) == hidRun[c].pc = pc
HidDpcGoes(c, pc, irp) == hidRun' = [hidRun EXCEPT ![c] = [pc |-> pc, irp |-> irp]]

HidDpcBegin(c) ==    \* returns without clearing PendingInput when not started
    /\ "DpcQueued" \in hidFlags /\ HidDpcAt(c, "idle") /\ HidPresent
    /\ hidFlags' = hidFlags \ {"DpcQueued"}
    /\ HidDpcGoes(c, IF "Removed" \in hidFlags \/ "Started" \notin hidFlags
                     THEN "idle" ELSE "clear", HidNoIrp)
    /\ UNCHANGED <<hidPnpVars, hidReadVars, hidInput>>

HidDpcClearLost(c) ==
    /\ HidDpcAt(c, "clear") /\ HidDpcGoes(c, "read", HidNoIrp)
    /\ UNCHANGED <<hidPnpVars, hidReadVars, hidInput, hidFlags>>

HidDpcClear(c) ==
    /\ HidDpcAt(c, "clear") /\ HidDpcGoes(c, "read", HidNoIrp)
    /\ hidFlags' = hidFlags \ {"PendingInput"}
    /\ UNCHANGED <<hidPnpVars, hidReadVars, hidInput>>

HidDpcRead(c) ==     \* I2CHID_ReadInput: its buffer, three tries at the lower driver
    /\ HidDpcAt(c, "read")
    /\ \/ HidReportFits /\ hidInput' = "none" /\ HidDpcGoes(c, "dequeue", HidNoIrp)
       \/ hidInput' = "raised" /\ HidDpcGoes(c, "idle", HidNoIrp)
    /\ UNCHANGED <<hidPnpVars, hidReadVars, hidFlags>>

HidLockFree == hidPnp.irp = HidNoIrp

HidDequeueReadIrpShared(c) ==
    /\ HidDpcAt(c, "dequeue") /\ HidLockFree /\ hidQueue # <<>>
    /\ HidDpcGoes(c, "complete", Head(hidQueue))
    /\ hidIrp' = [hidIrp EXCEPT ![Head(hidQueue)] = "owned"]
    /\ UNCHANGED <<hidPnpVars, hidQueue, hidFlags, hidInput>>

HidDequeueReadIrp(c) ==
    /\ HidDpcAt(c, "dequeue") /\ HidLockFree /\ hidQueue # <<>>
    /\ HidDpcGoes(c, "complete", Head(hidQueue))
    /\ hidIrp' = [hidIrp EXCEPT ![Head(hidQueue)] = "owned"]
    /\ hidQueue' = Tail(hidQueue)
    /\ UNCHANGED <<hidPnpVars, hidFlags, hidInput>>

HidDequeueNothing(c) ==     \* the report finds no reader and is dropped
    /\ HidDpcAt(c, "dequeue") /\ HidLockFree /\ hidQueue = <<>>
    /\ HidDpcGoes(c, "idle", HidNoIrp)
    /\ UNCHANGED <<hidPnpVars, hidReadVars, hidFlags, hidInput>>

HidCompleteReadIrp(c) ==
    /\ HidDpcAt(c, "complete")
    /\ hidIrp' = [hidIrp EXCEPT ![hidRun[c].irp] = "completed"]
    /\ HidDpcGoes(c, "idle", HidNoIrp)
    /\ UNCHANGED <<hidPnpVars, hidQueue, hidFlags, hidInput>>

(* IOCTL_HID_READ_REPORT: it looks neither at Started nor at Removed and   *)
(* sets no cancel routine.  No request comes once REMOVE has been sent.    *)
HidReadReport(r) ==
    /\ HidPresent /\ hidPnp.op # "remove" /\ hidIrp[r] = "free"
    /\ hidIrp' = [hidIrp EXCEPT ![r] = "owned"]
    /\ UNCHANGED <<hidPnpVars, hidQueue, hidDpcVars>>

HidReceived(r) ==
    /\ hidIrp[r] = "owned" /\ r # hidPnp.irp
    /\ \A c \in HidCpu : hidRun[c].irp # r

HidReadTooSmall(r) ==
    /\ HidReceived(r)
    /\ hidIrp' = [hidIrp EXCEPT ![r] = "completed"]
    /\ UNCHANGED <<hidPnpVars, hidQueue, hidDpcVars>>

HidQueueReadIrp(r) ==
    /\ HidReceived(r) /\ HidLockFree
    /\ hidIrp' = [hidIrp EXCEPT ![r] = "parked"] /\ hidQueue' = Append(hidQueue, r)
    /\ UNCHANGED <<hidPnpVars, hidDpcVars>>

-----------------------------------------------------------------------------
HidNext ==
    \/ HidAddFails \/ HidAddDevice
    \/ HidStartFails \/ HidStartConnect \/ HidStartDevice \/ HidStartEnd
    \/ HidStop \/ HidSurprise \/ HidRemove
    \/ HidStopSkipped \/ HidStopFlush \/ HidStopDisconnect
    \/ HidDrainTake \/ HidDrainComplete \/ HidStopDrainEnd \/ HidStopClose
    \/ HidStopReturned \/ HidRemovePurge \/ HidRemoveDelete
    \/ HidPower \/ HidRaise \/ HidIsr
    \/ \E c \in HidCpu : \/ HidDpcBegin(c) \/ HidDpcClear(c) \/ HidDpcRead(c)
                         \/ HidDequeueReadIrp(c) \/ HidDequeueNothing(c)
                         \/ HidCompleteReadIrp(c)
    \/ \E r \in HidIrp : HidReadReport(r) \/ HidReadTooSmall(r) \/ HidQueueReadIrp(r)

HidSpec == HidInit /\ [][HidNext]_hidVars

-----------------------------------------------------------------------------
(* Every read is completed once, by whoever took it from the queue: the    *)
(* device keeps the contract of the IRPs it is given.                      *)
HidContract == INSTANCE IrpContract WITH Irp <- HidIrp, state <- hidIrp
HidHonoursContract == HidContract!Spec

(* StopDevice gives the hardware back when every read that waited at its   *)
(* flush of the DPCs is completed, or dequeued by a DPC the ISR queued     *)
(* after the flush, which is about to complete it.  A read queued after    *)
(* the drain is left waiting.                                              *)
HidStopDrains ==
    HidStopAt("close") =>
        \A r \in hidDue :
            \/ hidIrp[r] = "completed"
            \/ \E c \in HidCpu : HidDpcAt(c, "complete") /\ hidRun[c].irp = r

HidAccepted ==
    hidInput = "accepted" /\ "Started" \in hidFlags /\ "Removed" \notin hidFlags
HidWillRead ==
    "DpcQueued" \in hidFlags \/ \E c \in HidCpu : hidRun[c].pc \in {"clear", "read"}

(* A report the ISR accepted is read afterwards: the DPC is queued or has  *)
(* yet to read, though PendingInputFlag is cleared before the read and the *)
(* ISR may run on another processor at any time.  Excepted is a start that *)
(* re-initialised the DPC while it was queued.                             *)
HidInputServed == HidAccepted => HidWillRead \/ hidWiped

(* What a deleted device leaves behind, by the status in which REMOVE came. *)
(* After a stop or a surprise removal it is the DOS link at most, after    *)
(* the latter no DPC either, for Removed turns the ISR off before the      *)
(* flush.  REMOVE clears Started before it calls I2CHID_StopDevice: what   *)
(* was never started, or failed to, keeps its controller handle, and what  *)
(* was started its interrupt as well.                                      *)
HidRemoveReleases ==
    hidPnp.status = "deleted" =>
        /\ hidCame \in {"stopped", "unplugged", "surprised"} => hidHeld \subseteq {"doslink"}
        /\ hidCame = "surprised" => /\ "DpcQueued" \notin hidFlags
                                    /\ \A c \in HidCpu : hidRun[c] = HidIdleRun
        /\ hidCame \in {"added", "failed"} => hidHeld \subseteq {"doslink", "controller"}
        /\ hidCame = "started" => hidHeld \subseteq {"doslink", "controller", "interrupt"}

(* An AddDevice that fails, at whatever call, gives back all it acquired.  *)
HidAddUnwinds == hidPnp.status = "refused" => hidHeld = {}
=============================================================================
