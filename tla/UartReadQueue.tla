---------------------------- MODULE UartReadQueue ----------------------------
(***************************************************************************)
(* The read IRPs of uartctrl: UARTCTRL_DispatchRead and IOCTL_UART_READ    *)
(* answer from the RX ring or park the IRP in ReadQueue, from where the    *)
(* DPC, the cancel routine and UARTCTRL_StopDevice take it.  Each region   *)
(* under ReadQueueLock or RxLock is one action, and so is each completion. *)
(* The RX ring is the number of bytes in it.  Accesses to registers that   *)
(* StopDevice has unmapped find nothing here.  Zero-length reads, which the *)
(* dispatch routine queues whatever the ring holds, are left out.          *)
(***************************************************************************)
EXTENDS Naturals, Sequences

CONSTANTS
    Irp,              \* read IRPs
    NoIrp,            \* no IRP
    Cpu,              \* processors that run PollDpc
    CompletionLimit,  \* completions per run of the DPC: 64
    RxMax,            \* bytes the RX ring holds
    MaxBytes          \* bound: bytes that arrive on the line

ASSUME UartAssumption ==
    /\ NoIrp \notin Irp
    /\ CompletionLimit \in Nat \ {0} /\ RxMax \in Nat /\ MaxBytes \in Nat

VARIABLES
    disp,             \* per IRP, how far its dispatch routine is
    cancel,           \* per IRP, its cancel routine
    done,             \* per IRP, how often it was completed
    queue,            \* ReadQueue
    avail,            \* bytes in the RX ring
    line,             \* bytes yet to arrive
    polled,           \* PollDpc is queued
    dpc,              \* per CPU, the run of PollDpc: step, irp, completedCount
    connected,        \* InterruptConnected
    pnp               \* the PnP thread: the request, its step and its irp

vars == <<disp, cancel, done, queue, avail, line, polled, dpc, connected, pnp>>

Request == {"start", "stop", "surprise", "remove"}

IrpTypes ==
    /\ disp \in [Irp -> {"none", "try", "empty", "armed", "returned"}]
    /\ cancel \in [Irp -> {"off", "armed", "running", "found", "missed", "over"}]
    /\ done \in [Irp -> Nat]
    /\ queue \in Seq(Irp)

DataTypes ==
    /\ avail \in 0 .. RxMax /\ line \in 0 .. MaxBytes
    /\ polled \in BOOLEAN /\ connected \in BOOLEAN

DpcTypes ==
    dpc \in [Cpu -> [pc : {"idle", "reads", "complete"}, irp : Irp \cup {NoIrp},
                     n : 0 .. CompletionLimit]]

PnpTypes ==
    pnp \in [op : Request, irp : Irp \cup {NoIrp},
             pc : {"connect", "running", "flush", "flushing", "free", "stopped",
                   "purge", "purging", "deleted"}]

TypeOK == IrpTypes /\ DataTypes /\ DpcTypes /\ PnpTypes

IdleDpc == [pc |-> "idle", irp |-> NoIrp, n |-> 0]

(* UARTCTRL_StartDevice has run.                                           *)
Init ==
    /\ disp = [r \in Irp |-> "none"]
    /\ cancel = [r \in Irp |-> "off"]
    /\ done = [r \in Irp |-> 0]
    /\ queue = <<>>
    /\ avail = 0 /\ line = MaxBytes
    /\ polled = FALSE /\ connected = TRUE
    /\ dpc = [c \in Cpu |-> IdleDpc]
    /\ pnp = [op |-> "start", pc |-> "running", irp |-> NoIrp]
-----------------------------------------------------------------------------
CompleteIrp(r) == done' = [done EXCEPT ![r] = @ + 1]

(* IRP_MN_REMOVE_DEVICE completes what it flushes under ReadQueueLock.     *)
LockFree == pnp.pc \notin {"purge", "purging"}

Queued(r) == \E i \in DOMAIN queue : queue[i] = r

(* RemoveEntryList of the i-th entry.                                      *)
Without(i) ==
    [j \in 1 .. Len(queue) - 1 |-> IF j < i THEN queue[j] ELSE queue[j + 1]]

DispatchUnchanged == UNCHANGED <<disp, cancel>>
DeviceUnchanged == UNCHANGED <<line, polled, dpc, connected, pnp>>

Dispatch(r, from, to) == disp[r] = from /\ disp' = [disp EXCEPT ![r] = to]

Read(r) ==
    /\ pnp.pc # "deleted"
    /\ Dispatch(r, "none", "try")
    /\ UNCHANGED <<cancel, done, queue, avail>> /\ DeviceUnchanged

(* The buffer cannot be mapped, or an IOCTL has no room for a byte.        *)
ReadFails(r) ==
    /\ Dispatch(r, "try", "returned")
    /\ CompleteIrp(r)
    /\ UNCHANGED <<cancel, queue, avail>> /\ DeviceUnchanged

ReadCopies(r) ==
    /\ Dispatch(r, "try", "returned")
    /\ \E copied \in 1 .. avail : avail' = avail - copied
    /\ CompleteIrp(r)
    /\ UNCHANGED <<cancel, queue>> /\ DeviceUnchanged

ReadFindsNothing(r) ==
    /\ avail = 0
    /\ Dispatch(r, "try", "empty")
    /\ UNCHANGED <<cancel, done, queue, avail>> /\ DeviceUnchanged

(* IRP_MJ_READ sets a cancel routine, IOCTL_UART_READ does not.            *)
ReadArmsCancel(r) ==
    /\ Dispatch(r, "empty", "armed")
    /\ cancel' = [cancel EXCEPT ![r] = "armed"]
    /\ UNCHANGED <<done, queue, avail>> /\ DeviceUnchanged

ReadQueues(r) ==
    /\ Dispatch(r, "empty", "returned") \/ Dispatch(r, "armed", "returned")
    /\ LockFree
    /\ queue' = Append(queue, r)
    /\ UNCHANGED <<cancel, done, avail>> /\ DeviceUnchanged
-----------------------------------------------------------------------------
CancelStep(r, from, to) == cancel[r] = from /\ cancel' = [cancel EXCEPT ![r] = to]

(* IoCancelIrp calls the cancel routine the IRP has.                       *)
IoCancelIrp(r) ==
    /\ done[r] = 0
    /\ CancelStep(r, "armed", "running")
    /\ UNCHANGED <<disp, done, queue, avail>> /\ DeviceUnchanged

(* Mutant of CancelFinds: the IRP is not unlinked.                         *)
CancelFindsLinked(r) ==
    /\ LockFree
    /\ CancelStep(r, "running", "found")
    /\ Queued(r)
    /\ UNCHANGED <<disp, done, queue, avail>> /\ DeviceUnchanged

CancelFinds(r) ==
    /\ LockFree
    /\ CancelStep(r, "running", "found")
    /\ \E i \in DOMAIN queue : queue[i] = r /\ queue' = Without(i)
    /\ UNCHANGED <<disp, done, avail>> /\ DeviceUnchanged

(* Mutant of CancelMisses: an IRP somebody else took is completed too.     *)
CancelMissesBlindly(r) ==
    /\ LockFree
    /\ CancelStep(r, "running", "found")
    /\ ~Queued(r)
    /\ UNCHANGED <<disp, done, queue, avail>> /\ DeviceUnchanged

CancelMisses(r) ==
    /\ LockFree
    /\ CancelStep(r, "running", "missed")
    /\ ~Queued(r)
    /\ UNCHANGED <<disp, done, queue, avail>> /\ DeviceUnchanged

CancelCompletes(r) ==
    /\ CancelStep(r, "found", "over")
    /\ CompleteIrp(r)
    /\ UNCHANGED <<disp, queue, avail>> /\ DeviceUnchanged
-----------------------------------------------------------------------------
Smaller(a, b) == IF a < b THEN a ELSE b

(* n bytes go from the UART into the ring, what does not fit is dropped.   *)
Drain(n) ==
    /\ n <= line
    /\ line' = line - n
    /\ avail' = Smaller(avail + n, RxMax)

(* The interrupt is connected before StartDevice allocates the ring.       *)
Isr(n) ==
    /\ connected
    /\ pnp.pc = "connect" => n = 0
    /\ Drain(n)
    /\ polled' = TRUE
    /\ UNCHANGED <<done, queue, dpc, connected, pnp>> /\ DispatchUnchanged

DpcStarts(c, n) ==
    /\ polled /\ dpc[c].pc = "idle"
    /\ polled' = FALSE
    /\ pnp.pc \in {"connect", "stopped", "deleted"} => n = 0
    /\ Drain(n)
    /\ dpc' = [dpc EXCEPT ![c] = [IdleDpc EXCEPT !.pc = "reads"]]
    /\ UNCHANGED <<done, queue, connected, pnp>> /\ DispatchUnchanged

(* The head of ReadQueue gets what the ring holds, if it can be mapped.    *)
DpcTakes(c) ==
    /\ LockFree /\ dpc[c].pc = "reads" /\ queue # <<>>
    /\ queue' = Tail(queue)
    /\ \E mapped \in BOOLEAN :
          /\ \/ mapped /\ \E copied \in 1 .. avail : avail' = avail - copied
             \/ (mapped => avail = 0) /\ avail' = avail
          /\ dpc' = [dpc EXCEPT ![c] = [pc |-> "complete", irp |-> Head(queue),
                                        n |-> IF mapped THEN @.n + 1 ELSE @.n]]
    /\ UNCHANGED <<done, line, polled, connected, pnp>> /\ DispatchUnchanged

DpcCompletes(c) ==
    /\ dpc[c].pc = "complete"
    /\ CompleteIrp(dpc[c].irp)
    /\ dpc' = [dpc EXCEPT ![c] = IF @.n >= CompletionLimit THEN IdleDpc
                                 ELSE [@ EXCEPT !.pc = "reads", !.irp = NoIrp]]
    /\ UNCHANGED <<queue, avail, line, polled, connected, pnp>> /\ DispatchUnchanged

DpcEnds(c) ==
    /\ LockFree /\ dpc[c].pc = "reads" /\ queue = <<>>
    /\ dpc' = [dpc EXCEPT ![c] = IdleDpc]
    /\ UNCHANGED <<done, queue, avail, line, polled, connected, pnp>> /\ DispatchUnchanged
-----------------------------------------------------------------------------
PnpGoto(pc, r) == pnp' = [pnp EXCEPT !.pc = pc, !.irp = r]

(* UARTCTRL_StopDevice, first half: disconnect the interrupt, unmap.       *)
StopDisconnects(op) ==
    /\ \/ pnp.pc = "running" /\ op \in {"stop", "surprise", "remove"}
       \/ pnp.pc = "stopped" /\ op = "remove"
       \/ pnp.pc = "stopped" /\ pnp.op = "stop" /\ op = "surprise"
    /\ pnp' = [op |-> op, pc |-> "flush", irp |-> NoIrp]
    /\ connected' = FALSE
    /\ UNCHANGED <<done, queue, avail, line, polled, dpc>> /\ DispatchUnchanged

StopTakes ==
    /\ pnp.pc = "flush" /\ queue # <<>>
    /\ queue' = Tail(queue)
    /\ PnpGoto("flushing", Head(queue))
    /\ UNCHANGED <<done, avail, line, polled, dpc, connected>> /\ DispatchUnchanged

StopCompletes ==
    /\ pnp.pc = "flushing"
    /\ CompleteIrp(pnp.irp)
    /\ PnpGoto("flush", NoIrp)
    /\ UNCHANGED <<queue, avail, line, polled, dpc, connected>> /\ DispatchUnchanged

(* Mutant of StopFlushed: one IRP is flushed, not all of them.             *)
StopFlushedEarly ==
    /\ pnp.pc = "flush"
    /\ PnpGoto("free", NoIrp)
    /\ UNCHANGED <<done, queue, avail, line, polled, dpc, connected>> /\ DispatchUnchanged

StopFlushed ==
    /\ pnp.pc = "flush" /\ queue = <<>>
    /\ PnpGoto("free", NoIrp)
    /\ UNCHANGED <<done, queue, avail, line, polled, dpc, connected>> /\ DispatchUnchanged

(* Second half: the buffers go, and with them the bytes.                   *)
StopFrees ==
    /\ pnp.pc = "free"
    /\ avail' = 0
    /\ PnpGoto(IF pnp.op = "remove" THEN "purge" ELSE "stopped", NoIrp)
    /\ UNCHANGED <<done, queue, line, polled, dpc, connected>> /\ DispatchUnchanged

(* IRP_MN_REMOVE_DEVICE flushes once more.                                 *)
RemoveTakes ==
    /\ pnp.pc = "purge" /\ queue # <<>>
    /\ queue' = Tail(queue)
    /\ PnpGoto("purging", Head(queue))
    /\ UNCHANGED <<done, avail, line, polled, dpc, connected>> /\ DispatchUnchanged

RemoveCompletes ==
    /\ pnp.pc = "purging"
    /\ CompleteIrp(pnp.irp)
    /\ PnpGoto("purge", NoIrp)
    /\ UNCHANGED <<queue, avail, line, polled, dpc, connected>> /\ DispatchUnchanged

RemoveDeletes ==
    /\ pnp.pc = "purge" /\ queue = <<>>
    /\ PnpGoto("deleted", NoIrp)
    /\ UNCHANGED <<done, queue, avail, line, polled, dpc, connected>> /\ DispatchUnchanged

StartConnects ==
    /\ pnp.pc = "stopped" /\ pnp.op = "stop"
    /\ pnp' = [op |-> "start", pc |-> "connect", irp |-> NoIrp]
    /\ connected' = TRUE
    /\ UNCHANGED <<done, queue, avail, line, polled, dpc>> /\ DispatchUnchanged

(* KeInitializeDpc may forget a queued DPC; InitializeListHead forgets the *)
(* reads that were parked while the device was stopped.                    *)
StartInitializes ==
    /\ pnp.pc = "connect"
    /\ polled' \in {polled, FALSE}
    /\ queue' = <<>>
    /\ avail' = 0
    /\ PnpGoto("running", NoIrp)
    /\ UNCHANGED <<done, line, dpc, connected>> /\ DispatchUnchanged
-----------------------------------------------------------------------------
ReadStep(r) ==
    \/ Read(r) \/ ReadFails(r) \/ ReadCopies(r) \/ ReadFindsNothing(r)
    \/ ReadArmsCancel(r) \/ ReadQueues(r)

CancelRoutine(r) == CancelFinds(r) \/ CancelMisses(r) \/ CancelCompletes(r)

DpcRoutine(c) == DpcTakes(c) \/ DpcCompletes(c) \/ DpcEnds(c)

StopDevice == StopTakes \/ StopCompletes \/ StopFlushed \/ StopFrees

RemoveDevice == RemoveTakes \/ RemoveCompletes \/ RemoveDeletes

Next ==
    \/ \E r \in Irp : ReadStep(r) \/ IoCancelIrp(r) \/ CancelRoutine(r)
    \/ \E n \in 0 .. MaxBytes : Isr(n) \/ \E c \in Cpu : DpcStarts(c, n)
    \/ \E c \in Cpu : DpcRoutine(c)
    \/ \E op \in Request : StopDisconnects(op)
    \/ StopDevice \/ RemoveDevice \/ StartConnects \/ StartInitializes

(* A routine that runs goes on; nobody has to send anything.               *)
Fairness ==
    /\ \A r \in Irp : WF_vars(CancelRoutine(r))
    /\ \A c \in Cpu : WF_vars(DpcRoutine(c))
    /\ WF_vars(StopDevice) /\ WF_vars(RemoveDevice)

Spec == Init /\ [][Next]_vars /\ Fairness
-----------------------------------------------------------------------------
Held(r) ==
    \/ cancel[r] = "found"
    \/ pnp.irp = r
    \/ \E c \in Cpu : dpc[c].irp = r

(* No IRP is in ReadQueue twice, and an IRP in it is neither completed, nor*)
(* being completed by the DPC, the cancel routine or the PnP thread, nor   *)
(* still in the hands of its dispatch routine.                             *)
QueuedAreLive ==
    /\ \A i, j \in DOMAIN queue : queue[i] = queue[j] => i = j
    /\ \A i \in DOMAIN queue :
          /\ disp[queue[i]] = "returned"
          /\ done[queue[i]] = 0
          /\ ~Held(queue[i])

IrpState ==
    [r \in Irp |->
        IF done[r] > 1 THEN "completed twice"
        ELSE IF done[r] = 1 THEN "completed"
        ELSE IF disp[r] = "none" THEN "free"
        ELSE IF disp[r] = "returned" /\ ~Held(r) THEN "parked"
        ELSE "owned"]

Irps == INSTANCE IrpContract WITH state <- IrpState

(* Whatever the interleaving of dispatch routine, DPC, cancel routine, stop*)
(* and remove, each read IRP is handled as IrpContract promises.           *)
HonoursContract == Irps!Spec

(* A read that waits while UARTCTRL_StopDevice flushes is completed, by it *)
(* or by whoever was faster.                                               *)
StopFlushes ==
    \A r \in Irp : (pnp.pc = "flush" /\ Queued(r)) ~> done[r] > 0

(* A read whose cancel routine has run does not wait any longer            *)
(* ("cancel-safe queue for read IRPs", uartctrl_ext.h).                    *)
CancelSafe == \A r \in Irp : cancel[r] = "missed" => ~Queued(r)
=============================================================================
