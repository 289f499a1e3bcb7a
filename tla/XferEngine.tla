----------------------------- MODULE XferEngine -----------------------------
(***************************************************************************)
(* The transfer engine of i2cctrl: one transfer context XferCtx shared by  *)
(*   - the queue DPC, which takes a request out of QosQueues and starts it,*)
(*   - the timeout DPC, which retries or fails the active request,         *)
(*   - the interrupt and its DPC, which completes it,                      *)
(*   - a thread in IOCTL_SEQUENCE, which borrows the context for a         *)
(*     synchronous transfer, and                                           *)
(*   - the PnP thread in IRP_MN_STOP_DEVICE and StartDevice.               *)
(* Steps are as large as the code's QueueLock regions and unlocked stores  *)
(* allow.  A KDPC is an element of kdpc while it is queued and may run on  *)
(* any CPU that runs no other DPC; two CPUs can run the same routine.      *)
(* Interrupt masking is left out: a shared line calls the ISR regardless.  *)
(***************************************************************************)
EXTENDS QosQueues, FiniteSets

CONSTANTS
    Priority,         \* the priorities requests are inserted with
    Cpu,              \* processors that run DPCs
    MaxRetries,       \* MaxRetries of the device extension
    NoIrp,            \* XferCtx.Irp == NULL
    MaxInterrupts,    \* bound: interrupts the controller raises
    MaxSequences,     \* bound: IOCTL_SEQUENCE calls
    MaxStops          \* bound: IRP_MN_STOP_DEVICE requests

ASSUME EngineAssumption ==
    /\ Priority \subseteq Class
    /\ MaxRetries \in Nat
    /\ NoIrp \notin Request

VARIABLES
    inserted,         \* requests handed to I2cCtrl_QueueInsert so far
    done,             \* per request, who completed its IRP, in order
    started, stopping,\* Started and Stopping of the device extension
    busy,             \* ActiveBusy
    xc,               \* XferCtx: irp, buf (Buffer and lengths), status, retry, completed
    timer,            \* XferCtx.TimeoutTimer: "off", or the KDPC it will queue
    kdpc,             \* queued KDPCs: QueueDpc, XferCtx.TimeoutDpc, TimeoutDpc
    isrDpc,           \* snapshot IsrDpc is queued with, or "none"
    cpu,              \* per CPU, the DPC it runs: its next step and its irp
    event,            \* TransferEvent signalled
    seq,              \* the IOCTL_SEQUENCE thread
    pnp,              \* the PnP thread: its next step and its irp
    flushed,          \* CPUs that KeFlushQueuedDpcs has seen idle
    count             \* history for the bounds: interrupts, sequences, stops

vars == <<queue, burst, inserted, done, started, stopping, busy, xc, timer, kdpc,
          isrDpc, cpu, event, seq, pnp, flushed, count>>

Actor == {"drain", "finish", "timeout", "isr", "stop"}

Idle == [pc |-> "idle", irp |-> NoIrp]

ZeroXc == [irp |-> NoIrp, buf |-> "none", status |-> "SUCCESS", retry |-> 0,
           completed |-> FALSE]

DpcPc == {"idle", "drain", "drained", "pick", "zero", "arm", "timer", "issue",
          "cancel", "finish", "timeout", "retry", "timedOut", "notReady", "failed",
          "isr", "cas", "xchg"}

PnpPc == {"running", "marked", "removed", "disconnected", "quiesced", "flush",
          "cancel", "fence", "complete", "reset", "stopped"}

TypeOK ==
    /\ QTypeOK
    /\ inserted \subseteq Request
    /\ done \in [Request -> Seq(Actor)]
    /\ {started, stopping, busy, event} \subseteq BOOLEAN
    /\ xc \in [irp : Request \cup {NoIrp}, buf : {"none", "set", "ready"}, retry : Nat,
               completed : BOOLEAN,
               status : {"SUCCESS", "PENDING", "TIMEOUT", "ERROR", "CANCELLED",
                         "NOT_READY"}]
    /\ timer \in {"off", "xcTimeout", "fdoTimeout"}
    /\ kdpc \subseteq {"queue", "xcTimeout", "fdoTimeout"}
    /\ isrDpc \in {"none", "STOP", "ABORT", "OTHER"}
    /\ cpu \in [Cpu -> [pc : DpcPc, irp : Request \cup {NoIrp}]]
    /\ seq \in {"idle", "set", "wait"}
    /\ pnp \in [pc : PnpPc, irp : Request \cup {NoIrp}]
    /\ flushed \subseteq Cpu
    /\ count \in [interrupts : Nat, sequences : Nat, stops : Nat]

Init ==
    /\ QInit
    /\ inserted = {}
    /\ done = [r \in Request |-> <<>>]
    /\ started = TRUE /\ stopping = FALSE /\ busy = FALSE /\ event = FALSE
    /\ xc = ZeroXc
    /\ timer = "off"
    /\ kdpc = {} /\ isrDpc = "none"
    /\ cpu = [c \in Cpu |-> Idle]
    /\ seq = "idle"
    /\ pnp = [pc |-> "running", irp |-> NoIrp] /\ flushed = {}
    /\ count = [interrupts |-> 0, sequences |-> 0, stops |-> 0]
-----------------------------------------------------------------------------
At(c, pc) == cpu[c].pc = pc

Goto(c, pc, r) == cpu' = [cpu EXCEPT ![c] = [pc |-> pc, irp |-> r]]

Return(c) == Goto(c, "idle", NoIrp)

CompleteIrp(r, who) == done' = [done EXCEPT ![r] = Append(@, who)]

(* KeInsertQueueDpc: a KDPC already queued stays queued once.              *)
QueueKick == kdpc' = kdpc \cup {"queue"}

(* RtlZeroMemory of XferCtx also wipes its timer: one that was running is  *)
(* forgotten by the driver, but the kernel may still hold it.              *)
ZeroContext == xc' = ZeroXc /\ timer' \in {timer, "off"}

QueueUnchanged == UNCHANGED <<queue, burst, inserted>>
FlagsUnchanged == UNCHANGED <<started, stopping, pnp, flushed, count>>
ThreadUnchanged == UNCHANGED <<seq, event>>
-----------------------------------------------------------------------------
(* I2cCtrl_QueueInsert: append, then kick the queue DPC.                   *)
Insert(r, p) ==
    /\ r \notin inserted
    /\ QueueInsert(r, p)
    /\ inserted' = inserted \cup {r}
    /\ QueueKick
    /\ UNCHANGED <<done, busy, xc, timer, isrDpc, cpu>>
    /\ ThreadUnchanged /\ FlagsUnchanged

StartQueueDpc(c) ==
    /\ At(c, "idle") /\ "queue" \in kdpc
    /\ kdpc' = kdpc \ {"queue"}
    /\ Goto(c, IF started /\ ~stopping THEN "pick" ELSE "drain", NoIrp)
    /\ UNCHANGED <<done, busy, xc, timer, isrDpc>>
    /\ QueueUnchanged /\ ThreadUnchanged /\ FlagsUnchanged

(* Mutant of QueueDpcDrain: it goes on until it finds a request.           *)
QueueDpcDrainSpins(c) ==
    /\ At(c, "drain")
    /\ \E p \in Class, r \in Request : DrainOne(p, r) /\ Goto(c, "drained", r)
    /\ UNCHANGED <<inserted, done, busy, xc, timer, kdpc, isrDpc>>
    /\ ThreadUnchanged /\ FlagsUnchanged

(* A stopping device takes one request per run and cancels it.             *)
QueueDpcDrain(c) ==
    /\ At(c, "drain")
    /\ \/ \E p \in Class, r \in Request : DrainOne(p, r) /\ Goto(c, "drained", r)
       \/ QueuedRequests = {} /\ Return(c) /\ UNCHANGED <<queue, burst>>
    /\ UNCHANGED <<inserted, done, busy, xc, timer, kdpc, isrDpc>>
    /\ ThreadUnchanged /\ FlagsUnchanged

(* Mutant of Detach: ActiveBusy is cleared whoever is active.              *)
DetachBlindly(r) ==
    /\ xc' = [xc EXCEPT !.irp = IF @ = r THEN NoIrp ELSE @]
    /\ busy' = FALSE

(* Under QueueLock, detach r from the context if it is the active irp.     *)
Detach(r) ==
    IF xc.irp = r THEN xc' = [xc EXCEPT !.irp = NoIrp] /\ busy' = FALSE
                  ELSE UNCHANGED <<xc, busy>>

QueueDpcDrained(c) ==
    /\ At(c, "drained")
    /\ Detach(cpu[c].irp)
    /\ CompleteIrp(cpu[c].irp, "drain")
    /\ Return(c)
    /\ UNCHANGED <<timer, kdpc, isrDpc>>
    /\ QueueUnchanged /\ ThreadUnchanged /\ FlagsUnchanged

QueueDpcPick(c) ==
    /\ At(c, "pick")
    /\ \/ \E p \in Class, r \in Request : Pick(p, r) /\ Goto(c, "zero", r)
       \/ (~\E p \in Class : Picked(p)) /\ Return(c) /\ UNCHANGED <<queue, burst>>
    /\ UNCHANGED <<inserted, done, busy, xc, timer, kdpc, isrDpc>>
    /\ ThreadUnchanged /\ FlagsUnchanged

(* The context is wiped before QueueLock is taken ...                      *)
QueueDpcZero(c) ==
    /\ At(c, "zero")
    /\ ZeroContext
    /\ Goto(c, "arm", cpu[c].irp)
    /\ UNCHANGED <<done, busy, kdpc, isrDpc>>
    /\ QueueUnchanged /\ ThreadUnchanged /\ FlagsUnchanged

(* ... and filled in under it, whatever it held before.                    *)
QueueDpcArm(c) ==
    /\ At(c, "arm")
    /\ xc' = [xc EXCEPT !.irp = cpu[c].irp, !.status = "SUCCESS", !.retry = 0]
    /\ busy' = TRUE
    /\ Goto(c, "timer", cpu[c].irp)
    /\ UNCHANGED <<done, timer, kdpc, isrDpc>>
    /\ QueueUnchanged /\ ThreadUnchanged /\ FlagsUnchanged

(* KeInitializeDpc may forget a timeout DPC that is still queued.          *)
QueueDpcTimer(c) ==
    /\ At(c, "timer")
    /\ timer' = "xcTimeout"
    /\ kdpc' \in {kdpc, kdpc \ {"xcTimeout"}}
    /\ Goto(c, "issue", cpu[c].irp)
    /\ UNCHANGED <<done, busy, xc, isrDpc>>
    /\ QueueUnchanged /\ ThreadUnchanged /\ FlagsUnchanged

(* A block transfer the backend accepted is left to complete on its own;   *)
(* a failed one, and an operation answered at once, is finished here.      *)
QueueDpcIssue(c) ==
    /\ At(c, "issue")
    /\ Return(c) \/ Goto(c, "cancel", cpu[c].irp)
    /\ UNCHANGED <<done, busy, xc, timer, kdpc, isrDpc>>
    /\ QueueUnchanged /\ ThreadUnchanged /\ FlagsUnchanged

QueueDpcCancelTimer(c) ==
    /\ At(c, "cancel")
    /\ timer' = "off"
    /\ Goto(c, "finish", cpu[c].irp)
    /\ UNCHANGED <<done, busy, xc, kdpc, isrDpc>>
    /\ QueueUnchanged /\ ThreadUnchanged /\ FlagsUnchanged

QueueDpcFinish(c) ==
    /\ At(c, "finish")
    /\ Detach(cpu[c].irp)
    /\ CompleteIrp(cpu[c].irp, "finish")
    /\ Return(c)
    /\ UNCHANGED <<timer, kdpc, isrDpc>>
    /\ QueueUnchanged /\ ThreadUnchanged /\ FlagsUnchanged
-----------------------------------------------------------------------------
TimerExpires ==
    /\ timer # "off"
    /\ kdpc' = kdpc \cup {timer}
    /\ timer' = "off"
    /\ UNCHANGED <<done, busy, xc, isrDpc, cpu>>
    /\ QueueUnchanged /\ ThreadUnchanged /\ FlagsUnchanged

StartTimeoutDpc(c, k) ==
    /\ At(c, "idle") /\ k \in kdpc \cap {"xcTimeout", "fdoTimeout"}
    /\ kdpc' = kdpc \ {k}
    /\ IF xc.irp # NoIrp /\ busy THEN Goto(c, "timeout", xc.irp) ELSE UNCHANGED cpu
    /\ UNCHANGED <<done, busy, xc, timer, isrDpc>>
    /\ QueueUnchanged /\ ThreadUnchanged /\ FlagsUnchanged

TimeoutDpcDecide(c) ==
    /\ At(c, "timeout")
    /\ timer' = "off"
    /\ Goto(c, IF stopping \/ ~started THEN "notReady"
               ELSE IF xc.retry < MaxRetries THEN "retry" ELSE "timedOut", cpu[c].irp)
    /\ UNCHANGED <<done, busy, xc, kdpc, isrDpc>>
    /\ QueueUnchanged /\ ThreadUnchanged /\ FlagsUnchanged

TimeoutDpcRetry(c) ==
    /\ At(c, "retry")
    /\ xc' = [xc EXCEPT !.retry = @ + 1]
    /\ timer' = "fdoTimeout"
    /\ QueueKick
    /\ Return(c)
    /\ UNCHANGED <<done, busy, isrDpc>>
    /\ QueueUnchanged /\ ThreadUnchanged /\ FlagsUnchanged

(* Mutant of TimeoutDpcFail: the active irp is not looked at again.        *)
TimeoutDpcFailStale(c) ==
    /\ \/ At(c, "timedOut") \/ At(c, "notReady")
    /\ xc' = [xc EXCEPT !.irp = NoIrp, !.status = "TIMEOUT"]
    /\ busy' = FALSE
    /\ Goto(c, "failed", cpu[c].irp)
    /\ UNCHANGED <<done, timer, kdpc, isrDpc>>
    /\ QueueUnchanged /\ ThreadUnchanged /\ FlagsUnchanged

(* Under QueueLock, the irp is failed only if it is still the active one.  *)
TimeoutDpcFail(c) ==
    /\ \/ At(c, "timedOut") \/ At(c, "notReady")
    /\ IF xc.irp = cpu[c].irp
       THEN /\ xc' = [xc EXCEPT !.irp = NoIrp,
                       !.status = IF At(c, "timedOut") THEN "TIMEOUT" ELSE "NOT_READY"]
            /\ busy' = FALSE
            /\ Goto(c, "failed", cpu[c].irp)
       ELSE Return(c) /\ UNCHANGED <<xc, busy>>
    /\ UNCHANGED <<done, timer, kdpc, isrDpc>>
    /\ QueueUnchanged /\ ThreadUnchanged /\ FlagsUnchanged

TimeoutDpcFailed(c) ==
    /\ At(c, "failed")
    /\ event' = TRUE
    /\ CompleteIrp(cpu[c].irp, "timeout")
    /\ Return(c)
    /\ UNCHANGED <<busy, xc, timer, kdpc, isrDpc, seq>>
    /\ QueueUnchanged /\ FlagsUnchanged
-----------------------------------------------------------------------------
Connected == pnp.pc \in {"running", "marked", "removed"}

(* The ISR acknowledges the cause; if its DPC is queued already, the cause *)
(* is dropped with the snapshot.                                           *)
Isr(cause) ==
    /\ Connected /\ started
    /\ count.interrupts < MaxInterrupts
    /\ count' = [count EXCEPT !.interrupts = @ + 1]
    /\ isrDpc' = IF isrDpc = "none" THEN cause ELSE isrDpc
    /\ UNCHANGED <<done, busy, xc, timer, kdpc, cpu, started, stopping, pnp, flushed>>
    /\ QueueUnchanged /\ ThreadUnchanged

(* The interrupt DPC has nothing to complete unless Buffer, Length and     *)
(* BufferLen are set, which only IOCTL_SEQUENCE does.                      *)
StartIsrDpc(c) ==
    /\ At(c, "idle") /\ isrDpc # "none"
    /\ isrDpc' = "none"
    /\ IF started /\ xc.buf = "ready" /\ isrDpc # "OTHER"
       THEN /\ xc' = [xc EXCEPT !.status = IF isrDpc = "STOP" THEN "SUCCESS" ELSE "ERROR"]
            /\ Goto(c, "isr", NoIrp)
       ELSE UNCHANGED <<xc, cpu>>
    /\ UNCHANGED <<done, busy, timer, kdpc>>
    /\ QueueUnchanged /\ ThreadUnchanged /\ FlagsUnchanged

IsrDpcCancelTimer(c) ==
    /\ At(c, "isr")
    /\ timer' = "off"
    /\ Goto(c, "cas", NoIrp)
    /\ UNCHANGED <<done, busy, xc, kdpc, isrDpc>>
    /\ QueueUnchanged /\ ThreadUnchanged /\ FlagsUnchanged

IsrDpcClaim(c) ==
    /\ At(c, "cas")
    /\ xc' = [xc EXCEPT !.completed = TRUE]
    /\ IF xc.completed THEN Return(c) ELSE Goto(c, "xchg", NoIrp)
    /\ UNCHANGED <<done, busy, timer, kdpc, isrDpc>>
    /\ QueueUnchanged /\ ThreadUnchanged /\ FlagsUnchanged

(* The exchange is not under QueueLock and leaves ActiveBusy set; without  *)
(* an irp nobody is told.                                                  *)
IsrDpcComplete(c) ==
    /\ At(c, "xchg")
    /\ xc' = [xc EXCEPT !.irp = NoIrp]
    /\ IF xc.irp # NoIrp THEN CompleteIrp(xc.irp, "isr") /\ event' = TRUE
                         ELSE UNCHANGED <<done, event>>
    /\ Return(c)
    /\ UNCHANGED <<busy, timer, kdpc, isrDpc, seq>>
    /\ QueueUnchanged /\ FlagsUnchanged
-----------------------------------------------------------------------------
(* I2cCtrl_SpbCx_IoctlSequence wipes the context and points it at the      *)
(* caller's buffer without QueueLock ...                                   *)
SequenceSetup ==
    /\ seq = "idle" /\ started /\ ~stopping
    /\ count.sequences < MaxSequences
    /\ count' = [count EXCEPT !.sequences = @ + 1]
    /\ xc' = [ZeroXc EXCEPT !.buf = "set", !.status = "PENDING"]
    /\ timer' \in {timer, "off"}
    /\ seq' = "set"
    /\ UNCHANGED <<done, busy, kdpc, isrDpc, cpu, event, started, stopping, pnp, flushed>>
    /\ QueueUnchanged

(* ... I2cCtrl_StartSequence re-checks it, primes the FIFO and waits ...   *)
SequenceStart ==
    /\ seq = "set"
    /\ IF started /\ ~stopping /\ xc.buf # "none"
       THEN /\ xc' = [xc EXCEPT !.buf = "ready", !.status = "PENDING"]
            /\ event' = FALSE
            /\ seq' = "wait"
       ELSE seq' = "idle" /\ UNCHANGED <<xc, event>>
    /\ UNCHANGED <<done, busy, timer, kdpc, isrDpc, cpu>>
    /\ QueueUnchanged /\ FlagsUnchanged

(* ... for the event or the timeout.                                       *)
SequenceReturn ==
    /\ seq = "wait"
    /\ \/ /\ event
          /\ xc' = [xc EXCEPT !.status = IF @ = "PENDING" THEN "TIMEOUT" ELSE @]
       \/ xc' = [xc EXCEPT !.status = "TIMEOUT"]
    /\ seq' = "idle"
    /\ UNCHANGED <<done, busy, timer, kdpc, isrDpc, cpu, event>>
    /\ QueueUnchanged /\ FlagsUnchanged
-----------------------------------------------------------------------------
PnpStep(from, to) == pnp.pc = from /\ pnp' = [pnp EXCEPT !.pc = to]

(* IRP_MN_STOP_DEVICE in I2cCtrl_FdoDispatch: mark the device stopping,    *)
(* drop the queued DPCs, disconnect the interrupt, then I2cCtrl_StopDevice.*)
StopMark ==
    /\ PnpStep("running", "marked")
    /\ count.stops < MaxStops
    /\ count' = [count EXCEPT !.stops = @ + 1]
    /\ stopping' = TRUE /\ started' = FALSE
    /\ UNCHANGED <<done, busy, xc, timer, kdpc, isrDpc, cpu, flushed>>
    /\ QueueUnchanged /\ ThreadUnchanged

(* KeRemoveQueueDpc of IsrDpc, QueueDpc and TimeoutDpc, done twice.        *)
StopRemoveDpcs ==
    /\ PnpStep("marked", "removed") \/ PnpStep("quiesced", "flush")
    /\ kdpc' = kdpc \ {"queue", "fdoTimeout"}
    /\ isrDpc' = "none"
    /\ UNCHANGED <<done, busy, xc, timer, cpu, started, stopping, flushed, count>>
    /\ QueueUnchanged /\ ThreadUnchanged

StopDisconnect ==
    /\ PnpStep("removed", "disconnected")
    /\ UNCHANGED <<done, busy, xc, timer, kdpc, isrDpc, cpu, started, stopping, flushed, count>>
    /\ QueueUnchanged /\ ThreadUnchanged

StopQuiesce ==
    /\ PnpStep("disconnected", "quiesced")
    /\ busy' = FALSE
    /\ UNCHANGED <<done, xc, timer, kdpc, isrDpc, cpu, started, stopping, flushed, count>>
    /\ QueueUnchanged /\ ThreadUnchanged

(* Mutant of StopFlush: nobody waits for the DPCs.                         *)
StopFlushAtOnce(c) ==
    /\ PnpStep("flush", "cancel")
    /\ UNCHANGED <<done, busy, xc, timer, kdpc, isrDpc, cpu, started, stopping, flushed, count>>
    /\ QueueUnchanged /\ ThreadUnchanged

(* KeFlushQueuedDpcs: each CPU has finished the DPCs queued before it.     *)
StopFlush(c) ==
    /\ pnp.pc = "flush" /\ At(c, "idle") /\ "xcTimeout" \notin kdpc
    /\ c \notin flushed
    /\ IF flushed \cup {c} = Cpu THEN PnpStep("flush", "cancel") /\ flushed' = {}
                                 ELSE flushed' = flushed \cup {c} /\ UNCHANGED pnp
    /\ UNCHANGED <<done, busy, xc, timer, kdpc, isrDpc, cpu, started, stopping, count>>
    /\ QueueUnchanged /\ ThreadUnchanged

StopCancelTimer ==
    /\ PnpStep("cancel", "fence")
    /\ timer' = "off"
    /\ UNCHANGED <<done, busy, xc, kdpc, isrDpc, cpu, started, stopping, flushed, count>>
    /\ QueueUnchanged /\ ThreadUnchanged

(* Under QueueLock, the active irp is taken over for cancellation.         *)
StopFence ==
    /\ pnp.pc = "fence"
    /\ pnp' = [pc |-> "complete", irp |-> xc.irp]
    /\ busy' = FALSE
    /\ xc' = IF xc.irp = NoIrp THEN xc
             ELSE [xc EXCEPT !.irp = NoIrp, !.status = "CANCELLED"]
    /\ UNCHANGED <<done, timer, kdpc, isrDpc, cpu, started, stopping, flushed, count>>
    /\ QueueUnchanged /\ ThreadUnchanged

StopComplete ==
    /\ pnp.pc = "complete"
    /\ pnp' = [pc |-> "reset", irp |-> NoIrp]
    /\ IF pnp.irp # NoIrp THEN CompleteIrp(pnp.irp, "stop") /\ event' = TRUE
                          ELSE UNCHANGED <<done, event>>
    /\ UNCHANGED <<busy, xc, timer, kdpc, isrDpc, cpu, started, stopping, flushed, count, seq>>
    /\ QueueUnchanged

StopReset ==
    /\ PnpStep("reset", "stopped")
    /\ started' = FALSE /\ busy' = FALSE /\ event' = FALSE
    /\ ZeroContext
    /\ UNCHANGED <<done, kdpc, isrDpc, cpu, stopping, flushed, count, seq>>
    /\ QueueUnchanged

StartDevice ==
    /\ PnpStep("stopped", "running")
    /\ started' = TRUE /\ stopping' = FALSE /\ busy' = FALSE /\ event' = FALSE
    /\ ZeroContext
    /\ UNCHANGED <<done, kdpc, isrDpc, cpu, flushed, count, seq>>
    /\ QueueUnchanged
-----------------------------------------------------------------------------
QueueDpc(c) ==
    \/ StartQueueDpc(c) \/ QueueDpcDrain(c) \/ QueueDpcDrained(c)
    \/ QueueDpcPick(c) \/ QueueDpcZero(c) \/ QueueDpcArm(c) \/ QueueDpcTimer(c)
    \/ QueueDpcIssue(c) \/ QueueDpcCancelTimer(c) \/ QueueDpcFinish(c)

TimeoutDpc(c) ==
    \/ \E k \in kdpc : StartTimeoutDpc(c, k)
    \/ TimeoutDpcDecide(c) \/ TimeoutDpcRetry(c) \/ TimeoutDpcFail(c) \/ TimeoutDpcFailed(c)

IsrDpc(c) ==
    \/ StartIsrDpc(c) \/ IsrDpcCancelTimer(c) \/ IsrDpcClaim(c) \/ IsrDpcComplete(c)

Dpc(c) == QueueDpc(c) \/ TimeoutDpc(c) \/ IsrDpc(c)

Sequence == SequenceSetup \/ SequenceStart \/ SequenceReturn

StopDevice ==
    \/ StopRemoveDpcs \/ StopDisconnect \/ StopQuiesce \/ (\E c \in Cpu : StopFlush(c))
    \/ StopCancelTimer \/ StopFence \/ StopComplete \/ StopReset

Next ==
    \/ \E r \in Request, p \in Priority : Insert(r, p)
    \/ \E c \in Cpu : Dpc(c)
    \/ TimerExpires
    \/ \E cause \in {"STOP", "ABORT", "OTHER"} : Isr(cause)
    \/ Sequence
    \/ StopMark \/ StopDevice \/ StartDevice

(* A queued DPC runs, and a routine that has begun goes on.                *)
Fairness ==
    /\ \A c \in Cpu : WF_vars(Dpc(c))
    /\ WF_vars(StopDevice)

Spec == Init /\ [][Next]_vars /\ Fairness
-----------------------------------------------------------------------------
(* A device that has been stopped is quiet: no request is active, no timer *)
(* runs and no queue DPC is on its way into the transfer context, although *)
(* DPCs that were past the Stopping check when the stop began were not     *)
(* removed (I2cCtrl_StopDevice steps 5 and 7).                             *)
StoppedIsQuiet ==
    pnp.pc = "stopped" =>
        /\ xc.irp = NoIrp /\ ~busy /\ timer = "off"
        /\ \A c \in Cpu : cpu[c].pc \notin {"pick", "zero", "arm", "timer", "issue"}

(* The timeout DPC and the stop path race for the active irp, and QueueLock*)
(* makes sure only one of them completes it, and only once.                *)
TimeoutStopExclusive ==
    \A r \in Request :
        Cardinality({i \in DOMAIN done[r] : done[r][i] \in {"timeout", "stop"}}) <= 1

(* On a running device an active irp is never without ActiveBusy: the      *)
(* timeout DPC would ignore it and it would hang for ever.                 *)
BusyWhileActive == xc.irp # NoIrp /\ ~stopping => busy

(* A stop once begun gets through the DPC flush and the fence, whatever the*)
(* DPCs it waits for are doing.                                            *)
StopTerminates == pnp.pc = "marked" ~> pnp.pc = "stopped"

(* No irp is completed twice ("This ensures ISR/DPC/worker paths remain    *)
(* race-free", i2cctrl_readme.md).                                         *)
CompletedOnce == \A r \in Request : Len(done[r]) <= 1

(* A request taken out of its queue is in the hands of somebody who will   *)
(* complete it until it is completed ("safe, serialized transfer engine"). *)
Held(r) ==
    \/ r \in QueuedRequests \/ xc.irp = r \/ pnp.irp = r
    \/ \E c \in Cpu : cpu[c].irp = r

NoLostIrp == \A r \in inserted : done[r] = <<>> => Held(r)
=============================================================================
