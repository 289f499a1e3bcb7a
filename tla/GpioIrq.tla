------------------------------ MODULE GpioIrq ------------------------------
(***************************************************************************)
(* gpioctrl on a multiprocessor kernel: the ISR latches INT_STAT into      *)
(* PendingIntMask and queues IsrDpc, which drains the mask and logs each   *)
(* pin; pin IOCTLs read and modify registers; the PnP thread starts, stops *)
(* and removes the device.  RegLock is both the interrupt's own spin lock  *)
(* and the lock of DPC and IOCTLs; IsrLogLock guards the log.  A processor *)
(* runs its ISR on top of whatever it was doing (low), lock or no lock.    *)
(* Registers keep their contents while the device is stopped.  A thread    *)
(* that spins for a lock is the step that takes it, not yet taken.         *)
(***************************************************************************)
EXTENDS Naturals

CONSTANTS
    Pin,              \* pins, each one bit of the registers
    Cpu, NoCpu,       \* processors, and no processor
    Caller,           \* threads that send pin IOCTLs, one each
    LogSize,          \* GPIOCTRL_LOG_SIZE
    MaxFires,         \* bound: how often a pin's interrupt condition arises
    MaxStarts         \* bound: IRP_MN_START_DEVICE requests

ASSUME GpioAssumption ==
    /\ NoCpu \notin Cpu
    /\ LogSize \in Nat \ {0} /\ MaxFires \in Nat /\ MaxStarts \in Nat

VARIABLES
    stat, inten, out, \* INT_STAT, INT_EN and DATA_OUT, as sets of pins
    mapped,           \* MmioBase is not NULL
    connected,        \* InterruptConnected
    started,          \* Started
    pending,          \* PendingIntMask
    dpcOn,            \* the processor IsrDpc is queued on
    regLock, logLock, \* the processors that hold RegLock and IsrLogLock
    isr,              \* per processor, its ISR: step and the pins it read
    low,              \* per processor, what runs below: step and the DPC's mask
    call,             \* per caller, its IOCTL: step, request, processor, register read
    logged,           \* IsrLogHead - IsrLogTail
    pnp,              \* the PnP thread: step, whether removing, starts so far
    fires,            \* pin events so far
    owed, stranded,   \* history: pins acknowledged but not logged; a queued DPC was removed
    wrote             \* history: the pins last written high

device == <<stat, inten, out, fires>>
locks == <<regLock, logLock>>
power == <<mapped, connected, started, pnp>>
latch == <<pending, dpcOn>>
ghost == <<owed, stranded, wrote>>
vars == <<device, power, latch, locks, isr, low, call, logged, ghost>>

IsrSteps == {"no", "spin", "log", "ack"}
LowSteps == {"idle", "spin", "drain", "mask", "pins", "call"}
CallSteps == {"new", "ready", "locked", "read", "done"}
PnpSteps == {"stopped", "mapped", "cleared", "enabled", "connected", "up",
             "stop", "dpcRemoved", "disconnected", "unmapped", "flush", "deleted"}
Ops == [kind : {"write", "configure"}, pin : Pin, high : BOOLEAN]
NoOp == [kind |-> "none"]
Request(step, o, c, value) == [at |-> step, op |-> o, cpu |-> c, reg |-> value]

(* Everything has its type; the log never holds more entries than it has   *)
(* room for (gpioctrl_isr.c:71).                                           *)
TypeOK ==
    /\ stat \subseteq Pin /\ inten \subseteq Pin /\ out \subseteq Pin
    /\ fires \in 0..MaxFires
    /\ mapped \in BOOLEAN /\ connected \in BOOLEAN /\ started \in BOOLEAN
    /\ pnp \in [at : PnpSteps, removing : BOOLEAN, starts : 0..MaxStarts]
    /\ pending \subseteq Pin /\ dpcOn \in Cpu \cup {NoCpu}
    /\ regLock \in Cpu \cup {NoCpu} /\ logLock \in Cpu \cup {NoCpu}
    /\ isr \in [Cpu -> [at : IsrSteps, bits : SUBSET Pin]]
    /\ low \in [Cpu -> [at : LowSteps, bits : SUBSET Pin]]
    /\ call \in [Caller -> [at : CallSteps, op : Ops \cup {NoOp},
                             cpu : Cpu \cup {NoCpu}, reg : SUBSET Pin]]
    /\ logged \in 0..LogSize
    /\ owed \subseteq Pin /\ stranded \in BOOLEAN /\ wrote \subseteq Pin

NoIsr == [at |-> "no", bits |-> {}]
Idle == [at |-> "idle", bits |-> {}]

Init ==
    /\ stat = {} /\ inten = {} /\ out = {} /\ fires = 0
    /\ mapped = FALSE /\ connected = FALSE /\ started = FALSE
    /\ pnp = [at |-> "stopped", removing |-> FALSE, starts |-> 0]
    /\ pending = {} /\ dpcOn = NoCpu
    /\ regLock = NoCpu /\ logLock = NoCpu
    /\ isr = [c \in Cpu |-> NoIsr]
    /\ low = [c \in Cpu |-> Idle]
    /\ call = [k \in Caller |-> Request("new", NoOp, NoCpu, {})]
    /\ logged = 0
    /\ owed = {} /\ stranded = FALSE /\ wrote = {}

-----------------------------------------------------------------------------
(* The hardware and the log.                                               *)

PinFires(p) ==
    /\ fires < MaxFires /\ p \in inten \ stat
    /\ fires' = fires + 1
    /\ stat' = stat \cup {p}
    /\ UNCHANGED <<inten, out, power, latch, locks, isr, low, call, logged, ghost>>

AfterLog(n) == IF n + 1 > LogSize THEN n ELSE n + 1

(* The ISR is on c: what runs below it does not go on.                     *)
Preempted(c) == isr[c].at # "no"

-----------------------------------------------------------------------------
(* GpioCtrl_Isr.  The line is shared, so it is called whatever INT_STAT    *)
(* says.  The kernel takes RegLock around it.                              *)

IsrArrives(c) ==
    /\ connected /\ isr[c].at = "no"
    /\ isr' = [isr EXCEPT ![c].at = "spin"]
    /\ UNCHANGED <<device, power, latch, locks, low, call, logged, ghost>>

IsrNotMine(c) ==
    /\ isr[c].at = "spin" /\ regLock = NoCpu
    /\ ~started \/ ~mapped \/ stat = {}
    /\ isr' = [isr EXCEPT ![c] = NoIsr]
    /\ UNCHANGED <<device, power, latch, locks, low, call, logged, ghost>>

IsrReads(c) ==
    /\ isr[c].at = "spin" /\ regLock = NoCpu
    /\ started /\ mapped /\ stat # {}
    /\ regLock' = c
    /\ isr' = [isr EXCEPT ![c] = [at |-> "log", bits |-> stat]]
    /\ UNCHANGED <<device, power, latch, logLock, low, call, logged, ghost>>

IsrLogs(c) ==
    /\ isr[c].at = "log" /\ logLock = NoCpu
    /\ logged' = AfterLog(logged)
    /\ isr' = [isr EXCEPT ![c].at = "ack"]
    /\ UNCHANGED <<device, power, latch, locks, low, call, ghost>>

LatchOverwrites(old, bits) == bits
Latch(old, bits) == old \cup bits

IsrLatches(c) ==
    /\ isr[c].at = "ack"
    /\ stat' = stat \ isr[c].bits
    /\ pending' = Latch(pending, isr[c].bits)
    /\ dpcOn' = IF dpcOn = NoCpu THEN c ELSE dpcOn
    /\ owed' = owed \cup isr[c].bits
    /\ regLock' = NoCpu
    /\ isr' = [isr EXCEPT ![c] = NoIsr]
    /\ UNCHANGED <<inten, out, fires, power, logLock, low, call, logged, stranded, wrote>>

-----------------------------------------------------------------------------
(* GpioCtrl_Dpc.  One that outlives the device object goes on as before.   *)

DpcRuns(c) ==
    /\ dpcOn = c /\ low[c].at = "idle" /\ ~Preempted(c)
    /\ dpcOn' = NoCpu
    /\ low' = [low EXCEPT ![c].at = "spin"]
    /\ UNCHANGED <<device, power, pending, locks, isr, call, logged, ghost>>

DpcLocks(c) ==
    /\ low[c].at = "spin" /\ ~Preempted(c) /\ regLock = NoCpu
    /\ regLock' = c
    /\ low' = [low EXCEPT ![c].at = "drain"]
    /\ UNCHANGED <<device, power, latch, logLock, isr, call, logged, ghost>>

TakenOnePin(mask) == {CHOOSE p \in mask : TRUE}
Taken(mask) == mask

DpcDrains(c) ==
    /\ low[c].at = "drain" /\ ~Preempted(c)
    /\ IF pending = {}
       THEN low' = [low EXCEPT ![c] = Idle] /\ UNCHANGED pending
       ELSE /\ low' = [low EXCEPT ![c] = [at |-> "mask", bits |-> Taken(pending)]]
            /\ pending' = pending \ Taken(pending)
    /\ stranded' = FALSE
    /\ regLock' = NoCpu
    /\ UNCHANGED <<device, power, dpcOn, logLock, isr, call, logged, owed, wrote>>

DpcLogLocks(c) ==
    /\ low[c].at \in {"mask", "pins"} /\ ~Preempted(c) /\ logLock = NoCpu
    /\ logLock' = c
    /\ UNCHANGED <<device, power, latch, regLock, isr, low, call, logged, ghost>>

DpcLogsMask(c) ==
    /\ low[c].at = "mask" /\ logLock = c /\ ~Preempted(c)
    /\ logged' = AfterLog(logged) /\ logLock' = NoCpu
    /\ low' = [low EXCEPT ![c].at = "pins"]
    /\ UNCHANGED <<device, power, latch, regLock, isr, call, ghost>>

(* The order of the pins is left open.                                     *)
DpcLogsPin(c, p) ==
    /\ low[c].at = "pins" /\ logLock = c /\ ~Preempted(c)
    /\ p \in low[c].bits
    /\ logged' = AfterLog(logged) /\ logLock' = NoCpu
    /\ low' = [low EXCEPT ![c] =
                 IF @.bits = {p} THEN Idle ELSE [at |-> "pins", bits |-> @.bits \ {p}]]
    /\ owed' = owed \ {p}
    /\ UNCHANGED <<device, power, latch, regLock, isr, call, stranded, wrote>>

-----------------------------------------------------------------------------
(* GpioCtrl_IoctlWritePin and GpioCtrl_IoctlConfigurePin.  A caller that   *)
(* finds the registers unmapped stops the machine; here it stays put.      *)

CallValidates(k, o) ==
    /\ call[k].at = "new" /\ ~pnp.removing
    /\ started /\ mapped
    /\ call' = [call EXCEPT ![k] = Request("ready", o, NoCpu, {})]
    /\ UNCHANGED <<device, power, latch, locks, isr, low, logged, ghost>>

CallLocksNot(k, c) ==
    /\ call[k].at = "ready" /\ low[c].at = "idle" /\ ~Preempted(c)
    /\ regLock' = c
    /\ low' = [low EXCEPT ![c].at = "call"]
    /\ call' = [call EXCEPT ![k] = Request("locked", @.op, c, {})]
    /\ UNCHANGED <<device, power, latch, logLock, isr, logged, ghost>>

CallLocks(k, c) ==
    /\ call[k].at = "ready" /\ low[c].at = "idle" /\ ~Preempted(c)
    /\ regLock = NoCpu
    /\ regLock' = c
    /\ low' = [low EXCEPT ![c].at = "call"]
    /\ call' = [call EXCEPT ![k] = Request("locked", @.op, c, {})]
    /\ UNCHANGED <<device, power, latch, logLock, isr, logged, ghost>>

CallReads(k) ==
    /\ call[k].at = "locked" /\ ~Preempted(call[k].cpu) /\ mapped
    /\ call' = [call EXCEPT ![k] =
         Request("read", @.op, @.cpu, IF @.op.kind = "write" THEN out ELSE inten)]
    /\ UNCHANGED <<device, power, latch, locks, isr, low, logged, ghost>>

WithPin(reg, o) == IF o.high THEN reg \cup {o.pin} ELSE reg \ {o.pin}

CallWrites(k) ==
    LET o == call[k].op IN
    /\ call[k].at = "read" /\ ~Preempted(call[k].cpu) /\ mapped
    /\ \/ /\ o.kind = "write"
          /\ out' = WithPin(call[k].reg, o) /\ wrote' = WithPin(wrote, o)
          /\ UNCHANGED <<inten, stat>>
       \/ /\ o.kind = "configure"
          /\ inten' = WithPin(call[k].reg, o) /\ stat' = stat \ {o.pin}
          /\ UNCHANGED <<out, wrote>>
    /\ regLock' = NoCpu
    /\ low' = [low EXCEPT ![call[k].cpu] = Idle]
    /\ call' = [call EXCEPT ![k] = Request("done", NoOp, NoCpu, {})]
    /\ UNCHANGED <<fires, power, latch, logLock, isr, logged, owed, stranded>>

-----------------------------------------------------------------------------
(* GpioCtrl_StartDevice.                                                   *)

PnpGoes(from, to) == pnp.at = from /\ pnp' = [pnp EXCEPT !.at = to]

(* Without a memory resource the device starts unmapped; if the mapping    *)
(* fails, StartDevice returns and nothing has changed.                     *)
StartMaps ==
    /\ pnp.at = "stopped" /\ pnp.starts < MaxStarts
    /\ pnp' = [at |-> "mapped", removing |-> FALSE, starts |-> pnp.starts + 1]
    /\ mapped' \in BOOLEAN
    /\ UNCHANGED <<device, connected, started, latch, locks, isr, low, call, logged, ghost>>

StartClears ==
    /\ PnpGoes("mapped", "cleared") /\ regLock = NoCpu
    /\ IF mapped THEN inten' = {} /\ stat' = {} ELSE UNCHANGED <<inten, stat>>
    /\ UNCHANGED <<out, fires, mapped, connected, started, latch, locks, isr, low, call, logged, ghost>>

StartEnables ==
    /\ PnpGoes("cleared", "enabled") /\ regLock = NoCpu
    /\ IF mapped THEN inten' = Pin /\ stat' = {} ELSE UNCHANGED <<inten, stat>>
    /\ UNCHANGED <<out, fires, mapped, connected, started, latch, locks, isr, low, call, logged, ghost>>

(* No vector, or IoConnectInterrupt failed: the device starts all the same. *)
StartConnects ==
    /\ PnpGoes("enabled", "connected")
    /\ connected' \in BOOLEAN
    /\ UNCHANGED <<device, mapped, started, latch, locks, isr, low, call, logged, ghost>>

StartFinishes ==
    /\ PnpGoes("connected", "up")
    /\ started' = TRUE
    /\ UNCHANGED <<device, mapped, connected, latch, locks, isr, low, call, logged, ghost>>

-----------------------------------------------------------------------------
(* GpioCtrl_StopDevice and GpioCtrl_RemoveDevice.                          *)

StopBegins ==
    /\ PnpGoes("up", "stop")
    /\ UNCHANGED <<device, mapped, connected, started, latch, locks, isr, low, call, logged, ghost>>

(* The I/O manager sends the request when all handles are closed.  One     *)
(* controller profile masks all interrupts first.                          *)
RemoveBegins ==
    /\ pnp.at \in {"up", "stopped"}
    /\ \A k \in Caller : call[k].at \in {"new", "done"}
    /\ pnp' = [at |-> IF started THEN "stop" ELSE "flush", removing |-> TRUE,
               starts |-> pnp.starts]
    /\ \/ UNCHANGED inten
       \/ mapped /\ regLock = NoCpu /\ inten' = {}
    /\ UNCHANGED <<stat, out, fires, mapped, connected, started, latch, locks, isr, low, call, logged, ghost>>

StopRemovesDpc ==
    /\ PnpGoes("stop", "dpcRemoved")
    /\ dpcOn' = NoCpu
    /\ stranded' = IF dpcOn = NoCpu THEN stranded ELSE TRUE
    /\ UNCHANGED <<device, mapped, connected, started, pending, locks, isr, low, call, logged, owed, wrote>>

(* IoDisconnectInterrupt waits for the ISR.                                *)
StopDisconnects ==
    /\ PnpGoes("dpcRemoved", "disconnected")
    /\ connected => \A c \in Cpu : isr[c].at = "no"
    /\ connected' = FALSE
    /\ UNCHANGED <<device, mapped, started, latch, locks, isr, low, call, logged, ghost>>

StopUnmapsConnected ==
    /\ pnp.at \in {"dpcRemoved", "disconnected"} /\ pnp' = [pnp EXCEPT !.at = "unmapped"]
    /\ mapped' = FALSE
    /\ UNCHANGED <<device, connected, started, latch, locks, isr, low, call, logged, ghost>>

StopUnmaps ==
    /\ PnpGoes("disconnected", "unmapped")
    /\ mapped' = FALSE
    /\ UNCHANGED <<device, connected, started, latch, locks, isr, low, call, logged, ghost>>

StopFinishes ==
    /\ PnpGoes("unmapped", IF pnp.removing THEN "flush" ELSE "stopped")
    /\ started' = FALSE
    /\ UNCHANGED <<device, mapped, connected, latch, locks, isr, low, call, logged, ghost>>

(* GpioCtrl_FlushIsrLog, then the device object goes.                      *)
RemoveFlushes ==
    /\ PnpGoes("flush", "deleted") /\ logLock = NoCpu
    /\ logged' = 0
    /\ UNCHANGED <<device, mapped, connected, started, latch, locks, isr, low, call, ghost>>

-----------------------------------------------------------------------------
Isr(c) == IsrArrives(c) \/ IsrNotMine(c) \/ IsrReads(c) \/ IsrLogs(c) \/ IsrLatches(c)

Dpc(c) ==
    \/ DpcRuns(c) \/ DpcLocks(c) \/ DpcDrains(c) \/ DpcLogLocks(c) \/ DpcLogsMask(c)
    \/ \E p \in Pin : DpcLogsPin(c, p)

Call(k) ==
    \/ \E o \in Ops : CallValidates(k, o)
    \/ \E c \in Cpu : CallLocks(k, c)
    \/ CallReads(k) \/ CallWrites(k)

Pnp ==
    \/ StartMaps \/ StartClears \/ StartEnables \/ StartConnects \/ StartFinishes
    \/ StopBegins \/ RemoveBegins \/ StopRemovesDpc \/ StopDisconnects \/ StopUnmaps
    \/ StopFinishes \/ RemoveFlushes

Next ==
    \/ \E p \in Pin : PinFires(p)
    \/ \E c \in Cpu : Isr(c) \/ Dpc(c)
    \/ \E k \in Caller : Call(k)
    \/ Pnp

Spec == Init /\ [][Next]_vars

-----------------------------------------------------------------------------
DpcActive(c) == low[c].at \in {"spin", "drain", "mask", "pins"}

(* A pin whose interrupt was acknowledged in hardware is in PendingIntMask *)
(* or in the mask of a running DPC until a DPC has logged it: the device   *)
(* itself no longer remembers it (gpioctrl_isr.c:107-110, 141-142).        *)
NoPinForgotten ==
    owed \subseteq pending \cup UNION {low[c].bits : c \in Cpu}

(* While pins are latched, a DPC is queued or on its way to drain them,    *)
(* unless StopDevice has taken a queued DPC away (gpioctrl.c:887).         *)
LatchedIsServed ==
    pending # {} => \/ dpcOn # NoCpu
                    \/ \E c \in Cpu : low[c].at \in {"spin", "drain"}
                    \/ stranded

(* The ISR never touches registers that StopDevice has unmapped: its check *)
(* of MmioBase is no protection, the disconnection before it is            *)
(* (gpioctrl.c:910, 967).                                                  *)
IsrMapped == \A c \in Cpu : isr[c].at \in {"log", "ack"} => mapped

(* Writes of different pins do not undo each other: DATA_OUT is what the   *)
(* completed writes asked for, pin by pin (gpioctrl_io.c:134-142).         *)
PinsAsWritten == out = wrote

(* "Cancel ISR DPC (this prevents BugCheck 0xCE)" (gpioctrl.c:884): no DPC *)
(* is left to run when the device object is deleted.                       *)
NoDpcAfterRemove ==
    pnp.at = "deleted" => dpcOn = NoCpu /\ \A c \in Cpu : ~DpcActive(c)
=============================================================================
