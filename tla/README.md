# Verification of I2C-Controller-XP

TLA+ models, TLC configurations and TLAPS proofs for the Windows XP/2003 WDM
drivers of this repository: `i2cctrl` (I²C/SMBus bus driver), `uartctrl`,
`gpioctrl`, `i2chid` and `i2cctrl_emulator`.  What makes these drivers hard is
not what they compute but who runs when: an interrupt service routine, DPCs on
several processors, timers, cancel routines, dispatch routines and the PnP
thread share a device extension, protected here by a spin lock and there by
nothing.  The models are therefore about control: which step touches which
shared field under which lock, and who owns an IRP.

## 1. Inventory

### i2cctrl (`src/i2cctrl`)

| part | state | operations | what is hard | what makes it correct |
|---|---|---|---|---|
| QoS queues (`i2cctrl.c` 2633-2742, 7355-7434) | `HighQueue`, `NormalQueue`, `LowQueue`, `BurstHigh/Normal/Low` and their limits | insert, pick with burst limits, drain one | fairness over long sequences, counters that wrap, limits that are never assigned | a queued request is always found; no class is passed over without bound |
| transfer engine (`i2cctrl.c` 2454-2990, `i2cctrl_isr.c`, `i2cctrl_spbcx.c` 685-1223) | `XferCtx` (irp, buffer, status, retry count, `Completed`, timer, DPC), `ActiveBusy`, `TransferEvent`, three KDPCs | start a request, time out, retry, fail, interrupt, complete, borrow the context for a sequence, stop, start | one context and seven actors; some take `QueueLock`, some do not; timers survive the memory they live in | one completion per IRP, no IRP forgotten, a stopped device is quiet |
| PnP, FDO and PDO dispatch (`i2cctrl_fdo.c`, `i2cctrl_pdo.c`, `i2cctrl.c` 3100-4720) | `Started`, `Stopping`, `Removed`, `InitDone`, remove lock, child PDOs | start, stop, surprise removal, remove, relations, query ID | requests in flight across each transition, leaked remove locks | remove ends, nothing runs after it |
| IOCTL dispatch and HID read slot (`i2cctrl.c` 7562-8050) | `PendingHidReadIrp`, `HidInputLock` | read, cancel, forward to ACPIEx and SPBCX facades | cancel before queueing; two facades that both complete | one completion per IRP |
| SPBCX facade (`i2cctrl_spbcx.c`, `i2cctrl_i2c.c`) | the same `XferCtx`, `BusLock` | set target, transfer, sequence, probe | synchronous wait for an event that interrupt, timeout and stop all signal | a caller sees the status of its own transfer |
| IRP queue (`i2cctrl_queue.c`) | `PendingIrpList`, `RequestQueue` | init, complete, flush, cancel | partly without callers | one completion per IRP |
| SMBus (`i2cctrl_smbus.c`, `i2cctrl_i2c.c`) | none of its own; the FIFOs it leaves behind | protocols, packet error code | a call that gives up leaves commands queued; block lengths | a call returns the answers of its own device; the PEC detects what it should |
| polled transfers (`i2cctrl.c` 999-1280, 4980-5240, 10340-11810) | `XferCtx` indices, policy settings, FIFOs | execute, retry, phased, block and burst transfers, FIFO hygiene | STOP and abort are sticky and shared with the interrupt; retries | success means that the whole transfer was taken |
| HAL (`i2cctrl_hal_*.c`) | controller registers, ACPI read tokens | init, enable, FIFO, interrupts | fields no operation fills in | tokens and bytes agree |
| power (`i2cctrl.c` 6380-6890, 7040-7260, `i2cctrl_fdo.c` 450-665) | `CurrentDevicePowerState`, `PendingIrp`, `WakeArmed`, masks | system and device SET_POWER, WAIT_WAKE, wake DPC, cancel | one slot and four ways out of it; failing power-ups | power state, controller and masks agree; the slot holds a live IRP |
| ACPI children, detection, LPSS sequences | ACPI results | enumeration, register sequences | I/O with firmware | - |
| log, dump, bugcheck, ETW, WDM compatibility | buffers | output | none between actors | - |

### uartctrl (`src/uartctrl`)

| part | state | operations | what is hard | what makes it correct |
|---|---|---|---|---|
| read IRPs (`uartctrl.c` 46-130, 623-705, `uartctrl_isr.c`, `uartctrl_ioctl.c` 170-220, `uartctrl_pnp.c`) | `ReadQueue`, `ReadQueueLock`, cancel routines, `PollDpc` | read, queue, cancel, complete in the DPC, flush on stop, flush on remove, restart | four parties take IRPs out of one list and complete them outside its lock | each read owned by one party, completed once, flushed by a stop, cancellable |
| ring buffers (`uartctrl_ringbuf.c`) | `RxBuf`, `RxHead`, `RxTail` and the same for TX | put, get, count, reset | wrap, full against empty, callers without the lock | a FIFO of size - 1 bytes |
| transmit (`uartctrl_ioctl.c`, `uartctrl_isr.c`) | TX ring, `TxLock`, THR | write IRP, write IOCTL, ISR, DPC | `RingGet` without `TxLock` | each byte sent once, in order |
| line control and power (`uartctrl_hw.c`, `uartctrl.c`) | `Config`, LCR, divisor latch, IER | open, set configuration, start, power | DLAB turns the data register into the latch for whoever comes by | the registers are those of the configuration |

### gpioctrl (`src/gpioctrl`)

| part | state | operations | what is hard | what makes it correct |
|---|---|---|---|---|
| interrupt, DPC, log (`gpioctrl_isr.c`) | `PendingIntMask`, `IsrDpc`, `IsrLog*` | ISR, DPC, log entry | the ISR runs on top of DPC and IOCTL code that may hold `RegLock`, its own interrupt lock, or `IsrLogLock` | every acknowledged pin reaches a DPC |
| PnP and pin I/O (`gpioctrl.c`, `gpioctrl_io.c`) | `Started`, `MmioBase`, `InterruptConnected`, registers | start, stop, remove, read, write and configure a pin | order of DPC removal, disconnection and unmapping; read-modify-write of shared registers | no access to unmapped registers, no lost write, nothing runs after removal |

### i2chid (`src/i2chid`)

| part | state | operations | what is hard | what makes it correct |
|---|---|---|---|---|
| function device (`i2chid.c`) | `ReadQueue`, flags, controller handle, interrupt, names | AddDevice, start, stop, surprise, remove, power, ISR, DPC, read | partial failure of AddDevice, early returns of stop, DPC against stop | each read completed once, nothing kept by a removed device |
| report parsers (`i2chid.c` 2820-3505) | - | raw packet, legacy packet, HID report | count bytes, short packets, checksum position | shown fingers are those of the packet |
| touch and gestures (`i2chid_PT.c`, `i2chid_hw_shim.c`) | taps, last centroid, sums | sample, wheel, pinch, tap, poll | order of updates, narrow types, loops that must end | one click a tap, motion follows the fingers |
| configuration (`i2chid.c` 920-1075, 2316-2725, 3211-3246, 3585-3701) | `Cfg`, registry | load, feature reports, validate, save | three writers that validate differently; a save that fails | values stay in range |
| detection (`i2chid.c` 284-651) | the bus it reads from | scan of addresses | timeouts that leave commands queued | the pad found is there |
| ACPI and SPBCX glue | - | synchronous calls | - | - |

### i2cctrl_emulator, helpers, INF files

The emulator keeps a FIFO, an interrupt flag and a selected register behind the HAL
interface; its IOCTLs fill the FIFO on any number of threads, without a lock.  The
helpers are control-panel programs, the rest is installation data.

### How they interact

`i2chid` and the helpers send IOCTLs to `i2cctrl`; `i2cctrl` calls ACPI and its
HAL backend; interrupts reach `IsrDpc`; `QueueKick` and timers queue DPCs; PnP
requests start and stop all of it.  `uartctrl` and `gpioctrl` stand alone.
`PROJECT.json` lists every component with its status and, under `hazards`, each
place where these interactions can go wrong.

## 2. Modules

### The actors that share a lock

| module | models | state and actions in the code |
|---|---|---|
| `QosQueues` | the three queues and their arbitration | `queue`, `burst`; `QueueInsert`, `Pick`, `DrainOne` are the bodies of the three `QueueLock` regions |
| `QosFairness` | the queues under any sequence of calls | adds the history variable `bypass`, which the code does not have |
| `XferEngine` | the transfer context and its seven actors, EXTENDS `QosQueues` | one action per locked region or unlocked store; a KDPC is an element of `kdpc`, each processor in `cpu` runs one routine; `timer` is the running timer and the KDPC it will queue |
| `IrpContract` | what a driver owes the I/O manager: free, owned, parked, completed | abstract, translates no code |
| `UartReadQueue` | the read IRPs of `uartctrl` | `disp` is how far a dispatch routine is, `cancel` how far a cancel routine is, `dpc` the DPC of each processor, `pnp` the PnP thread; one action per locked region and per completion |
| `GpioIrq` | ISR, DPC, log, pin IOCTLs and PnP of `gpioctrl` | `isr` is the ISR of each processor, `low` what it interrupts there, `call` the IOCTL callers, `pnp` the PnP thread; one action per statement or region that another party can see between |

### i2chid

| module | models | state and actions in the code |
|---|---|---|
| `HidDevice` | AddDevice and its unwinding, PnP, power, ISR, DPC, read IRPs | `hidFlags` are the extension's flags, `hidHeld` what is acquired, `hidQueue` is `ReadQueue`, `hidRun` the DPC of each processor, `hidPnp` the PnP thread; regions under `ReadQueueLock` and completions are actions |
| `HidReports` | both parsers, their three callers (`I2CHID_I2cReadReport`, the interrupt DPC's two passes, the polling DPC) and the HID report | a bench: `rpIn` is a packet, `rpOut` what the code computes from it |
| `HidTouch` | Precision Touchpad emulation: taps, cursor, wheel, pinch, queue of reports | `htDown` are the static tap variables, `htLast`, `htPinch` the last centroid and distance, `htSends` and `htReads` the two queues |
| `HidGestures` | gesture sums, with the scales that reports and the registry write meanwhile | `gsAccum` are the sums, `gsScale` the configured scales, `gsAt` the axis whose loops run |
| `HidConfig` | load, feature and output reports, validation, save | `cfCfg` is `Cfg`; `cfWild` names fields whose last writer checks nothing |
| `HidDetect` | the scan for a touchpad | EXTENDS `I2cHal`; `hdAt` is header, descriptor or done at address `hdAddr`; `hdLost` remembers a command lost to the full FIFO |

### i2cctrl beside the engine

| module | models | state and actions in the code |
|---|---|---|
| `CtrlPnp` | FDO from AddDevice to deletion, remove lock, children and PDOs | `cpFlags`, `cpHeld` (mapped, connected), `cpLock` with `cpLeaked` for paths that do not give it back, `cpChild` |
| `CtrlPower` | start and stop, system and device power, WAIT_WAKE step by step, its slot, wake DPC, cancel, the lower driver | `cwDev` is the extension and controller: state, enabled, masked, armed, `slot` (`PendingIrp`), per request the next step of its dispatch (`at`) and what the lower driver has (`lower`) |
| `CtrlIoctl` | `I2cCtrl_DispatchIoctl`, the HID read slot, the facades' completions | `crAt` is where each IRP is, `crSlot` is `PendingHidReadIrp` |
| `I2cHal` | operations of the DesignWare and ACPI backends on a bus record | operators from bus to bus: target, command FIFO, receive FIFO, raised causes, registers of the slaves |
| `BusProtocols` | SMBus calls, `I2cHwRead`/`Write`, enable-and-transfer helpers | a call is a program of steps (`bpSteps`); every wait has a step that runs out |
| `XferPolicy` | `ExecuteTransferSafe` with retries, phased, block and burst transfers, FIFO hygiene | as above; `xpClean` remembers that nothing was left over or acknowledged by the interrupt |
| `SmbusPec` | CRC-8, write and read frames, block write | `pecFrame` on its way, perhaps with one byte changed; a byte is the set of its bits that are set, so that `^` and `<<` are operations on sets |
| `SpbBus` | ACPIEX and SPBCX facades: target, transfer, sequence, probe, speed, create, close | all clients over one `spXfer` (`XferCtx`) and `spEvent` (`TransferEvent`), no lock |

### uartctrl and the emulator

| module | models | state and actions in the code |
|---|---|---|
| `ByteFifo` | a bounded FIFO of bytes with the caller's answer | abstract |
| `UartRing` | `RingPut`, `RingGet`, `RingAvail`, reset, one call at a time | `buf`, `head`, `tail`, and the last call's answer |
| `UartTransmit` | TX ring with write IRP, write IOCTL, ISR, DPCs | statement by statement for the drains; `utRaced` remembers that an unlocked drain met another |
| `UartLine` | LCR, DLAB, divisor latch, IER, under requests in any state of the device | each register access is a step of `ulDo`, the list a request still has to do |
| `Emulator` | FIFO, IOCTLs, HAL operations, PnP | one action per store of head, tail and data |

`MCQosFairness`, `MCXferEngine` and `MCGpioIrq` add symmetry and a state constraint for
TLC.  `MCHid` composes the modules of i2chid, and `MCDrivers` `QosFairness` and those of the
last two tables (section 3).  The theorems
are in `QosFairnessProofs`, `XferEngineProofs`, `UartReadQueueProofs`, `UartRingProofs`,
`GpioIrqProofs` (each about the module it is named for), `CtrlProofs` (`CtrlIoctl`,
`CtrlPnp`, `CtrlPower`, `SpbBus`, `XferPolicy`, `BusProtocols`, `SmbusPec`), `HidProofs` (`HidDevice`, `HidReports`,
`HidTouch`, `HidGestures`, `HidConfig`, `HidDetect`) and `UartEmuProofs` (`UartTransmit`, `UartLine`, `Emulator`).

Operators named as mutants in the modules are deliberately wrong versions of the
definition that follows them.  No specification uses them; substituting one must
break a property, which shows that the property depends on that code.

### Abstractions worth knowing

* A request is a model value; payloads, addresses and status details are left
  out except where a guard reads them.
* `I2cCtrl_QueueInsert` has one caller, `I2cCtrl_EnqueueSmbusIrp`, which has none
  (and takes `QueueLock` twice).  The scheduler and engine are modelled from
  `I2cCtrl_QueueInsert` down: what they do once requests arrive.
* The burst limits and `MaxRetries` are assigned nowhere, so they are zero in
  the program.  `qos_zero` and the four `xfer` runs use limits of zero; `drivers` takes the
  limits "configurable", as their declaration says.  `MaxRetries` is 1 in the `xfer`
  runs so that the retry path is taken at all.
* Memory that is wiped while the kernel holds it (`RtlZeroMemory` of a context
  with a running timer, `KeInitializeDpc` of a queued DPC, as at every start of i2chid) is a
  choice between the kernel keeping and forgetting it.
* `UartReadQueue` counts the bytes of the ring instead of storing them;
  `UartRing` is where they are stored.  Registers that have been unmapped are
  taken to answer nothing.  Zero-length reads are left out.  Removal with reads
  outstanding is allowed, as the driver's own flush expects; dispatch routines
  take no remove lock.
* `GpioIrq` is the driver on a multiprocessor kernel.  The spin lock that
  `IoConnectInterrupt` is given is `RegLock`, so an ISR on a processor whose DPC or
  IOCTL code holds it never goes on; such states are part of the model.  A
  uniprocessor kernel, where a spin lock only raises to `DISPATCH_LEVEL`, is not
  modelled.  A disabled pin does not latch, and registers keep their contents over
  a stop.  An IOCTL that finds the registers unmapped halts the machine; in the
  model its thread stays where it is.  `BsodPolicy` is assigned nowhere, so
  `StopDevice` never masks interrupts; `GpioCtrl_IoctlWaitForInterrupt` and
  `GpioIsr_RecheckPending` have no caller.
* `Isr` of `XferEngine` ignores interrupt masks: the line may be shared.
* Several paths cannot be reached as committed, because something they need is
  assigned nowhere.  Each is a constant, and the runs set it so that the code behind it is
  checked: `HidReportBuffer` (nobody allocates the report-descriptor buffer, so
  `AddDevice` of i2chid always fails at `i2chid.c:220`), `HidReportFits` and `RpBuffer` (the
  DPC's buffer has 64 bytes where `I2CHID_ReadInput` wants `sizeof(I2CHID_REPORT)`, so that it
  always refuses; 136 stands for a buffer that is large enough), `CpBackend` (nobody installs a
  backend before the first start waits for one), `CpSigned` (nobody stores a child's
  signature), `CpReady` (nobody sets `ReadyForChildren`), `CwLight` (nobody sets
  `SupportsD1`/`SupportsD2`).  `XpStopCause` is not one of them: it says which cause the bit
  0x0200 selects in the raw register, where two headers disagree (section 6), and `"stop"`
  is what `i2cctrl_hw.h` says.
* A byte on the bus is the pair of the address and register it was read from, so that
  a byte taken by the wrong call is visible.  `StopDetected` is never filled in by
  `GetStatus`, and the models keep it so: a call that waits for a STOP gives up.
* In `HidTouch` one coordinate stands for x and y and `CHAR` is narrowed to a few values,
  with the clamping and the wrap of the code.
* `UartLine`, `UartTransmit`, `Emulator` and `XferPolicy` carry one history flag each (`ulRaced`,
  `utRaced`, `emRaced`, `xpClean`).  The code protects these places by nothing; the flag names
  exactly the overlap the property needs not to have happened, and nothing else may break it.
  `CtrlPower` (`woken`, `raced`), `HidDevice` (`hidWiped`) and `HidDetect` (`hdLate`, `hdLost`) do the same.
* A property that names such a flag does not catch the hazard behind the flag, which the code
  does meet: overlapping line settings, unlocked drains and pushes, a count that is off after an entry
  was unlinked twice, a leaked remove lock, a frame of the largest block, a wake that was raced.
  It says that nothing but this hazard breaks the component.

## 3. What TLC checks

| run | question | result |
|---|---|---|
| `qos_zero` | is a waiting request always found with the limits the code has | fails: two non-empty classes block each other |
| `xfer` | what do `QueueLock` and the DPC flush guarantee | holds: a stopped device is quiet, timeout and stop never both complete an IRP, an active IRP of a running device has `ActiveBusy` |
| `xfer_stop` | does a stop get through | holds under the fairness below |
| `xfer_twice` | is an IRP completed once | fails: the queue DPC completes its request even after another path took it |
| `xfer_lost` | is a dequeued request always in somebody's hands | fails: the next request wipes the context of one that completes asynchronously |
| `uart_reads` | who owns a read IRP | holds: refines `IrpContract`, queued reads are live, a stop completes what was parked before it |
| `uart_cancel` | does a cancelled read go away | fails: cancelled after `IoSetCancelRoutine`, before the insertion |
| `gpio` | do acknowledged pins reach a DPC, and are registers touched in turn and while mapped | holds: nothing acknowledged is forgotten, latched pins have a DPC coming unless a stop removed it |
| `gpio_remove` | is every DPC gone when the device is deleted | fails: the interrupt is disconnected after the DPC was removed |
| `power_twice` | is a WAIT_WAKE completed once | fails: it is parked and passed down at once, and both owners complete it |
| `hid` | the six components of i2chid | holds, see below |
| `drivers` | twelve components of i2cctrl, uartctrl and the emulator | holds, see below |

### The runs `hid` and `drivers`

The components of these runs share no state with each other, so a product of their behaviours
would only multiply states.  `MCHid` and `MCDrivers` each take theirs together once: `focus`,
chosen in the initial state, names the component that moves, and the others stay in their
initial states.  The reachable states are the sum of those of the components, and each
property ranges over every behaviour of the component it is about.  What each shows:

| component of `hid` | properties | what holds |
|---|---|---|
| `HidDevice` | `HidHonoursContract` | the read path refines `IrpContract`: DPC, stop, remove and a read that comes meanwhile complete each read once |
| | `HidStopDrains` | when a stop gives the hardware back, what waited when it flushed the DPCs is completed, or in the hands of a DPC that was queued after the flush and completes it next; a read queued after the drain is left waiting, which the property says by naming the reads it is about |
| | `HidInputServed` | clearing `PendingInputFlag` before reading loses no input, unless a start re-initialised the queued DPC |
| | `HidRemoveReleases` | what a deleted device leaves behind, by the status in which REMOVE came: after a stop its DOS link, after a surprise removal no DPC either; added or failed, the controller handle as well; started, the interrupt as well |
| | `HidAddUnwinds` | a failed AddDevice keeps nothing |
| `HidReports` | `RpExact`, `RpGuarded` | fingers kept are fingers sent when they come first in the packet; the legacy parser stays in the packet and honours its checksum where it finds it |
| `HidTouch` | `HtOneClick`, `HtMotionFollows` | one click a tap; no jump when a finger lands; a pinch turns the wheel its own way |
| `HidGestures` | `GsGesturesSettle` | whatever scales are written meanwhile, an axis is left below the scale its loops ran with, and no more wheel reports come than this sample's fingers and the scale before account for |
| `HidConfig` | `CfRangesHold` | only the registry and report 0x03 bring a value out of range, and validation repairs it |
| `HidDetect` | `HdFindsThePad` | no stranger is taken for the touchpad though answers of earlier reads arrive late; it is missed only after a read that gave up on unserved commands or lost one to the full FIFO |

| component of `drivers` | properties | what holds |
|---|---|---|
| `QosFairness` | `WorkConserving`, `BypassBound` | with limits that are not zero a waiting request is always found; High is passed over at most once, Normal at most `BurstHighMax + 1` times; Low has no bound |
| `CtrlPnp` | `CpDeletedUnused`, `CpLockBalanced` | a remove waits for all requests below; the lock is balanced except for the counted leaks |
| | `CpHoldsWhatItServes`, `CpChildrenCounted` | registers and interrupt are held exactly while serving, through every failing start, the enable that does not latch included; the child count is right until an entry is unlinked twice |
| `CtrlPower` | `CwPowerAgrees` | through stop, restart and failing power-ups, state, controller and masks agree unless a wake interrupt declared D0, or one wake was disarmed between another's arming and unmasking |
| | `CwSlotIsPending` | the slot holds no request this driver has completed and loses none that is parked; what the lower driver completes is `power_twice` |
| `CtrlIoctl` | `CrHonoursContract` | HID reads and own requests are completed once; the facades' requests are excluded, they are completed twice or never |
| `BusProtocols` | `BpOwnAnswers` | a call returns its own device's bytes, unless an earlier one gave up |
| `XferPolicy` | `XpOkIsWhole` | a write, a phased transfer or a block read that succeeds was taken whole, given a clean start, no retry and no abort acknowledged by the interrupt; the read of `ExecuteTransferSafe` asks for nothing and is not judged |
| `SmbusPec` | `PecSound` | every changed byte is noticed, and both paths build the same frame, the largest block apart |
| `SpbBus` | `SpOkCompleted` | a synchronous call succeeds only when some IRP was completed since it began; whose, the event does not tell |
| `UartRing` | `ImplementsFifo` | a ring of four slots is a FIFO of three bytes through every wrap |
| `UartTransmit` | `UtInOrder` | bytes in order as long as the IOCTL's unlocked drain meets no other |
| `UartLine` | `UlAsConfigured` | a device at rest has the registers of its configuration, unless two settings overlapped or the latch was hit, although requests come in any state and outlive a stop |
| `Emulator` | `EmInOrder` | bytes in order as long as no push, read and reset overlap another |

Many of these are conditional.  The conditions are the places where the code
promises less than one would expect; each was found by stating the property without it and reading
TLC's trace.  They are listed in section 6.

### Bounds

* `qos_zero`: four requests and four counter values, the limits the code has.
* `xfer`: two requests suffice for one to replace the other in the context, and two
  processors for two DPC routines to overlap; one interrupt, one sequence and
  one stop with a restart meet in every order.  Two counter values make the
  burst counter wrap.  `xfer_stop`: one request, otherwise the same.
* `uart_reads`: two reads, two processors, a ring of one byte, two bytes on
  the line and one completion per DPC run: the ring overflows and runs empty, the
  completion limit is hit, and every pair of parties meets.
* `gpio`: two pins, processors and callers, so that a pin fires while another is being
  drained and two callers change one register; two starts, so that a mask left by a
  stop meets a restart; two log entries, so that the log overflows.  `gpio_remove`
  needs one event, one caller and one start.
* `power_twice`: two WAIT_WAKE requests, no light sleep states.
* `hid`:
  `HidDevice` two reads, two processors, two starts (`HidMaxStarts`), so one restart: two DPCs and the stop
  meet over two reads, and a start meets what the one before it left.
  `HidReports` packet lengths at and around each length the parsers test (`RpLens`), five fingers as in the code.
  `HidTouch` four contacts at two places, three units apart, so that the sums pass the narrowed `CHAR`.
  `HidGestures` scales 0, 1 and 2, written at any time, and two contacts; the other components begin with scales of 1.
  `HidConfig` values 0 (which validation keeps), one inside a range and one outside.
  `HidDetect` three addresses, so that an answer arrives late at one that is neither first nor last, and a
  command FIFO of two that a descriptor of three overflows, as 30 tokens do one of 16.
* `drivers`:
  `QosFairness` four requests, limits 2, 2 and 1, four counter values, so a burst ends,
  counters wrap and all three classes wait at once.  `bypass` of Low has no bound
  in the code and is cut off at `MaxBypass`.
  `CtrlPnp` two file objects, two children and one leaked lock (`CpMaxLeaks`): a second leak adds nothing but a count.
  `CtrlPower` and `CtrlIoctl` two IRPs: one in the slot and one that comes.
  `BusProtocols` and `XferPolicy` two calls (the second meets what the first left), transfers of two bytes and FIFOs of two, which fill up.
  `SmbusPec` blocks up to three bytes (`PecMax`, 32 in the code) of the bytes 0, 1, 128 and 255 as sets of bits, address 0x2C, commands 0x08 and 0x82.
  `SpbBus` two clients and no other bound: any number of calls, queued requests, stops and starts.
  `UartRing` four slots, two byte values: every offset of head and tail.
  `UartTransmit` one writer and two processors, a ring of three slots and three bytes: it fills and wraps.
  `UartLine` two threads, two configurations, three calls.
  `Emulator` two IOCTL threads and two threads of the HAL, a FIFO of three slots, blocks of two, four bytes: pushes
  that do not fit.  The constraint `Explored` stops at the first race, after which `EmInOrder` says nothing.

### Fairness and deadlock

`XferEngine` assumes that a queued DPC runs and a routine once begun goes on
(`Dpc(c)`), which the kernel scheduler provides, and that the PnP thread goes on
(`StopDevice`).  `UartReadQueue` assumes the same of cancel routine, DPC, stop
and remove.  No fairness is assumed of callers, timers, the line or interrupts.
Deadlock is not checked for `XferEngine`, `UartReadQueue`, `GpioIrq`, `MCHid` and `MCDrivers`: with
their bounded inputs used up, or the device deleted, the system rests.  `GpioIrq` and the
components of `hid` and `drivers` state no fairness: their properties are safety properties and
refinements without liveness.

## 4. What TLAPS proves

For every value of the constants (subject to the named assumptions):

* `BoundedBypass` (`QosFairnessProofs`): `BypassBound` (and `OneBurst`, one burst at a time),
  for every set of requests and all limits under `ZeroLimitsLast`: no class of limit zero ranks
  above one that has a limit, which the code's zeros satisfy.  Without it a class with a limit can
  pass over a higher one that has none for its whole burst.  The bound alone is not inductive: `BypassHistory`
  adds that a class that was passed over has no burst left of its own and that
  Normal has been passed over at most `BurstHigh + 1` times.
* `NeverIdle`: for every set of limits a pick comes back empty-handed only when two classes wait of
  which one has a limit of zero (`IdleNeedsZeroLimit`).  `qos_zero` is this case.  Its corollary
  `PositiveLimitsConserve` is `WorkConserving` for limits above zero, which the run `drivers` checks.
* `ReadsLive` and `ReadsHonourContract` (`UartReadQueueProofs`): `QueuedAreLive` and
  the refinement of `IrpContract`, for any reads, processors, ring size and
  completion limit.  The inductive invariant adds `HoldersAtWork` (who holds an
  IRP is in a step where it may), `OneHolder` (no two hold one) and
  `OnceDone` (what is completed is held by nobody).
* `RingIsFifo` (`UartRingProofs`): the ring implements `ByteFifo` with capacity `Size - 1`,
  for every size; `RingTypes`, that head and tail stay in range, is what it rests on.
* `PinsReachTheDpc`, `LatchedPinsAreServed`, `RegistersAreSafe` and `IsrFindsRegisters`
  (`GpioIrqProofs`): `NoPinForgotten`, `LatchedIsServed`, `PinsAsWritten` and `IsrMapped`, for any
  pins, processors and callers.  The inductive invariant adds `OneHolder` (what ISR, DPC and
  caller hold of `RegLock`), `BitsOfDpc`, `ReadIsFresh` (what a caller read is still in the
  register) and `ConnectedWhileUp`.

* `EngStoppedIsQuiet`, `EngActiveIsBusy` and `EngEndedOnce` (`XferEngineProofs`): `StoppedIsQuiet`,
  `BusyWhileActive` and `TimeoutStopExclusive`, for any requests, processors and queue limits.
  Quiet means: no active request, no timer, and no queue DPC between its pick and its issue; DPCs
  that have nothing more to do with the context may still be returning. `EngInv` strengthens the
  first two with `EngStops`, which follows the stop path: once the device is marked nothing enters
  the engine, a processor that the DPC flush has seen idle stays out, and what the stop has put down
  after the flush stays down. The third needs `EngQueued` (a request waits in one place, in nobody's
  hands) and `EngTickets`: the right to end a request is held once, by the context, the stop path or
  one processor, and by nobody once used.
* `CrImplementsContract` (`CtrlProofs`): the refinement of `IrpContract` by IOCTL dispatch, cancel
  routine, HID DPC, start and stop, for the requests the facades did not take.  `CrInv` says
  that only HID reads are parked, only an evaluation is passed down, and only the facades lose
  or repeat a completion, which is why the others are safe.
* `CpLockAlwaysBalanced`, `CpNeverDeletedInUse`, `CpChildrenAlwaysCounted`,
  `CpAlwaysHoldsWhatItServes`: the remove lock counts open requests, the device, a start and
  the leaks, in every state, a deleted device's included (`CpLockInv`), so a deletion meets no
  request; `NumChildren` (`CpCountInv`); registers and interrupt through every failing start,
  stop and removal (`CpHeldInv`: what is not started holds no hardware).
* `CwSlotNeverStale`, `CwPowerAlwaysAgrees`: `CwGood` relates slot, request and the step its dispatch
  is in, and `CwQuiet`, stronger than the masks of the property, says that a controller that is off is
  armed, or masked with nobody about to unmask it.  Every action keeps both, or sets `raced`.
* `SpSuccessWasSignalled`: `SpNoStaleEvent` is the point of the proof.  `TransferEvent` is set
  only if every client that waits on it, or was released by it, was there when it was set, since each clears
  it between its claim and its wait.
* `XpSuccessIsWhole`: `XpOkIsWhole` for transfers and FIFOs of every length, whichever cause the tested
  bit selects (`XpStopCause`).  `XpInv` says, of a call
  that is judged, where in its program it is (`XpPlace`, with lemmas for what step each place of
  a program is), that its commands went out in order, all of them unless it is a block read (`XpSending`),
  that the bytes read and waiting are the device's last in a row (`XpInOrder`), and the count on which
  a block read rests: with a token lost in a full FIFO fewer bytes are to come than it waits
  for (`XpComing`), as after an abort (`XpAborted`).
* `BpAnswersAreOwn`: `BpOwnAnswers` for any devices, block sizes and FIFO depths.  `BpInv` sorts the
  calls in three: those that come to a step that always gives up (`BpDoomed`), those that read
  nothing they asked for (`BpWriter`) and those that take a byte for each they ask for (`BpReader`).
  Of the third it says that the bytes read, the bytes waiting and the register the device
  answers next follow one another (`BpRow`), that no read in the FIFO has a write behind it
  (`BpAsked`), and that no more answers come than the call will take (`BpComing`), so that a
  call that is through leaves nothing for the next (`BpRests`).
* `PecAlwaysSound`: `PecSound` for all bytes, and for blocks and frames of every length.  A turn of
  the CRC's loops leads no two bytes to one (`CrcShiftBytes`, `CrcByteBytes`), so two frames that differ in
  one byte never meet again (`Crc8Differ`), and a frame with its own code behind it has the remainder
  0 (`Crc8Whole`).  `PecInv` is needed since `PecSound` speaks of the changed frame only: it says that
  such a frame is one byte away from a whole one (`PecCarries`).  `Crc8` is a recursive function; what
  its runs have in common is proved from the least place where it would fail (`PecLeast`, from
  the well-foundedness of `<`), as the library's induction theorems take an operator.
* `HidImplementsContract` and `HidStopAlwaysDrains` (`HidProofs`): `HidReadInv` adds that `ReadQueue`
  holds the parked reads once each, that a read taken out is owned by one DPC or the PnP thread,
  and that a read that waited when the stop flushed the DPCs never waits again; one a late DPC has
  dequeued is owned by that DPC, which is at its completion when the stop closes the controller.
* `HidInputAlwaysServed`, `HidRemoveAlwaysReleases`, `HidAddAlwaysUnwinds`: one invariant,
  `HidPnpInv`, for where the PnP thread may be in which request (`HidPhases`), what `Started`
  goes with, that a device that is down has no DPC and no pending input, that the flag a DPC will clear is
  set while it is queued, unless a start wiped it (`HidServed`), and what REMOVE found (`HidReleased`).
* `HdPadAlwaysFound`: `HdFindsThePad` for any addresses, devices and lengths.  `HdInv` follows the
  one answer that looks right, the touchpad's from register 1, wherever it may be: in a write still
  queued, in the device, in the receive FIFO or among the bytes of the present read.  There is
  one at most (`HdMarks`), and none before the touchpad is addressed or when a descriptor is read
  behind it, so an answer that comes late can spoil a header but never a descriptor.  Until a
  read gives up too early, or a command finds the FIFO full, the FIFOs hold the present read alone (`HdInTime`).
* `RpAlwaysExact`, `RpAlwaysGuarded`: for any number of fingers and packet lengths; `RpInv` says
  that the output is the one computed from this packet, and the lemmas say what the parsers' loops find.
* `HtAlwaysOneClick`, `HtMotionAlwaysFollows`, `GsAlwaysSettles`, `CfRangesAlwaysHold`: the invariants
  add, for the gestures, that a sum not yet settled is within one sample of the scale it was last settled with, whatever
  was written since; for the others that a click was answered (`htDown = 0`), that a last centroid belongs to a sample with
  fingers, and the types; the rest is arithmetic (centroids, clamping, whole scales taken out
  of a sum of either sign).
* `UtAlwaysInOrder` (`UartEmuProofs`): `UtInv` says, until a race, that one drainer is in a drain at
  a time and what `TxLock` has to do with it, that the ring holds the bytes put and not taken from the tail
  on, and that a drainer's byte is the next to send.
* `EmAlwaysInOrder`: `EmInv` says the same of the emulator's FIFO between the store of a byte and the
  store of the head (`EmUnpublished`), and between the stores of a reset, where the FIFO holds nothing
  one could rely on; `EmExclusive` is what the absence of a race means.
* `UlAlwaysAsConfigured`: `UlInv` follows each thread through its list of accesses.  `UlPhases`
  says which lists occur when, a start's beside any number of requests; `UlOrder`, until a race, that one
  thread at most is in the middle of a setting, what
  that thread has done so far (`UlHalf`), and that the latch is open only then.

Type correctness of the proved modules is a lemma there, or a conjunct of the invariant; the
runs state no type invariants of their own, since a value of a wrong type shows in the properties.
`UtInv`, `EmInv` and `UlInv` are disjunctions with "raced" because the code promises nothing after a race:
these are the conditions of the properties themselves, and the runs show races to occur.

Assumptions, each named in its module and evaluated by TLC in the runs:

* sizes, limits and bounds are natural numbers, where the code needs it not zero:
  `BurstAssumption` (limits fit the counter), `UartAssumption`, `SizeAssumption`, `GpioAssumption`,
  `XpAssumption`, `EmAssumption` and `UtAssumption` (a ring has two slots at least), `GsAssumption` (two contacts or more; scales
  may be zero), `HtAssumption` (two to five contacts, as the packet has);
* a value that stands for "none" or "junk" is not one of the things it is the absence of:
  `EngineAssumption`, `CrAssumption`, `CwAssumption`, `HidAssumption`, `UlAssumption`; the
  emulator's HAL threads are none of its IOCTL threads (`EmAssumption`), a writer is no processor of the DPCs (`UtAssumption`);
* `CpAssumption`: finitely many file objects and children, else there is nothing to count;
* `RpAssumption`: a full packet has room for the records of all fingers, as
  `sizeof(PNP0C50_RAW_PACKET)` has;
* `HdAssumption`: addresses are finitely many and not 0, a descriptor is longer than two headers;
* `BpAssumption`: addresses are natural numbers, no device has address 0 or the one called absent, sizes are
  natural numbers;
* `PecAssumption`: addresses, commands and the bytes of a block are bytes, the largest block a
  natural number;
* `CfAssumption`: every field has a range of natural numbers without 0, and a default inside it.

Model-checked only: the liveness properties `StopTerminates` and `StopFlushes`, which rest on fairness.
Every other property of a passing run is stated by a theorem, of that name or in a corollary.

## 5. Findings

The six violation runs, with the code and comment they concern, are under
`findings` in `PROJECT.json`: the unassigned burst limits, the double and the lost
completion in the transfer engine, the cancellation window of UART reads, the DPC that outlives a removed
GPIO device, and the WAIT_WAKE that is parked and passed down at once.

## 6. What the models say of the code beyond the findings

Behaviour met while modelling, kept in the models, and excluded from properties where these
would fail.  The first seven contradict a comment beside the code:

* Two-finger scroll never happens: `lastX` and `lastY` are set to the centroid of this sample
  (`i2chid_PT.c:329-330`) before the wheel is computed from their difference to the same two fingers'
  average (344-353), where the comments at 250, 339, 344-345 and 353 promise a scroll.  Only a pinch turns the wheel;
  `HtMotionFollows` is therefore about cursor and pinch.
* No input packet reaches a HID report: the interrupt DPC hands its 64-byte `rawBuf` (`i2chid.c:2954`) to
  `I2CHID_ReadInput`, which refuses less than `sizeof(I2CHID_REPORT)` (`i2chid_hid.c:697`); given a larger
  buffer it would return a structure (`i2chid_hid.c:728-733`) whose bytes the DPC parses as a packet once
  more (`i2chid.c:2979`, "Parse raw bytes into our internal report structure"), with a count byte of zero.
  `HidReports` has both passes (the DPC shows no finger), and `RpExact` is about one.
* The DPC of i2chid is initialised a second time (`i2chid.c:1868-1869`, "Initialize ISR->DPC handoff safely")
  after the interrupt is connected (1151) and `Started` set (1229): a queued DPC may be forgotten, and
  with `PendingInputFlag` set no report is read until a restart.  `HidInputServed` excepts it.
* REMOVE of a started i2chid device clears `Started` before it calls `I2CHID_StopDevice`, which returns at once
  (`i2chid.c:1263`, 1922-1925, "Stop hardware, disable controller, disconnect interrupts"): interrupt and
  controller handle stay.  `HidRemoveReleases` states it.
* Detection pushes target, register and a token for each byte of a descriptor into a command FIFO of 16
  (`i2cctrl_hal_dw.c:34-36`, `i2chid.c:334-341`) without looking: what does not fit is lost, the read gives up, and
  the touchpad is missed.  `HdFindsThePad` excepts a lost command.
* A read of `ExecuteTransferSafe` asks by `EmitReadRequest` (`i2cctrl.c:10961`, "Queue read commands"), which `DwI2cOps`
  leaves NULL (`i2cctrl_hal_dw.c:625-628`): it waits for bytes nobody asked for.  Its STOP test, and
  that of `RunTransferPhased`, is 0x0200 (`i2cctrl.c:11002`, 11230; `i2cctrl_hw.h:125`) of a register whose STOP is
  0x20 by `i2cctrl_hal_dw.h:19`: if the latter is right they time out with STOP raised (`XpStopCause`).  A retry
  (11256) does not reset `TxIndex` and goes on behind the buffer.
* A WAIT_WAKE is armed and unmasked (`i2cctrl.c:6810`, 6813) after `PendingIrpLock` was released
  (`i2cctrl_fdo.c:657`): the wake DPC, or a cancellation, may disarm and mask in between, and a controller that is
  off is left unmasked with nobody armed.  `CwPowerAgrees` excepts it (`raced`).

The others contradict no statement precisely enough:

* Polled transfers: every SMBus call that waits for a STOP gives up, since `StopDetected` is
  never filled in; only `ReceiveByte`, `ReadByte`, `ReadWord`, `I2cHwRead` and `I2cHwWrite` can
  succeed.  `TxFifoNotFull` is computed from "empty".  `ExecuteTransferSafe` never acknowledges
  STOP or abort, so a stale STOP ends the next call at once.  `I2cCtrl_ReadBurstPolled`'s `while (timeout--)`
  with `timeout == 0` afterwards misses the exhaustion and reads an empty FIFO.
* SPB facades: a synchronous call alone always times out, as it has no IRP whose completion would
  set `TransferEvent`; it succeeds only through another's completion.  A client zeroes `XferCtx` under
  the others, and its timeout masks and disables the controller under them.
* IOCTLs: what the ACPIEX facade handles is never completed (the comment at `i2cctrl.c:7986` assumes it is);
  what both refuse is completed twice.  A HID read cancelled before it is in the slot stays there,
  and START forgets a parked read (`i2cctrl_pdo.c:361`).
* Power: D3's clock gating arms the wake again after it was disarmed; a wake interrupt declares D0
  without powering the controller; D3 zeroes the timings that D0 restores; cancelling a parked
  WAIT_WAKE in D0 leaves the interrupts masked.
* PnP: after a surprise removal a REMOVE is refused; the PDO's REMOVE unlinks a child that the
  relations query had unlinked; the device-ID query leaks the remove lock.  REMOVE of the FDO asserts an
  empty `ChildList` and `NumChildren == 0` (`i2cctrl_fdo.c:301-302`).  As committed no child exists, since the
  first start fails for want of a backend; with one, children that were never reported, or whose
  own REMOVE is refused for want of a signature (`CpSigned`), are still listed then and the ASSERT would fail in a checked
  build.  The model deletes the device over them, as a free build does.  A start whose enable does not latch
  (`i2cctrl.c:4274`) is undone whole.
* UART: `ClockHz` is never set, so the divisor is always 0, and a baud rate of 0 divides by zero; `IOCTL_UART_WRITE`
  reports success and no bytes whatever fitted; a restart initialises `ReadQueue` with reads in it.
* i2chid: with one finger the legacy checksum is taken for the record's ninth byte; fingers behind a gap are
  wiped; the key a save opens is not the one that is loaded; a scale of 0 (report 0x03 or the registry) keeps the
  loops of `I2cHw_AnalyzeGestures`, which has no caller, going for ever, and the model has no step there.
* Emulator: a push reports success for bytes it dropped; an empty FIFO reads as a zero with success.

## 7. Not modelled

* `i2cctrl_queue.c` (flush, cancel, `CompleteIrp`): nothing calls it.
* Vendor HAL files: tables that point at the DesignWare operations.
* Logging, dump, bugcheck, ETW, WDM compatibility: output and stand-ins for kernel exports;
  no protocol between actors.
* LPSS register sequences, clock and reset registers, ACPI evaluation and child enumeration: straight
  sequences of I/O whose effect is in hardware and firmware.
* IDs, texts, capabilities, resource descriptors, report descriptors: data without state.
* The control-panel helpers and INF files.
* Inside modelled parts: `HardwareFailure`, arbitration recovery, `CancelAllQueuedTransfers`, the ACPI backend
  under the SMBus calls, unlocked puts into the UART's RX ring, the
  touch decoder of `uartctrl`, `gpioctrl`'s reads and power IRPs.
* `CtrlPower`: a SET_POWER handler is one action, so that DPC, cancel routine and the steps of a WAIT_WAKE come
  between two handlers, never within one; removal; answers to QUERY_POWER.  `WakeCapable`, once
  set, is not taken back.  The lower driver may complete a WAIT_WAKE it holds at any time.
* `UartLine`: a register access to an unmapped device halts its thread; a start beside a setting that is not
  finished counts as an overlap; REMOVE waits until no request is under way, as handles are closed.
* `HidDetect`: the depth of the receive FIFO.

The hazards in `PROJECT.json` without a property say why: a kick that is lost (`i2cctrl.c:7459`), a UART
read that waits for the next interrupt, a polled read that never asks, and an ISR spinning on a lock of its
own processor are all things a property would only report as failing.

## 8. Plan

1. `UartRxRing`: the RX ring with ISR and DPC putting into it, statement by statement,
   against `ByteFifo`; the memory of a stopped device.
2. `gpioctrl` on a uniprocessor kernel, where the ISR comes between the statements of
   the DPC's drain: the same properties with locks that only raise the IRQL.
