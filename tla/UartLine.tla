------------------------------ MODULE UartLine ------------------------------
(***************************************************************************)
(* The line settings of uartctrl: what its IOCTLs, power requests and      *)
(* StartDevice do to the registers of the 16550, one register after the    *)
(* other and without a lock, beside the DPC.  While DLAB is set the data   *)
(* and interrupt enable registers are the divisor latch.  A configuration  *)
(* stands for its baud rate and line format; its divisor is the one        *)
(* UartSetBaud computes from ClockHz, which nothing in the driver sets.    *)
(* No routine looks at Started, and a stop waits for no request: requests  *)
(* come to a device in any state, and one may outlive a stop and a start.  *)
(***************************************************************************)
EXTENDS Naturals, Sequences

CONSTANTS
    UlThread,     \* threads that make requests
    UlConfig,     \* configurations
    UlDefault,    \* 115200, 8 data bits, 1 stop bit, no parity
    UlMaxCalls    \* bound: requests made

ASSUME UlAssumption == UlDefault \in UlConfig /\ "junk" \notin UlConfig /\ UlMaxCalls \in Nat

VARIABLES
    ulDevice,     \* none, added, failed or broken (start failed, registers mapped),
                  \* starting, started, stopped, gone (surprise-removed), removed
    ulConnected,  \* the interrupt is connected
    ulConfig,     \* Config
    ulLcr, ulDlab,\* line format and DLAB of the line control register
    ulDivisor,    \* the divisor latch
    ulIer,        \* interrupts are enabled
    ulDo,         \* per thread, the register accesses it has still to do
    ulArg,        \* per thread, the configuration its request brings
    ulRead,       \* per thread, the line format UartSetBaud has read
    ulRaced,      \* history: two settings overlapped, or the latch was hit
    ulCalls       \* history for the bound

ulVars == <<ulDevice, ulConnected, ulConfig, ulLcr, ulDlab, ulDivisor, ulIer, ulDo, ulArg,
            ulRead, ulRaced, ulCalls>>

ulRegisters == <<ulLcr, ulDlab, ulDivisor, ulIer>>
ulPnp == <<ulDevice, ulConnected>>
ulRequest == <<ulDo, ulArg, ulCalls>>

UlInit ==
    /\ ulDevice = "none" /\ ulConnected = FALSE /\ ulConfig = "junk"
    /\ ulLcr = "junk" /\ ulDlab = FALSE /\ ulDivisor = "junk" /\ ulIer = FALSE
    /\ ulDo = [t \in UlThread |-> <<>>] /\ ulArg = [t \in UlThread |-> "junk"]
    /\ ulRead = [t \in UlThread |-> "junk"]
    /\ ulRaced = FALSE /\ ulCalls = 0

(* Mutant of UlSetBaud: DLAB is left set.                                  *)
UlSetBaudLatched == <<"read", "latch", "divisor">>

UlSetBaud == <<"read", "latch", "divisor", "unlatch">>
UlSetConfig == <<"store", "lineOfArg">> \o UlSetBaud
UlOpen == <<"disable", "line">>
UlEnterD0 == <<"line">> \o UlSetBaud \o <<"enable">>
UlStartHardware == <<"default">> \o UlEnterD0 \o <<"started">>

UlProgram(op) ==
    CASE op = "set_config" -> UlSetConfig
      [] op = "get_config" -> <<"answer">>
      [] op = "open" -> UlOpen
      [] op = "d0" -> UlEnterD0
      [] op \in {"close", "dx"} -> <<"disable">>
      [] op = "write" -> <<"enable">>

(* The registers are mapped from the start to the stop.  An access to them *)
(* at any other time halts the machine: here its thread goes no further.   *)
UlMapped == ulDevice \in {"starting", "started", "broken"}

(* IOCTLs, writes and power requests; a thread makes one at a time.        *)
UlRequest(t, op, arg) ==
    /\ ulDevice \notin {"none", "removed"} /\ ulDo[t] = <<>>
    /\ ulCalls < UlMaxCalls /\ ulCalls' = ulCalls + 1
    /\ ulDo' = [ulDo EXCEPT ![t] = UlProgram(op)]
    /\ ulArg' = [ulArg EXCEPT ![t] = IF op = "set_config" THEN arg ELSE "junk"]
    /\ UNCHANGED <<ulPnp, ulConfig, ulRegisters, ulRead, ulRaced>>
-----------------------------------------------------------------------------
UlSets(t) == \E i \in DOMAIN ulDo[t] : ulDo[t][i] \in {"store", "line", "lineOfArg", "latch", "unlatch"}

UlRace(t) ==
    ulRaced' = (ulRaced \/ ((UlSets(t) \/ ulDlab) /\ \E u \in UlThread \ {t} : UlSets(u)))

UlStep(t, what) ==
    /\ ulDo[t] # <<>> /\ Head(ulDo[t]) = what
    /\ ulDo' = [ulDo EXCEPT ![t] = Tail(@)]
    /\ UNCHANGED <<ulArg, ulCalls>>

UlAccess(t, register) == UlMapped /\ UlStep(t, register)

UlStores(t) ==
    /\ \/ UlStep(t, "store") /\ ulConfig' = ulArg[t]
       \/ UlStep(t, "default") /\ ulConfig' = UlDefault
       \/ UlStep(t, "answer") /\ ulConfig' = ulConfig
    /\ UlRace(t)
    /\ UNCHANGED <<ulPnp, ulRegisters, ulRead>>

UlSetLineControl(t) ==
    /\ \/ UlAccess(t, "line") /\ ulLcr' = ulConfig
       \/ UlAccess(t, "lineOfArg") /\ ulLcr' = ulArg[t]
    /\ ulDlab' = FALSE
    /\ UlRace(t)
    /\ UNCHANGED <<ulPnp, ulConfig, ulDivisor, ulIer, ulRead>>

UlReadsLcr(t) ==
    /\ UlAccess(t, "read")
    /\ ulRead' = [ulRead EXCEPT ![t] = ulLcr]
    /\ UlRace(t)
    /\ UNCHANGED <<ulPnp, ulConfig, ulRegisters>>

UlWritesLcr(t) ==
    /\ \/ UlAccess(t, "latch") /\ ulDlab' = TRUE
       \/ UlAccess(t, "unlatch") /\ ulDlab' = FALSE
    /\ ulLcr' = ulRead[t]
    /\ UlRace(t)
    /\ UNCHANGED <<ulPnp, ulConfig, ulDivisor, ulIer, ulRead>>

(* SET_CONFIG takes the rate from its buffer, the others from Config.      *)
UlRate(t) == IF ulArg[t] # "junk" THEN ulArg[t] ELSE ulConfig

UlWritesDivisor(t) ==
    /\ UlAccess(t, "divisor")
    /\ IF ulDlab THEN ulDivisor' = UlRate(t) /\ UNCHANGED ulIer
       ELSE ulIer' \in BOOLEAN /\ UNCHANGED ulDivisor     \* the interrupt enables are hit
    /\ UlRace(t)
    /\ UNCHANGED <<ulPnp, ulConfig, ulLcr, ulDlab, ulRead>>

(* UartEnableInterrupts and UartDisableInterrupts.                         *)
UlWritesIer(t) ==
    /\ \E on \in BOOLEAN :
          /\ UlAccess(t, IF on THEN "enable" ELSE "disable")
          /\ IF ulDlab THEN ulDivisor' = "junk" /\ UNCHANGED ulIer
             ELSE ulIer' = on /\ UNCHANGED ulDivisor
    /\ UlRace(t)
    /\ UNCHANGED <<ulPnp, ulConfig, ulLcr, ulDlab, ulRead>>

(* The interrupt and the DPC read and write the data register.             *)
UlDpcSends ==
    /\ UlMapped /\ ulConnected /\ ulDlab
    /\ ulDivisor' = "junk"
    /\ ulRaced' = (ulRaced \/ \E t \in UlThread : UlSets(t))
    /\ UNCHANGED <<ulPnp, ulConfig, ulLcr, ulDlab, ulIer, ulRequest, ulRead>>
-----------------------------------------------------------------------------
(* A supported hardware ID, a device object and a stack to attach it to.   *)
UlAddDevice ==
    /\ ulDevice = "none" /\ ulDevice' = "added"
    /\ UNCHANGED <<ulConnected, ulConfig, ulRegisters, ulRequest, ulRead, ulRaced>>

(* UARTCTRL_StartDevice: a resource or the buffers may fail it, with the   *)
(* registers mapped and the interrupt connected or not; power was lost     *)
(* while it was stopped.  A setting that a stop has cut short, or that was *)
(* asked for too early, overlaps with the settings of the start.           *)
UlStartDevice(t) ==
    /\ ulDevice \in {"added", "stopped"} /\ ulDo[t] = <<>>
    /\ \/ /\ ulDevice' = "starting" /\ ulConnected' = TRUE
          /\ ulDo' = [ulDo EXCEPT ![t] = UlStartHardware]
          /\ ulArg' = [ulArg EXCEPT ![t] = "junk"]
       \/ /\ ulDevice' \in {"failed", "broken"} /\ ulConnected' \in BOOLEAN
          /\ UNCHANGED <<ulDo, ulArg>>
    /\ ulLcr' = "junk" /\ ulDlab' = FALSE /\ ulDivisor' = "junk" /\ ulIer' = FALSE
    /\ ulRaced' = (ulRaced \/ \E u \in UlThread : UlSets(u))
    /\ UNCHANGED <<ulConfig, ulRead, ulCalls>>

UlStarted(t) ==
    /\ UlStep(t, "started")
    /\ ulDevice' = "started"
    /\ UNCHANGED <<ulConnected, ulConfig, ulRegisters, ulRead, ulRaced>>

(* UARTCTRL_StopDevice, for STOP_DEVICE and SURPRISE_REMOVAL.              *)
UlStopDevice ==
    /\ \/ ulDevice = "started" /\ ulDevice' = "stopped"
       \/ ulDevice \in {"added", "failed", "broken", "started", "stopped"} /\ ulDevice' = "gone"
    /\ ulCalls < UlMaxCalls /\ ulCalls' = ulCalls + 1
    /\ ulConnected' = FALSE
    /\ UNCHANGED <<ulConfig, ulRegisters, ulDo, ulArg, ulRead, ulRaced>>

(* REMOVE_DEVICE comes when the last handle is closed.                     *)
UlRemoveDevice ==
    /\ ulDevice \in {"added", "failed", "broken", "started", "stopped", "gone"}
    /\ \A t \in UlThread : ulDo[t] = <<>>
    /\ ulDevice' = "removed" /\ ulConnected' = FALSE
    /\ UNCHANGED <<ulConfig, ulRegisters, ulRequest, ulRead, ulRaced>>

UlThreadStep(t) ==
    \/ UlStores(t) \/ UlSetLineControl(t) \/ UlReadsLcr(t) \/ UlWritesLcr(t)
    \/ UlWritesDivisor(t) \/ UlWritesIer(t) \/ UlStarted(t) \/ UlStartDevice(t)
    \/ \E op \in {"set_config", "get_config", "open", "close", "d0", "dx", "write"},
          arg \in UlConfig : UlRequest(t, op, arg)

UlNext ==
    \/ \E t \in UlThread : UlThreadStep(t)
    \/ UlDpcSends \/ UlAddDevice \/ UlStopDevice \/ UlRemoveDevice

UlSpec == UlInit /\ [][UlNext]_ulVars

-----------------------------------------------------------------------------
(* When a started device is at rest its line format and divisor are those  *)
(* of Config and the latch is closed, unless two settings have overlapped  *)
(* or the data or enable register was used while the latch was open.       *)
UlAsConfigured ==
    ulDevice = "started" /\ ~ulRaced /\ (\A t \in UlThread : ulDo[t] = <<>>) =>
        ulLcr = ulConfig /\ ulDivisor = ulConfig /\ ~ulDlab
=============================================================================
