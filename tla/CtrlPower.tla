------------------------------ MODULE CtrlPower ------------------------------
(***************************************************************************)
(* Power management of the i2cctrl function device: system and device      *)
(* SET_POWER, the four controller states, start and stop, the parked       *)
(* WAIT_WAKE request with its cancel routine, and the interrupt DPC that   *)
(* ends the wait.  A SET_POWER handler runs at PASSIVE_LEVEL and is one    *)
(* action, the WAIT_WAKE it asks for included.  A WAIT_WAKE that is sent   *)
(* to the device is parked, armed, unmasked and passed down in steps, and  *)
(* the DPC, a cancellation, a SET_POWER, a stop and the lower driver come  *)
(* between them.                                                           *)
(* As committed nobody sets SupportsD1 or SupportsD2, so every sleep is    *)
(* D3; CwLight lets the two lighter states happen.                         *)
(***************************************************************************)
EXTENDS Naturals, FiniteSets

CONSTANTS
    CwIrp,        \* WAIT_WAKE requests that can be in flight at once
    CwNone,       \* NULL
    CwLight       \* the D-states the device supports besides D0 and D3

ASSUME CwAssumption == CwNone \notin CwIrp /\ CwLight \subseteq {"D1", "D2"}

VARIABLES
    cwDev,        \* the extension and the controller, a record
    cwSystem      \* the system state of the request the lower driver has

cwVars == <<cwDev, cwSystem>>

(* power: CurrentDevicePowerState, not set before the first transition.    *)
(* slot: PendingIrp.  irp: a request is free, parked, cancelling (its      *)
(* cancel routine has been called) or stale (completed although the cancel *)
(* routine runs), as this driver sees it.  queued: IsrDpc.  at: the next   *)
(* step of a request that was sent.  lower: the lower driver holds it, or  *)
(* has completed it.  History: woken, a wake declared D0 without power;    *)
(* raced, a wake was disarmed while another was about to unmask; twice, a  *)
(* request was completed twice.                                            *)
CwInit ==
    /\ cwDev = [started |-> FALSE, capable |-> FALSE, connected |-> FALSE,
                power |-> "unspecified", enabled |-> FALSE, masked |-> TRUE,
                armed |-> FALSE, queued |-> FALSE, slot |-> CwNone,
                irp |-> [i \in CwIrp |-> "free"], at |-> [i \in CwIrp |-> "none"],
                lower |-> [i \in CwIrp |-> "no"],
                woken |-> FALSE, raced |-> FALSE, twice |-> FALSE]
    /\ cwSystem = "none"

(* Start leaves the controller enabled, connected to its interrupt or not. *)
(* The registry's WakeCapable is not taken back between two starts.        *)
CwStart ==
    /\ ~cwDev.started
    /\ \E capable \in {c \in BOOLEAN : cwDev.capable => c}, connected \in BOOLEAN :
          cwDev' = [cwDev EXCEPT !.started = TRUE, !.enabled = TRUE, !.masked = FALSE,
                                 !.capable = capable, !.connected = connected,
                                 !.woken = FALSE]
    /\ UNCHANGED cwSystem

(* Stop switches the controller off, flushes the DPCs, and disconnects and *)
(* unmaps it.  The power state, the armed flag and the parked request stay *)
(* as they are.                                                            *)
CwStop ==
    /\ cwDev.started
    /\ cwDev' = [cwDev EXCEPT !.started = FALSE, !.enabled = FALSE, !.masked = TRUE,
                              !.connected = FALSE, !.queued = FALSE]
    /\ UNCHANGED cwSystem

-----------------------------------------------------------------------------
(* The request in PendingIrp is taken under PendingIrpLock and completed.  *)
CwCompleted(status) == IF status = "cancelling" THEN "stale" ELSE "free"

CwTakeKept(s) == s
CwTake(s) == [s EXCEPT !.slot = CwNone]

CwIoComplete(s, i, status) ==    \* once more than once when the lower driver did
    [s EXCEPT !.irp[i] = status, !.lower[i] = IF @ = "done" THEN "no" ELSE @,
              !.twice = s.twice \/ s.lower[i] = "done"]

CwCompleteTaken(s) ==        \* also when the cancel routine is under way
    IF s.slot = CwNone THEN s
    ELSE CwIoComplete(CwTake(s), s.slot, CwCompleted(s.irp[s.slot]))

CwCompleteUncancelled(s) ==  \* left to the cancel routine when that runs
    IF s.slot = CwNone \/ s.irp[s.slot] = "cancelling" THEN CwTake(s)
    ELSE CwIoComplete(CwTake(s), s.slot, "free")

CwQuiesceHardware(s) == CwCompleteTaken([s EXCEPT !.enabled = FALSE])

CwMask(s, mask) ==           \* reaches the register while that is mapped
    IF s.started THEN [s EXCEPT !.masked = mask] ELSE s

CwDisableWakeSignal(s) ==
    IF s.capable
    THEN CwMask([s EXCEPT !.armed = FALSE,
                          !.raced = @ \/ \E i \in CwIrp : s.at[i] = "unmask"], TRUE)
    ELSE s

CwFree(s) == {i \in CwIrp : s.irp[i] = "free" /\ s.at[i] = "none" /\ s.lower[i] = "no"}

(* IRP_MN_WAIT_WAKE: refused without the capability and while one is       *)
(* parked, else parked, armed and passed down, where nobody waits for it.  *)
CwAccepts(s) == s.capable /\ s.slot = CwNone
CwPark(s, i) == [s EXCEPT !.slot = i, !.irp[i] = "parked"]
CwEnableWakeSignal(s) ==
    IF s.connected THEN [s EXCEPT !.armed = TRUE, !.masked = FALSE] ELSE s

CwWaitWake(s) ==
    IF ~CwAccepts(s) \/ CwFree(s) = {} THEN s
    ELSE LET i == CHOOSE j \in CwFree(s) : TRUE
         IN [CwEnableWakeSignal(CwPark(s, i)) EXCEPT !.lower[i] = "holds"]

(* ArmWake asks the power manager for a WAIT_WAKE, which comes back here;  *)
(* the one that DisarmWake forgets is not cancelled.                       *)
CwArmWake(s) ==
    IF ~s.capable \/ s.armed THEN s
    ELSE [CwWaitWake([s EXCEPT !.masked = TRUE]) EXCEPT !.armed = TRUE]

CwDisarmWake(s) == [s EXCEPT !.armed = FALSE, !.masked = FALSE]

CwDisarmIfArmed(s) == IF s.capable /\ s.armed THEN CwDisarmWake(s) ELSE s

CwClockGate(s) == CwArmWake([s EXCEPT !.masked = TRUE])

CwEnableController(s, enable) == {[s EXCEPT !.enabled = enable], s}   \* done, or a failure

-----------------------------------------------------------------------------
(* The controller's states.  A register access that faults sends D1 on to  *)
(* D2 and D2 to D3; so does D0, and so it does when three attempts failed. *)
CwSetD3(s) ==
    LET off == CwClockGate(CwQuiesceHardware([CwDisarmIfArmed(s) EXCEPT !.masked = TRUE]))
    IN {[CwCompleteUncancelled(t) EXCEPT !.power = "D3"] : t \in CwEnableController(off, FALSE)}

CwSetD2(s) ==
    LET off == CwClockGate(CwQuiesceHardware([s EXCEPT !.masked = TRUE]))
    IN {[CwArmWake(t) EXCEPT !.power = "D2"] : t \in CwEnableController(off, FALSE)}
       \cup CwSetD3(s)

CwSetD1(s) ==
    {[CwArmWake(t) EXCEPT !.power = "D1"] :
        t \in CwEnableController(CwClockGate([s EXCEPT !.masked = TRUE]), FALSE)}
    \cup CwSetD2(s)

CwPoweredUp(s) ==
    [CwDisarmIfArmed([s EXCEPT !.masked = FALSE]) EXCEPT !.power = "D0", !.woken = FALSE]

CwSetD0Unchecked(s) == {CwPoweredUp(t) : t \in CwEnableController(s, TRUE)}

CwSetD0(s) ==
    {CwPoweredUp([s EXCEPT !.enabled = TRUE])} \cup CwSetD3(s)

CwSetControllerPower(s, d) ==
    CASE d = "D0" -> CwSetD0(s)
      [] d = "D1" -> CwSetD1(s)
      [] d = "D2" -> CwSetD2(s)
      [] d = "D3" -> CwSetD3(s)

(* The caller stores the state it asked for, unless D0 failed.             *)
CwStored(t, d) == IF d = "D0" THEN t ELSE [t EXCEPT !.power = d]

CwSupported(d) == IF d \in {"D0", "D3"} \cup CwLight THEN d ELSE "D3"

-----------------------------------------------------------------------------
(* A controller that is not mapped is not reached: its registers stay as   *)
(* they are, while the handlers run through and report success.            *)
CwReached(s, t) ==
    IF s.started THEN t ELSE [t EXCEPT !.enabled = s.enabled, !.masked = s.masked]

(* SET_POWER for the device, started or not.  Leaving a state with a wake  *)
(* parked, or D0 at all, quiesces the hardware first.                      *)
CwLeave(s, d) ==
    IF d # s.power /\ d # "D0" /\ (s.slot # CwNone \/ s.power = "D0")
    THEN CwQuiesceHardware(IF s.power = "D0" THEN [s EXCEPT !.masked = TRUE] ELSE s)
    ELSE s

CwWakeFor(s, d) == IF d = "D0" THEN CwDisarmIfArmed(s) ELSE CwArmWake(s)

CwSetDevicePower(requested) ==
    LET d == CwSupported(requested)
        s == CwWakeFor(CwLeave(cwDev, d), d)
        after == IF d = cwDev.power THEN {s}
                 ELSE {CwStored(t, d) : t \in CwSetControllerPower(s, d)}
    IN /\ cwDev' \in {CwReached(cwDev, t) : t \in after}
       /\ UNCHANGED cwSystem

(* SET_POWER for the system waits for the lower driver.  The completion    *)
(* routine reads the lower driver's stack location, which may be cleared   *)
(* by then: it then reads the unspecified system state.                    *)
CwSetSystemPower(state) ==
    /\ cwSystem = "none"
    /\ cwSystem' = state
    /\ UNCHANGED cwDev

CwDeviceStateFor(state) ==
    CASE state = "working" -> "D0"
      [] state = "sleeping1" -> CwSupported("D1")
      [] state = "sleeping2" -> CwSupported("D2")
      [] OTHER -> "D3"

CwSystemPowerCompletion ==
    /\ cwSystem # "none"
    /\ cwSystem' = "none"
    /\ \/ UNCHANGED cwDev                        \* it failed, or the state is current
       \/ \E state \in {cwSystem, "unspecified"} :
             LET d == CwDeviceStateFor(state)
             IN /\ d # cwDev.power
                /\ cwDev' \in {CwReached(cwDev, CwStored(t, d)) :
                                  t \in CwSetControllerPower(cwDev, d)}

-----------------------------------------------------------------------------
(* A WAIT_WAKE that is sent: PendingIrpLock is released after parking.     *)
CwDispatchWaitWake(i) ==
    /\ CwAccepts(cwDev) /\ i \in CwFree(cwDev)
    /\ cwDev' = [CwPark(cwDev, i) EXCEPT !.at[i] = "arm"]
    /\ UNCHANGED cwSystem

CwArmSignal(i) ==
    /\ cwDev.at[i] = "arm"
    /\ cwDev' = IF cwDev.connected THEN [cwDev EXCEPT !.armed = TRUE, !.at[i] = "unmask"]
                ELSE [cwDev EXCEPT !.at[i] = "pass"]
    /\ UNCHANGED cwSystem

CwUnmaskSignal(i) ==
    /\ cwDev.at[i] = "unmask"
    /\ cwDev' = CwMask([cwDev EXCEPT !.at[i] = "pass"], FALSE)
    /\ UNCHANGED cwSystem

CwPassDown(i) ==             \* whatever has become of it
    /\ cwDev.at[i] = "pass"
    /\ cwDev' = [cwDev EXCEPT !.at[i] = "none", !.lower[i] = "holds"]
    /\ UNCHANGED cwSystem

(* The lower driver completes what it was passed, at once or later, for    *)
(* the device that passed it has no completion routine there to know.      *)
CwLowerCompletes(i) ==
    /\ cwDev.lower[i] = "holds"
    /\ cwDev' = IF cwDev.irp[i] \in {"parked", "cancelling"}
                THEN [cwDev EXCEPT !.lower[i] = "done"]
                ELSE [cwDev EXCEPT !.lower[i] = "no", !.twice = TRUE]
    /\ UNCHANGED cwSystem

(* IoCancelIrp takes the cancel routine out of the request and calls it.   *)
CwIoCancelIrp(i) ==
    /\ cwDev.irp[i] = "parked" /\ cwDev.lower[i] # "done"
    /\ cwDev' = [cwDev EXCEPT !.irp[i] = "cancelling"]
    /\ UNCHANGED cwSystem

CwCancelWakeIrp(i) ==        \* completes the request wherever it is
    /\ cwDev.irp[i] \in {"cancelling", "stale"}
    /\ LET s == IF cwDev.slot = i THEN CwDisableWakeSignal(CwTake(cwDev)) ELSE cwDev
       IN cwDev' = [CwIoComplete(s, i, "free") EXCEPT !.twice = @ \/ s.irp[i] = "stale"]
    /\ UNCHANGED cwSystem

(* Any interrupt of an armed device ends the wait, in the DPC, which may   *)
(* run after a mask: it declares D0 without powering the controller.       *)
CwIsr ==
    /\ cwDev.connected /\ ~cwDev.masked
    /\ cwDev' = [cwDev EXCEPT !.queued = TRUE]
    /\ UNCHANGED cwSystem

CwCompleteWakeIfArmed(s) ==
    LET quiet == CwDisableWakeSignal(s)
    IN IF s.slot = CwNone THEN quiet
       ELSE [CwCompleteTaken(quiet) EXCEPT !.power = "D0", !.woken = s.woken \/ ~s.enabled]

CwIsrDpc ==
    /\ cwDev.queued
    /\ LET s == [cwDev EXCEPT !.queued = FALSE]
       IN cwDev' = IF s.armed THEN CwCompleteWakeIfArmed(s) ELSE s
    /\ UNCHANGED cwSystem

CwNext ==
    \/ CwStart \/ CwStop \/ CwSystemPowerCompletion \/ CwIsr \/ CwIsrDpc
    \/ \E d \in {"D0", "D1", "D2", "D3"} : CwSetDevicePower(d)
    \/ \E s \in {"working", "sleeping1", "sleeping2", "sleeping3"} : CwSetSystemPower(s)
    \/ \E i \in CwIrp : \/ CwDispatchWaitWake(i) \/ CwArmSignal(i) \/ CwUnmaskSignal(i)
                        \/ CwPassDown(i) \/ CwLowerCompletes(i)
                        \/ CwIoCancelIrp(i) \/ CwCancelWakeIrp(i)

CwSpec == CwInit /\ [][CwNext]_cwVars

-----------------------------------------------------------------------------
(* A started device that says D0 has an enabled controller, however a      *)
(* power-up failed, and after a stop that left D0 declared and a restart;  *)
(* only a wake interrupt can declare D0 on its own.                        *)
CwD0Enabled == cwDev.started /\ cwDev.power = "D0" => cwDev.enabled \/ cwDev.woken

(* A controller switched off interrupts nobody unless it is armed to wake: *)
(* I2cCtrl_SetControllerPowerD3 masks interrupts before it disables the    *)
(* controller, and a wake that is disarmed masks them again.  So it is     *)
(* until one is disarmed between the arming and the unmasking of another   *)
(* WAIT_WAKE, which unmasks them for nobody.                               *)
CwAsleepQuiet ==
    cwDev.started /\ ~cwDev.enabled =>
        cwDev.masked \/ cwDev.armed \/ cwDev.woken \/ cwDev.raced

(* PendingIrp never points at a request that a power-down, the wake or the *)
(* cancel routine has completed already, and no parked request is lost     *)
(* from it, with all of them between the steps of another WAIT_WAKE.  What *)
(* the lower driver completes is left to CwCompletedOnce.                  *)
CwSlotIsPending ==
    /\ cwDev.slot # CwNone => cwDev.irp[cwDev.slot] \in {"parked", "cancelling"}
    /\ \A i \in CwIrp : cwDev.irp[i] = "parked" => cwDev.slot = i

(* No WAIT_WAKE is completed twice, by this driver or by the lower one it  *)
(* was passed to: the defensive cancel of SetControllerPowerD3 claims a    *)
(* single completion.                                                      *)
CwCompletedOnce == ~cwDev.twice

(* Power state, controller and interrupts agree: D0 means enabled, and a   *)
(* controller that is off interrupts nobody unless it may wake.            *)
CwPowerAgrees == CwD0Enabled /\ CwAsleepQuiet
=============================================================================
