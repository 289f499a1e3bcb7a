------------------------------ MODULE CtrlPnp ------------------------------
(***************************************************************************)
(* The function device of i2cctrl from AddDevice to its deletion, and the  *)
(* child devices it reports: what the PnP requests acquire and release,    *)
(* the remove lock, and ChildList with NumChildren.  PnP requests come one *)
(* at a time; file requests come at any time and hold the remove lock      *)
(* while the lower device has them.                                        *)
(* Three things as committed keep most of this from happening, and each is *)
(* a constant here: nobody installs a backend before the first start waits *)
(* for one (CpBackend), nobody stores the signature of a child (CpSigned), *)
(* and nobody sets ReadyForChildren (CpReady).                             *)
(***************************************************************************)
EXTENDS Naturals, FiniteSets

CONSTANTS
    CpFile,       \* create, close, cleanup and unsupported requests
    CpChild,      \* child devices that can exist at once
    CpBackend,    \* a backend is there when a start waits for the disabled state
    CpSigned,     \* a child's extension holds I2CCTRL_PDO_SIGNATURE
    CpReady,      \* ReadyForChildren may be set
    CpMaxLeaks    \* bound: device-ID queries

ASSUME CpAssumption ==
    /\ IsFiniteSet(CpFile) /\ IsFiniteSet(CpChild)
    /\ CpBackend \in BOOLEAN /\ CpSigned \in BOOLEAN /\ CpReady \in BOOLEAN
    /\ CpMaxLeaks \in Nat

VARIABLES
    cpDev,        \* the device, as the PnP manager sees it
    cpFlags,      \* members of the extension that are TRUE
    cpHeld,       \* what the extension has acquired; "base" is MmioBase # NULL
    cpLpss,       \* the controller sits behind an Intel LPSS bridge
    cpPnp,        \* the PnP request in progress
    cpLock,       \* holders of RemoveLock
    cpFile,       \* per file request: "free", "lower" or "done"
    cpLeaked,     \* history: holders that nobody will release
    cpChild,      \* per child: none, new, reported, running; orphan when deleted
    cpCount,      \* NumChildren
    cpStale       \* history: an entry was unlinked from ChildList twice

cpStartVars == <<cpFlags, cpHeld>>
cpLockVars == <<cpLock, cpFile, cpLeaked>>
cpChildVars == <<cpChild, cpCount, cpStale>>
cpVars == <<cpDev, cpLpss, cpPnp, cpStartVars, cpLockVars, cpChildVars>>

CpInit ==
    /\ cpDev = "none" /\ cpFlags = {} /\ cpHeld = {} /\ cpLpss = FALSE /\ cpPnp = "none"
    /\ cpLock = 0 /\ cpFile = [f \in CpFile |-> "free"] /\ cpLeaked = 0
    /\ cpChild = [c \in CpChild |-> "none"] /\ cpCount = 0 /\ cpStale = FALSE

CpPresent == cpDev \notin {"none", "refused", "deleted"}

(* AddDevice: a device that cannot be attached is deleted again.           *)
CpAddDevice ==
    /\ cpDev = "none"
    /\ cpDev' \in {"attached", "refused"}
    /\ cpLpss' \in BOOLEAN
    /\ UNCHANGED <<cpPnp, cpStartVars, cpLockVars, cpChildVars>>

-----------------------------------------------------------------------------
(* The remove lock.  Once Removed is set every PnP request is refused      *)
(* before it takes the lock, and once a remove waits for the lock every    *)
(* other request is refused by it.                                         *)
CpLockOpen == CpPresent /\ cpPnp # "waiting"
CpPnpAccepted == CpLockOpen /\ cpPnp = "none" /\ "Removed" \notin cpFlags

CpAcquireAndPass(f) ==
    /\ CpLockOpen /\ cpFile[f] = "free"
    /\ cpLock' = cpLock + 1 /\ cpFile' = [cpFile EXCEPT ![f] = "lower"]
    /\ UNCHANGED <<cpDev, cpLpss, cpPnp, cpStartVars, cpLeaked, cpChildVars>>

CpCreate(f) == CpAcquireAndPass(f)
CpClose(f) == CpAcquireAndPass(f)
CpCleanup(f) == CpAcquireAndPass(f)
CpInvalidIrp(f) == CpAcquireAndPass(f)

CpReleaseLockCompletion(f) ==
    /\ cpFile[f] = "lower"
    /\ cpLock' = cpLock - 1 /\ cpFile' = [cpFile EXCEPT ![f] = "done"]
    /\ UNCHANGED <<cpDev, cpLpss, cpPnp, cpStartVars, cpLeaked, cpChildVars>>

(* IRP_MN_QUERY_ID for the device ID is completed with the lock held.      *)
CpQueryDeviceId ==
    /\ CpPnpAccepted /\ cpLeaked < CpMaxLeaks
    /\ cpLock' = cpLock + 1 /\ cpLeaked' = cpLeaked + 1
    /\ UNCHANGED <<cpDev, cpLpss, cpPnp, cpStartVars, cpFile, cpChildVars>>

-----------------------------------------------------------------------------
(* I2cCtrl_StartDevice as the set of its outcomes: flags, what is held and *)
(* whether it got to the next part.  The caller ignores its status.        *)
CpOut(flags, held, ok) == [flags |-> flags, held |-> held, ok |-> ok]

CpStopped(held) == held \ {"pwrm", "bar2", "mmio", "base", "interrupt"}

CpMatchController(o) ==      \* the copy of the hardware ID is never freed
    {CpOut(o.flags, o.held, FALSE), CpOut(o.flags, o.held \cup {"pnpid"}, FALSE),
     CpOut(o.flags, o.held \cup {"pnpid"}, TRUE)}

CpFindResources(o) == {o, [o EXCEPT !.ok = FALSE]}

CpMapRegisters(o) ==
    {[o EXCEPT !.ok = FALSE], CpOut(o.flags, o.held \cup {"mmio", "base"}, TRUE)}

CpDeadBar(o) ==              \* every register reads 0: unmapped, MmioBase stays
    {o, CpOut(o.flags \cup {"HardwareFailure"}, o.held \ {"mmio"}, FALSE)}

CpInitOnce(o) ==             \* DPCs are initialised from the second start on
    {CpOut(IF "InitDone" \in o.flags THEN o.flags \cup {"DpcInitialized"}
           ELSE (o.flags \cup {"InitDone"}) \ {"DpcInitialized"}, o.held, TRUE)}

CpWaitForEnableState(flags) ==   \* never succeeds without a backend
    {FALSE} \cup (IF CpBackend \/ "Ops" \in flags THEN {TRUE} ELSE {})

CpWaitDisabled(o) ==
    {IF ok THEN o ELSE CpOut(o.flags \cup {"HardwareFailure"}, o.held \ {"mmio"}, FALSE) :
        ok \in CpWaitForEnableState(o.flags)}

CpConnect(o) ==              \* a failure, or no interrupt to connect, ends nothing
    {[o EXCEPT !.held = o.held \cup {"interrupt"}], o}

CpLpssUnsupported(o) ==      \* returns success, with nothing connected or mapped
    CpOut((o.flags \ {"Started"}) \cup {"UnsupportedPlatform"},
          o.held \ {"interrupt", "mmio"}, FALSE)

CpLpssMap(o) ==              \* the power-management block, then the private one
    {CpOut(o.flags, o.held \cup extra, TRUE) : extra \in SUBSET {"pwrm", "bar2"}}

CpInstallBackend(flags) == flags \cup {"Ops"}   \* every listed controller has one

CpEnableFailedKeepsInterrupt(o) ==
    CpOut(CpInstallBackend(o.flags) \cup {"HardwareFailure"},
          o.held \ {"pwrm", "bar2", "mmio", "base"}, FALSE)

CpEnableFailed(o) ==         \* the enable did not latch: all is undone
    CpOut(CpInstallBackend(o.flags) \cup {"HardwareFailure"}, CpStopped(o.held), FALSE)

CpStarted(o) ==
    CpOut((CpInstallBackend(o.flags) \ {"Removed", "Stopping"}) \cup {"Started"},
          o.held, TRUE)

CpWaitEnabled(o) ==
    {IF ok THEN CpStarted(o) ELSE CpEnableFailed(o) :
        ok \in CpWaitForEnableState(CpInstallBackend(o.flags))}

CpFinish(o) ==
    IF cpLpss THEN {CpLpssUnsupported(o)} \cup UNION {CpWaitEnabled(p) : p \in CpLpssMap(o)}
    ELSE CpWaitEnabled(o)

CpThen(outs, Step(_)) ==
    {o \in outs : ~o.ok} \cup UNION {Step(o) : o \in {p \in outs : p.ok}}

CpStartDevice ==
    LET matched == CpThen(CpMatchController(CpOut(cpFlags, cpHeld, TRUE)), CpFindResources)
        mapped == CpThen(CpThen(matched, CpMapRegisters), CpDeadBar)
        disabled == CpThen(CpThen(mapped, CpInitOnce), CpWaitDisabled)
    IN {o \in disabled : ~o.ok} \cup
       UNION {CpFinish(p) : p \in UNION {CpConnect(o) : o \in {q \in disabled : q.ok}}}

-----------------------------------------------------------------------------
(* Children.  EnumerateAcpiChildren appends one child per _HID string that *)
(* is present; DeenumerateAcpiChildren deletes all of ChildList, the       *)
(* children PnP knows included.  CreateI2cDevice deletes and enumerates    *)
(* again whenever the list is not empty, for nobody stores HidMaxInputLen, *)
(* and once more for a touchpad or a speaker.                              *)
CpListed(ch) == {c \in CpChild : ch[c] \in {"new", "reported", "running"}}

CpDeenumerateAcpiChildren(ch) ==
    [c \in CpChild |-> CASE ch[c] = "new" -> "none"
                         [] ch[c] \in {"reported", "running"} -> "orphan"
                         [] OTHER -> ch[c]]

CpAcpiOpen(flags) == "Started" \in flags
CpHidStrings(ch) == SUBSET {c \in CpChild : ch[c] = "none"}

CpEnumerateAcpiChildren(ch, flags) ==
    {[c \in CpChild |-> IF c \in found THEN "new" ELSE ch[c]] :
        found \in IF CpAcpiOpen(flags) THEN CpHidStrings(ch) ELSE {{}}}

CpReenumerateAcpiChildren(ch, flags) ==
    CpEnumerateAcpiChildren(CpDeenumerateAcpiChildren(ch), flags)

CpCreateTouchpad(ch, flags) ==       \* all are deleted if none is a touchpad now
    CpReenumerateAcpiChildren(ch, flags) \cup {CpDeenumerateAcpiChildren(ch)}
CpCreateSpeaker(ch, flags) ==
    CpReenumerateAcpiChildren(ch, flags) \cup {CpDeenumerateAcpiChildren(ch)}

CpCreateI2cDevice(ch, flags) ==
    LET first == CpReenumerateAcpiChildren(ch, flags)
    IN first \cup UNION {CpCreateTouchpad(new, flags) \cup CpCreateSpeaker(new, flags) :
                           new \in {n \in first : CpListed(n) # {}}}

CpCountLost(new) == cpCount + Cardinality(CpListed(new))
CpCountAfter(new) ==
    (cpCount - Cardinality(CpListed(cpChild))) + Cardinality(CpListed(new))

CpReported(ch) == [c \in CpChild |-> IF ch[c] = "new" THEN "reported" ELSE ch[c]]

CpChildrenFound ==
    {cpChild} \cup (IF CpReady THEN CpCreateI2cDevice(cpChild, cpFlags) ELSE {})

(* A BusRelations query reports every child listed, the children PnP no    *)
(* longer finds are removed by it.  ChildList is walked by nobody here, as *)
(* by no start, once an entry was unlinked from it twice.                  *)
CpQueryDeviceRelations ==
    /\ CpPnpAccepted /\ cpDev = "started" /\ ~cpStale
    /\ \E ch \in CpChildrenFound :
          cpChild' \in {CpReported(ch), ch} /\ cpCount' = CpCountAfter(ch)
    /\ UNCHANGED <<cpDev, cpLpss, cpPnp, cpStartVars, cpLockVars, cpStale>>

CpChildIdle == CpSigned /\ cpPnp = "none"

CpChildStart(c) ==
    /\ CpChildIdle /\ cpDev = "started" /\ cpChild[c] = "reported"
    /\ cpChild' = [cpChild EXCEPT ![c] = "running"]
    /\ UNCHANGED <<cpDev, cpLpss, cpPnp, cpStartVars, cpLockVars, cpCount, cpStale>>

CpChildPowerOff(c) ==
    /\ CpChildIdle /\ cpChild[c] = "running"
    /\ cpChild' = [cpChild EXCEPT ![c] = "reported"]
    /\ UNCHANGED <<cpDev, cpLpss, cpPnp, cpStartVars, cpLockVars, cpCount, cpStale>>

(* IRP_MN_REMOVE_DEVICE for a child unlinks it, again if it was unlinked   *)
(* by the deletion of its device.                                          *)
CpChildRemove(c) ==
    /\ CpChildIdle /\ cpChild[c] \in {"reported", "running", "orphan"}
    /\ cpChild' = [cpChild EXCEPT ![c] = "none"]
    /\ cpCount' = IF cpCount > 0 THEN cpCount - 1 ELSE 0
    /\ cpStale' = (cpStale \/ cpChild[c] = "orphan")
    /\ UNCHANGED <<cpDev, cpLpss, cpPnp, cpStartVars, cpLockVars>>

-----------------------------------------------------------------------------
(* IRP_MN_START_DEVICE: StartDevice and CreateI2cDevice run in the         *)
(* completion routine, while the lock is held.                             *)
CpStart ==
    /\ CpPnpAccepted /\ cpDev \in {"attached", "stopped"} /\ ~cpStale
    /\ cpPnp' = "start" /\ cpLock' = cpLock + 1
    /\ UNCHANGED <<cpDev, cpLpss, cpStartVars, cpFile, cpLeaked, cpChildVars>>

CpStartCompletion ==
    /\ cpPnp = "start"
    /\ \E o \in CpStartDevice : cpFlags' = o.flags /\ cpHeld' = o.held
    /\ \/ "UnsupportedPlatform" \in cpFlags' /\ UNCHANGED <<cpChild, cpCount>>
       \/ /\ "UnsupportedPlatform" \notin cpFlags'
          /\ cpChild' \in CpCreateI2cDevice(cpChild, cpFlags')
          /\ cpCount' = CpCountAfter(cpChild')
    /\ cpDev' = "started" /\ cpPnp' = "none" /\ cpLock' = cpLock - 1
    /\ UNCHANGED <<cpLpss, cpFile, cpLeaked, cpStale>>

CpStartFailsLocked ==
    /\ cpPnp = "start"
    /\ cpDev' = "failed" /\ cpPnp' = "none"
    /\ UNCHANGED <<cpLpss, cpStartVars, cpLockVars, cpChildVars>>

CpStartFailsBelow ==
    /\ cpPnp = "start"
    /\ cpDev' = "failed" /\ cpPnp' = "none" /\ cpLock' = cpLock - 1
    /\ UNCHANGED <<cpLpss, cpStartVars, cpFile, cpLeaked, cpChildVars>>

CpStopDeviceKeepsBar2(held) == held \ {"pwrm", "mmio", "base", "interrupt"}
CpStopDevice(held) == CpStopped(held)

CpStop ==
    /\ CpPnpAccepted /\ cpDev = "started"
    /\ cpFlags' = (cpFlags \ {"Started"}) \cup {"Stopping"}
    /\ cpHeld' = CpStopDevice(cpHeld) /\ cpDev' = "stopped"
    /\ UNCHANGED <<cpLpss, cpPnp, cpLockVars, cpChildVars>>

CpSurprise ==
    /\ CpPnpAccepted /\ cpDev \in {"started", "stopped", "failed"}
    /\ cpFlags' = (cpFlags \ {"Started"}) \cup {"Stopping", "Removed", "SurpriseRemoved"}
    /\ cpHeld' = CpStopDevice(cpHeld) /\ cpDev' = "surprised"
    /\ UNCHANGED <<cpLpss, cpPnp, cpLockVars, cpChildVars>>

(* IRP_MN_REMOVE_DEVICE: RemoveDevice, the lower device, the wait for the  *)
(* lock, and the deletion.  PnP has removed the children it knows before.  *)
CpRemove ==
    /\ CpPnpAccepted
    /\ CpSigned => \A c \in CpChild : cpChild[c] \in {"none", "new"}
    /\ cpFlags' = (cpFlags \ {"Started"}) \cup {"Stopping", "Removed"}
    /\ cpHeld' = CpStopDevice(cpHeld) /\ cpPnp' = "waiting"
    /\ UNCHANGED <<cpDev, cpLpss, cpLockVars, cpChildVars>>

CpNobodyWaits == TRUE
CpLockReleased == cpLock = 0

CpRemoveDelete ==
    /\ cpPnp = "waiting" /\ CpLockReleased
    /\ cpDev' = "deleted" /\ cpPnp' = "none"
    /\ UNCHANGED <<cpLpss, cpStartVars, cpLockVars, cpChildVars>>

CpNext ==
    \/ CpAddDevice \/ CpStart \/ CpStartCompletion \/ CpStartFailsBelow
    \/ CpStop \/ CpSurprise \/ CpRemove \/ CpRemoveDelete
    \/ CpQueryDeviceId \/ CpQueryDeviceRelations
    \/ \E f \in CpFile : \/ CpCreate(f) \/ CpClose(f) \/ CpCleanup(f) \/ CpInvalidIrp(f)
                         \/ CpReleaseLockCompletion(f)
    \/ \E c \in CpChild : CpChildStart(c) \/ CpChildPowerOff(c) \/ CpChildRemove(c)

CpSpec == CpInit /\ [][CpNext]_cpVars

-----------------------------------------------------------------------------
(* A device object is deleted only when no request that took its remove    *)
(* lock is with the lower device, whose completion would touch it.         *)
CpDeletedUnused == cpDev = "deleted" => \A f \in CpFile : cpFile[f] # "lower"

(* Between two PnP requests a device that is not started has nothing       *)
(* mapped and no interrupt connected, however its last start failed.       *)
CpIdleHoldsNothing ==
    cpPnp = "none" /\ "Started" \notin cpFlags =>
        cpHeld \cap {"mmio", "pwrm", "bar2", "interrupt"} = {}

(* A device that serves requests has its registers mapped where MmioBase   *)
(* points; only a device that does not is left with a stale MmioBase.      *)
CpServedIsMapped == "Started" \in cpFlags => {"mmio", "base"} \subseteq cpHeld

(* NumChildren is the length of ChildList, over every start that deletes   *)
(* and enumerates the children again, until an entry is unlinked twice.    *)
CpChildrenCounted == ~cpStale => cpCount = Cardinality(CpListed(cpChild))

(* The remove lock is held by the requests below and the start, and by     *)
(* those that never release it: a remove ends unless one of them leaked.   *)
CpLockBalanced ==
    CpPresent => cpLock = Cardinality({f \in CpFile : cpFile[f] = "lower"}) + cpLeaked
                             + (IF cpPnp = "start" THEN 1 ELSE 0)

(* A device holds registers and interrupt exactly when it serves requests, *)
(* through failed starts, stops and restarts.                              *)
CpHoldsWhatItServes == CpIdleHoldsNothing /\ CpServedIsMapped
=============================================================================
