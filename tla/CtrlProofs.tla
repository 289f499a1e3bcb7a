------------------------------ MODULE CtrlProofs ------------------------------
(***************************************************************************)
(* What the parts of i2cctrl around the transfer engine keep, however many *)
(* requests, children and clients there are: the IOCTL dispatch implements *)
(* IrpContract, PnP keeps the remove lock, the child count and the         *)
(* hardware, power management keeps its WAIT_WAKE and its states, a        *)
(* synchronous transfer succeeds only when it was woken, a transfer under  *)
(* the policy only with every command sent and every byte in order, a      *)
(* polled call that succeeds has the answers of its own device, and the    *)
(* packet error code notices every changed byte.                           *)
(* Each part has an inductive invariant of its own over its own            *)
(* specification.                                                          *)
(***************************************************************************)
EXTENDS CtrlIoctl, CtrlPnp, CtrlPower, SpbBus, XferPolicy, BusProtocols, SmbusPec,
        Integers, FiniteSetTheorems, SequenceTheorems, WellFoundedInduction, TLAPS

(***************************************************************************)
(* CtrlIoctl implements IrpContract.                                       *)
(***************************************************************************)
CrSteps == {"free", "owned", "lower", "done", "returned", "twice", "cancellable",
            "parked", "taken"}

(* Only HID reads are parked, only an evaluation is passed down, and only  *)
(* the facades lose a request.                                             *)
CrInv ==
    /\ crAt \in [CrIrp -> CrSteps] /\ crCode \in [CrIrp -> CrCodes]
    /\ \A i \in CrIrp :
          /\ crAt[i] \in {"cancellable", "parked", "taken"} => crCode[i] = "readReport"
          /\ crAt[i] = "lower" => crCode[i] = "acpiEval"
          /\ crAt[i] \in {"returned", "twice"} => crCode[i] \in CrFacade \cup {"unknown"}

(* What a request that moves becomes in the contract's eyes.               *)
CrSeenAs(code, at) ==
    IF code \in CrFacade \cup {"unknown"} /\ at # "free" THEN "owned"
    ELSE CASE at = "free" -> "free"
           [] at = "parked" -> "parked"
           [] at = "done" -> "completed"
           [] OTHER -> "owned"

CrLegal ==
    {<<"free", "owned">>, <<"owned", "parked">>, <<"parked", "owned">>, <<"owned", "completed">>}

(* When one request moves and the contract allows what it sees of that,    *)
(* the step is a step of the contract.                                     *)
LEMMA CrOneMoves ==
    ASSUME NEW i \in CrIrp, NEW at, crAt \in [CrIrp -> CrSteps],
           crAt' = [crAt EXCEPT ![i] = at],
           \A j \in CrIrp \ {i} : crCode'[j] = crCode[j],
           \/ CrSeenAs(crCode[i], crAt[i]) = CrSeenAs(crCode'[i], at)
           \/ <<CrSeenAs(crCode[i], crAt[i]), CrSeenAs(crCode'[i], at)>> \in CrLegal
    PROVE  [CrContract!Next]_CrContractState
  <1> DEFINE s == CrSeenAs(crCode[i], crAt[i])
             t == CrSeenAs(crCode'[i], at)
  <1>1. CrContractState = [j \in CrIrp |-> CrSeenAs(crCode[j], crAt[j])]
    BY DEF CrContractState, CrSeenAs
  <1>2. CrContractState' = [j \in CrIrp |-> CrSeenAs(crCode'[j], crAt'[j])]
    BY DEF CrContractState, CrSeenAs
  <1>3. crAt'[i] = at /\ \A j \in CrIrp \ {i} : crAt'[j] = crAt[j]
    OBVIOUS
  <1>4. CrContractState[i] = s
    BY <1>1
  <1> HIDE DEF s, t
  <1>5. CrContractState' = [CrContractState EXCEPT ![i] = t]
    BY <1>1, <1>2, <1>3 DEF t
  <1>6. CASE s = t
    BY <1>1, <1>4, <1>5, <1>6
  <1>7. CASE <<s, t>> \in CrLegal
    BY <1>4, <1>5, <1>7 DEF CrLegal, CrContract!Next, CrContract!Move, CrContract!Receive,
       CrContract!Park, CrContract!Take, CrContract!Complete
  <1> QED
    BY <1>6, <1>7 DEF s, t

(* The moves of a request that end or begin its time with the driver.      *)
LEMMA CrMovesOn ==
    ASSUME CrInv, NEW i \in CrIrp, NEW code \in CrCodes,
           \/ CrArrive(i, code) \/ CrPassDown(i) \/ CrLowerCompletes(i) \/ CrNotReady(i)
           \/ CrDescriptor(i) \/ CrFeatureReport(i)
           \/ CrAcpiexHandled(i) \/ CrSpbcxHandled(i) \/ CrSpbcxRefused(i)
    PROVE  CrInv' /\ [CrContract!Next]_CrContractState
  <1> USE DEF CrInv, CrSteps, CrCodes, CrFeature, CrFacade, CrMove, CrCompleteDirect, CrHere
  <1>1. PICK at \in CrSteps :
           /\ crAt' = [crAt EXCEPT ![i] = at]
           /\ \A j \in CrIrp \ {i} : crCode'[j] = crCode[j]
           /\ \/ CrSeenAs(crCode[i], crAt[i]) = CrSeenAs(crCode'[i], at)
              \/ <<CrSeenAs(crCode[i], crAt[i]), CrSeenAs(crCode'[i], at)>> \in CrLegal
    <2> USE DEF CrSeenAs, CrLegal
    <2>1. CASE CrArrive(i, code)
      BY <2>1 DEF CrArrive
    <2>2. CASE CrPassDown(i)
      BY <2>2 DEF CrPassDown
    <2>3. CASE CrLowerCompletes(i)
      BY <2>3 DEF CrLowerCompletes
    <2>4. CASE CrNotReady(i)
      BY <2>4 DEF CrNotReady
    <2>5. CASE CrDescriptor(i)
      BY <2>5 DEF CrDescriptor
    <2>6. CASE CrFeatureReport(i)
      BY <2>6 DEF CrFeatureReport
    <2>7. CASE CrAcpiexHandled(i) \/ CrSpbcxHandled(i)
      BY <2>7 DEF CrAcpiexHandled, CrSpbcxHandled
    <2>8. CASE CrSpbcxRefused(i)
      BY <2>8 DEF CrSpbcxRefused
    <2> QED
      BY <2>1, <2>2, <2>3, <2>4, <2>5, <2>6, <2>7, <2>8
  <1>2. [CrContract!Next]_CrContractState
    BY <1>1, CrOneMoves
  <1>3. CrInv'
    BY DEF CrArrive, CrPassDown, CrLowerCompletes, CrNotReady, CrDescriptor, CrFeatureReport,
           CrAcpiexHandled, CrSpbcxHandled, CrSpbcxRefused
  <1> QED
    BY <1>2, <1>3

(* The moves of a HID read, whose cancel routine may run at any of them.   *)
LEMMA CrReadMoves ==
    ASSUME CrInv, NEW i \in CrIrp,
           \/ CrReadInvalid(i) \/ CrReadSetCancel(i) \/ CrReadTakesSlot(i) \/ CrReadBusy(i)
           \/ CrIoCancelIrp(i) \/ CrHidCancelRead(i) \/ CrCancelCompletes(i)
    PROVE  CrInv' /\ [CrContract!Next]_CrContractState
  <1> USE DEF CrInv, CrSteps, CrCodes, CrMove, CrCompleteDirect, CrHere
  <1>1. PICK at \in CrSteps :
           /\ crAt' = [crAt EXCEPT ![i] = at]
           /\ \A j \in CrIrp \ {i} : crCode'[j] = crCode[j]
           /\ \/ CrSeenAs(crCode[i], crAt[i]) = CrSeenAs(crCode'[i], at)
              \/ <<CrSeenAs(crCode[i], crAt[i]), CrSeenAs(crCode'[i], at)>> \in CrLegal
    <2> USE DEF CrSeenAs, CrLegal, CrFacade
    <2>1. CASE CrReadInvalid(i) \/ CrReadBusy(i)
      BY <2>1 DEF CrReadInvalid, CrReadBusy
    <2>2. CASE CrReadSetCancel(i) \/ CrReadTakesSlot(i)
      BY <2>2 DEF CrReadSetCancel, CrReadTakesSlot
    <2>3. CASE CrIoCancelIrp(i)
      <3>1. crAt' = [crAt EXCEPT ![i] = crAt[i]] /\ crCode' = crCode
        BY <2>3 DEF CrIoCancelIrp
      <3> QED
        BY <3>1
    <2>4. CASE CrHidCancelRead(i)
      <3>1. crCode' = crCode
        BY <2>4 DEF CrHidCancelRead
      <3>2. \/ crAt[i] = "parked" /\ crAt' = [crAt EXCEPT ![i] = "taken"]
            \/ crAt' = [crAt EXCEPT ![i] = crAt[i]]
        BY <2>4 DEF CrHidCancelRead
      <3> QED
        BY <3>1, <3>2
    <2>5. CASE CrCancelCompletes(i)
      BY <2>5 DEF CrCancelCompletes
    <2> QED
      BY <2>1, <2>2, <2>3, <2>4, <2>5
  <1>2. [CrContract!Next]_CrContractState
    BY <1>1, CrOneMoves
  <1>3. CrInv'
    BY DEF CrReadInvalid, CrReadSetCancel, CrReadTakesSlot, CrReadBusy, CrIoCancelIrp,
           CrHidCancelRead, CrCancelCompletes
  <1> QED
    BY <1>2, <1>3

(* Whatever requests arrive, in whatever order they are parked, answered   *)
(* and cancelled, and however often the device starts and stops: a HID     *)
(* read and a request this driver answers itself has one owner and is      *)
(* completed at most once, out of the slot as well.                        *)
THEOREM CrImplementsContract == CrSpec => CrHonoursContract
  <1>1. CrInit => CrInv /\ CrContract!Init
    BY DEF CrInit, CrInv, CrSteps, CrCodes, CrFacade, CrContractState, CrContract!Init
  <1>2. CrInv /\ [CrNext]_crVars => CrInv' /\ [CrContract!Next]_CrContractState
    <2> SUFFICES ASSUME CrInv, [CrNext]_crVars
                 PROVE  CrInv' /\ [CrContract!Next]_CrContractState
      OBVIOUS
    <2>1. CASE CrStart \/ CrStop \/ UNCHANGED crVars
      <3>1. UNCHANGED <<crAt, crCode>>
        BY <2>1 DEF CrStart, CrStop, crVars, crIrpVars
      <3> QED
        BY <3>1 DEF CrInv, CrContractState
    <2> QED
      BY <2>1, CrMovesOn, CrReadMoves DEF CrNext, CrCodes
  <1> QED
    BY <1>1, <1>2, PTL DEF CrSpec, CrHonoursContract, CrContract!Spec

-----------------------------------------------------------------------------
(***************************************************************************)
(* CtrlPnp: the remove lock, what the device holds, and NumChildren.       *)
(***************************************************************************)
CpLower == {f \in CpFile : cpFile[f] = "lower"}
CpStartHolds == IF cpPnp = "start" THEN 1 ELSE 0

(* The lock is balanced in every state, a deleted device's included, and   *)
(* nobody has taken it since the deletion.                                 *)
CpLockInv ==
    /\ cpLock \in Nat /\ cpLeaked \in Nat
    /\ cpFile \in [CpFile -> {"free", "lower", "done"}]
    /\ cpLock = Cardinality(CpLower) + cpLeaked + CpStartHolds
    /\ cpDev = "deleted" => CpLower = {}

(* The requests below can be counted.                                      *)
LEMMA CpLowerFinite == IsFiniteSet(CpLower) /\ Cardinality(CpLower) \in Nat
  <1>1. CpLower \subseteq CpFile /\ IsFiniteSet(CpFile)
    BY CpAssumption DEF CpLower
  <1>2. IsFiniteSet(CpLower)
    BY <1>1, FS_Subset
  <1> QED
    BY <1>2, FS_CardinalityType

(* A file request that is passed down takes the lock once.                 *)
LEMMA CpAcquireInv ==
    ASSUME CpLockInv, NEW f \in CpFile, CpAcquireAndPass(f)
    PROVE  CpLockInv'
  <1>1. CpLower' = CpLower \cup {f} /\ f \notin CpLower
    BY DEF CpLockInv, CpAcquireAndPass, CpLower
  <1>2. Cardinality(CpLower') = Cardinality(CpLower) + 1
    BY <1>1, CpLowerFinite, FS_AddElement
  <1> QED
    BY <1>2, CpLowerFinite
    DEF CpLockInv, CpAcquireAndPass, CpStartHolds, CpLockOpen, CpPresent

(* Its completion gives the lock back once.                                *)
LEMMA CpReleaseInv ==
    ASSUME CpLockInv, NEW f \in CpFile, CpReleaseLockCompletion(f)
    PROVE  CpLockInv'
  <1>1. CpLower' = CpLower \ {f} /\ f \in CpLower
    BY DEF CpLockInv, CpReleaseLockCompletion, CpLower
  <1>2. Cardinality(CpLower') = Cardinality(CpLower) - 1 /\ Cardinality(CpLower') \in Nat
    BY <1>1, CpLowerFinite, FS_RemoveElement, FS_CardinalityType
  <1>3. cpLock' \in Nat /\ cpLock' = Cardinality(CpLower') + cpLeaked' + CpStartHolds'
    BY <1>2, CpLowerFinite DEF CpLockInv, CpReleaseLockCompletion, CpStartHolds
  <1> QED
    BY <1>1, <1>3 DEF CpLockInv, CpReleaseLockCompletion

(* So does a start, and the one that wants to delete waits for them all.   *)
LEMMA CpPnpLockInv ==
    ASSUME CpLockInv,
           \/ CpAddDevice \/ CpStart \/ CpStartCompletion \/ CpStartFailsBelow
           \/ CpStop \/ CpSurprise \/ CpRemove \/ CpRemoveDelete
           \/ CpQueryDeviceId \/ CpQueryDeviceRelations
    PROVE  CpLockInv'
  <1>1. CpLower' = CpLower /\ cpFile' = cpFile
    BY DEF CpAddDevice, CpStart, CpStartCompletion, CpStartFailsBelow, CpStop, CpSurprise,
           CpRemove, CpRemoveDelete, CpQueryDeviceId, CpQueryDeviceRelations, cpLockVars, CpLower
  <1> USE CpLowerFinite DEF CpLockInv, CpStartHolds, cpLockVars
  <1>2. CASE CpAddDevice \/ CpStop \/ CpSurprise \/ CpQueryDeviceRelations
    BY <1>1, <1>2 DEF CpAddDevice, CpStop, CpSurprise, CpQueryDeviceRelations
  <1>3. CASE CpStart
    BY <1>1, <1>3 DEF CpStart, CpPnpAccepted
  <1>4. CASE CpStartCompletion
    BY <1>1, <1>4 DEF CpStartCompletion
  <1>5. CASE CpStartFailsBelow
    BY <1>1, <1>5 DEF CpStartFailsBelow
  <1>6. CASE CpRemove
    BY <1>1, <1>6 DEF CpRemove, CpPnpAccepted
  <1>7. CASE CpRemoveDelete
    <2>1. Cardinality(CpLower) = 0
      BY <1>7 DEF CpRemoveDelete, CpLockReleased
    <2>2. CpLower = {}
      BY <2>1, FS_EmptySet
    <2> QED
      BY <1>1, <1>7, <2>2 DEF CpRemoveDelete
  <1>8. CASE CpQueryDeviceId
    BY <1>1, <1>8 DEF CpQueryDeviceId
  <1> QED
    BY <1>2, <1>3, <1>4, <1>5, <1>6, <1>7, <1>8

(* The lock's invariant holds in every reachable state.                    *)
LEMMA CpLockInvariant == CpSpec => []CpLockInv
  <1>1. CpInit => CpLockInv
    <2> SUFFICES ASSUME CpInit PROVE CpLockInv
      OBVIOUS
    <2>1. CpLower = {}
      BY DEF CpInit, CpLower
    <2>2. Cardinality(CpLower) = 0
      BY <2>1, FS_EmptySet
    <2> QED
      BY <2>1, <2>2 DEF CpInit, CpLockInv, CpStartHolds
  <1>2. CpLockInv /\ [CpNext]_cpVars => CpLockInv'
    <2> SUFFICES ASSUME CpLockInv, [CpNext]_cpVars
                 PROVE  CpLockInv'
      OBVIOUS
    <2>1. CASE \/ UNCHANGED cpVars
               \/ \E c \in CpChild : CpChildStart(c) \/ CpChildPowerOff(c) \/ CpChildRemove(c)
      <3>1. UNCHANGED <<cpLock, cpFile, cpLeaked, cpPnp, cpDev>>
        BY <2>1 DEF cpVars, cpLockVars, CpChildStart, CpChildPowerOff, CpChildRemove
      <3> QED
        BY <3>1 DEF CpLockInv, CpLower, CpStartHolds
    <2> QED
      BY <2>1, CpAcquireInv, CpReleaseInv, CpPnpLockInv
      DEF CpNext, CpCreate, CpClose, CpCleanup, CpInvalidIrp
  <1> QED
    BY <1>1, <1>2, PTL DEF CpSpec

(* The remove lock counts the requests below, the start and the leaks, so  *)
(* a remove waits for each of them, for any number of requests.            *)
THEOREM CpLockAlwaysBalanced == CpSpec => []CpLockBalanced
  <1>1. CpLockInv => CpLockBalanced
    BY DEF CpLockInv, CpLockBalanced, CpLower, CpStartHolds
  <1> QED
    BY <1>1, CpLockInvariant, PTL

(* No request is below when the device object goes.                        *)
THEOREM CpNeverDeletedInUse == CpSpec => []CpDeletedUnused
  <1>1. CpLockInv => CpDeletedUnused
    BY DEF CpLockInv, CpDeletedUnused, CpLower
  <1> QED
    BY <1>1, CpLockInvariant, PTL

-----------------------------------------------------------------------------
(* ChildList holds what NumChildren counts; a child's removal unlinks one  *)
(* entry, the others move none.                                            *)
CpCountInv ==
    /\ cpChild \in [CpChild -> {"none", "new", "reported", "running", "orphan"}]
    /\ CpChildrenCounted

(* So can the entries of ChildList.                                        *)
LEMMA CpListedFinite ==
    ASSUME NEW ch
    PROVE  IsFiniteSet(CpListed(ch)) /\ Cardinality(CpListed(ch)) \in Nat
  <1>1. CpListed(ch) \subseteq CpChild /\ IsFiniteSet(CpChild)
    BY CpAssumption DEF CpListed
  <1>2. IsFiniteSet(CpListed(ch))
    BY <1>1, FS_Subset
  <1> QED
    BY <1>2, FS_CardinalityType

(* Deletion and enumeration, nested as they are, yield a list of children. *)
LEMMA CpCreateI2cDeviceType ==
    ASSUME NEW ch \in [CpChild -> {"none", "new", "reported", "running", "orphan"}], NEW flags
    PROVE  CpCreateI2cDevice(ch, flags) \subseteq
              [CpChild -> {"none", "new", "reported", "running", "orphan"}]
  <1> DEFINE Lists == [CpChild -> {"none", "new", "reported", "running", "orphan"}]
  <1>1. ASSUME NEW old \in Lists
        PROVE  /\ CpDeenumerateAcpiChildren(old) \in Lists
               /\ CpReenumerateAcpiChildren(old, flags) \subseteq Lists
    <2>1. CpDeenumerateAcpiChildren(old) \in Lists
      BY DEF CpDeenumerateAcpiChildren
    <2>2. ASSUME NEW mid \in Lists
          PROVE  CpEnumerateAcpiChildren(mid, flags) \subseteq Lists
      BY DEF CpEnumerateAcpiChildren
    <2> QED
      BY <2>1, <2>2 DEF CpReenumerateAcpiChildren
  <1> HIDE DEF Lists
  <1>2. ASSUME NEW old \in Lists
        PROVE  CpCreateTouchpad(old, flags) \cup CpCreateSpeaker(old, flags) \subseteq Lists
    BY <1>1 DEF CpCreateTouchpad, CpCreateSpeaker
  <1>3. CpReenumerateAcpiChildren(ch, flags) \subseteq Lists
    BY <1>1 DEF Lists
  <1> QED
    BY <1>2, <1>3 DEF CpCreateI2cDevice, Lists

(* A start counts the entries it deletes and those it appends.             *)
LEMMA CpStartCompletionCount ==
    ASSUME CpCountInv, CpStartCompletion
    PROVE  CpCountInv'
  <1>1. cpStale' = cpStale
    BY DEF CpStartCompletion
  <1>2. CASE UNCHANGED <<cpChild, cpCount>>
    BY <1>1, <1>2 DEF CpCountInv, CpChildrenCounted
  <1>3. CASE /\ cpChild' \in CpCreateI2cDevice(cpChild, cpFlags')
             /\ cpCount' = CpCountAfter(cpChild')
    <2>1. cpChild' \in [CpChild -> {"none", "new", "reported", "running", "orphan"}]
      BY <1>3, CpCreateI2cDeviceType DEF CpCountInv
    <2>2. ~cpStale => cpCount' = Cardinality(CpListed(cpChild'))
      BY <1>3, CpListedFinite DEF CpCountInv, CpChildrenCounted, CpCountAfter
    <2> QED
      BY <1>1, <2>1, <2>2 DEF CpCountInv, CpChildrenCounted
  <1> QED
    BY <1>2, <1>3 DEF CpStartCompletion

(* So does a query that finds the children again; reporting moves none.    *)
LEMMA CpQueryCount ==
    ASSUME CpCountInv, CpQueryDeviceRelations
    PROVE  CpCountInv'
  <1> DEFINE Lists == [CpChild -> {"none", "new", "reported", "running", "orphan"}]
  <1>1. PICK ch \in CpChildrenFound :
           cpChild' \in {CpReported(ch), ch} /\ cpCount' = CpCountAfter(ch)
    BY DEF CpQueryDeviceRelations
  <1>2. ch \in Lists
    BY CpCreateI2cDeviceType DEF CpChildrenFound, CpCountInv
  <1>3. cpChild' \in Lists /\ CpListed(cpChild') = CpListed(ch)
    <2>1. CpReported(ch) \in Lists /\ CpListed(CpReported(ch)) = CpListed(ch)
      BY <1>2 DEF CpReported, CpListed
    <2> QED
      BY <1>1, <1>2, <2>1
  <1>4. cpCount' = Cardinality(CpListed(ch))
    BY <1>1, CpListedFinite
    DEF CpQueryDeviceRelations, CpCountInv, CpChildrenCounted, CpCountAfter
  <1> QED
    BY <1>3, <1>4 DEF CpCountInv, CpChildrenCounted

(* A removal takes one from both, unless the entry was unlinked before.    *)
LEMMA CpChildRemoveCount ==
    ASSUME CpCountInv, NEW c \in CpChild, CpChildRemove(c)
    PROVE  CpCountInv'
  <1>1. cpChild' \in [CpChild -> {"none", "new", "reported", "running", "orphan"}]
    BY DEF CpCountInv, CpChildRemove
  <1>2. ASSUME ~cpStale'
        PROVE  cpCount' = Cardinality(CpListed(cpChild'))
    <2>1. ~cpStale /\ cpChild[c] \in {"reported", "running"}
      BY <1>2 DEF CpChildRemove
    <2>2. CpListed(cpChild') = CpListed(cpChild) \ {c} /\ c \in CpListed(cpChild)
      BY <2>1 DEF CpCountInv, CpChildRemove, CpListed
    <2>3. Cardinality(CpListed(cpChild')) = Cardinality(CpListed(cpChild)) - 1
      BY <2>2, CpListedFinite, FS_RemoveElement
    <2>4. Cardinality(CpListed(cpChild)) > 0
      BY <2>3, CpListedFinite
    <2> QED
      BY <2>1, <2>3, <2>4, CpListedFinite DEF CpCountInv, CpChildrenCounted, CpChildRemove
  <1> QED
    BY <1>1, <1>2 DEF CpCountInv, CpChildrenCounted

(* NumChildren is the length of ChildList through every start, query and   *)
(* removal, for any number of children, until one is unlinked twice.       *)
THEOREM CpChildrenAlwaysCounted == CpSpec => []CpChildrenCounted
  <1>1. CpInit => CpCountInv
    <2> SUFFICES ASSUME CpInit PROVE CpCountInv
      OBVIOUS
    <2>1. CpListed(cpChild) = {}
      BY DEF CpInit, CpListed
    <2> QED
      BY <2>1, FS_EmptySet DEF CpInit, CpCountInv, CpChildrenCounted
  <1>2. CpCountInv /\ [CpNext]_cpVars => CpCountInv'
    <2> SUFFICES ASSUME CpCountInv, [CpNext]_cpVars
                 PROVE  CpCountInv'
      OBVIOUS
    <2>1. CASE UNCHANGED <<cpChild, cpCount, cpStale>>
      BY <2>1 DEF CpCountInv, CpChildrenCounted
    <2>2. CASE \E c \in CpChild : CpChildStart(c) \/ CpChildPowerOff(c)
      <3>1. /\ cpChild' \in [CpChild -> {"none", "new", "reported", "running", "orphan"}]
            /\ CpListed(cpChild') = CpListed(cpChild)
        BY <2>2 DEF CpCountInv, CpChildStart, CpChildPowerOff, CpListed
      <3> QED
        BY <2>2, <3>1 DEF CpCountInv, CpChildrenCounted, CpChildStart, CpChildPowerOff
    <2>4. CASE \/ UNCHANGED cpVars \/ CpAddDevice \/ CpStart \/ CpStartFailsBelow
               \/ CpStop \/ CpSurprise \/ CpRemove \/ CpRemoveDelete \/ CpQueryDeviceId
               \/ \E f \in CpFile : CpAcquireAndPass(f) \/ CpReleaseLockCompletion(f)
      BY <2>1, <2>4
      DEF cpVars, cpChildVars, CpAddDevice, CpStart, CpStartFailsBelow, CpStop, CpSurprise,
          CpRemove, CpRemoveDelete, CpQueryDeviceId, CpAcquireAndPass, CpReleaseLockCompletion
    <2> QED
      BY <2>2, <2>4, CpQueryCount, CpStartCompletionCount, CpChildRemoveCount
      DEF CpNext, CpCreate, CpClose, CpCleanup, CpInvalidIrp
  <1>3. CpCountInv => CpChildrenCounted
    BY DEF CpCountInv
  <1> QED
    BY <1>1, <1>2, <1>3, PTL DEF CpSpec

-----------------------------------------------------------------------------
(* What the device holds, first along the parts of I2cCtrl_StartDevice.    *)
CpFlagNames == {"InitDone", "DpcInitialized", "HardwareFailure", "Ops", "Started", "Removed",
                "Stopping", "UnsupportedPlatform", "SurpriseRemoved"}
CpHardware == {"mmio", "pwrm", "bar2", "interrupt"}
CpThings == CpHardware \cup {"base", "pnpid"}

CpOutcomes == [flags : SUBSET CpFlagNames, held : SUBSET CpThings, ok : BOOLEAN]

CpIdle(o) == o \in CpOutcomes /\ "Started" \notin o.flags /\ o.held \cap CpHardware = {}

CpMapped(o) ==
    /\ o \in CpOutcomes /\ "Started" \notin o.flags
    /\ o.held \cap CpHardware = {"mmio"} /\ "base" \in o.held

CpServes(o) == o \in CpOutcomes /\ "Started" \in o.flags /\ {"mmio", "base"} \subseteq o.held

(* An outcome is made of what it is made from.                             *)
LEMMA CpOutcome ==
    ASSUME NEW f \in SUBSET CpFlagNames, NEW h \in SUBSET CpThings, NEW ok \in BOOLEAN
    PROVE  /\ CpOut(f, h, ok) \in CpOutcomes
           /\ CpOut(f, h, ok).flags = f /\ CpOut(f, h, ok).held = h /\ CpOut(f, h, ok).ok = ok
  BY DEF CpOut, CpOutcomes

(* A part that fails changes neither the flags nor what is held.           *)
LEMMA CpFailed ==
    ASSUME NEW o \in CpOutcomes
    PROVE  LET p == [o EXCEPT !.ok = FALSE]
           IN p \in CpOutcomes /\ p.flags = o.flags /\ p.held = o.held /\ ~p.ok
  BY DEF CpOutcomes

(* Until the registers are mapped nothing is held, and a part that fails   *)
(* after that unmaps them.                                                 *)
LEMMA CpUntilDisabled ==
    ASSUME NEW f \in SUBSET CpFlagNames, NEW h \in SUBSET CpThings, CpIdle(CpOut(f, h, TRUE))
    PROVE  LET matched == CpThen(CpMatchController(CpOut(f, h, TRUE)), CpFindResources)
               mapped == CpThen(CpThen(matched, CpMapRegisters), CpDeadBar)
               disabled == CpThen(CpThen(mapped, CpInitOnce), CpWaitDisabled)
           IN \A o \in disabled : IF o.ok THEN CpMapped(o) ELSE CpIdle(o)
  <1> DEFINE Good(o) == IF o.ok THEN CpMapped(o) ELSE CpIdle(o)
             start == CpOut(f, h, TRUE)
             matched == CpThen(CpMatchController(start), CpFindResources)
             regs == CpThen(matched, CpMapRegisters)
             mapped == CpThen(regs, CpDeadBar)
             once == CpThen(mapped, CpInitOnce)
             disabled == CpThen(once, CpWaitDisabled)
  <1>1. \A o \in matched : CpIdle(o)
    <2>1. \A o \in CpMatchController(start) : CpIdle(o)
      <3>1. start \in CpOutcomes /\ start.flags = f /\ start.held = h
        BY CpOutcome
      <3>2. "Started" \notin f /\ h \cap CpHardware = {}
        BY <3>1 DEF CpIdle
      <3>3. h \cup {"pnpid"} \in SUBSET CpThings /\ (h \cup {"pnpid"}) \cap CpHardware = {}
        BY <3>2 DEF CpThings, CpHardware
      <3>4. ASSUME NEW g \in {h, h \cup {"pnpid"}}, NEW ok \in BOOLEAN
            PROVE  CpIdle(CpOut(f, g, ok))
        <4>1. g \in SUBSET CpThings /\ g \cap CpHardware = {}
          BY <3>2, <3>3
        <4>2. CpOut(f, g, ok) \in CpOutcomes /\ CpOut(f, g, ok).flags = f
              /\ CpOut(f, g, ok).held = g
          BY <4>1, CpOutcome
        <4> QED
          BY <3>2, <4>1, <4>2 DEF CpIdle
      <3>5. CpMatchController(start) =
               {CpOut(f, h, FALSE), CpOut(f, h \cup {"pnpid"}, FALSE),
                CpOut(f, h \cup {"pnpid"}, TRUE)}
        BY <3>1 DEF CpMatchController
      <3> HIDE DEF start
      <3> QED
        BY <3>4, <3>5
    <2>2. ASSUME NEW o, CpIdle(o), NEW p \in CpFindResources(o)
          PROVE  CpIdle(p)
      BY <2>2, CpFailed DEF CpFindResources, CpIdle
    <2> QED
      BY <2>1, <2>2 DEF CpThen
  <1> HIDE DEF matched
  <1>2. \A o \in regs : Good(o)
    <2>1. ASSUME NEW o, CpIdle(o), NEW p \in CpMapRegisters(o)
          PROVE  Good(p)
      <3>1. CASE p = [o EXCEPT !.ok = FALSE]
        BY <2>1, <3>1, CpFailed DEF CpIdle
      <3>2. CASE p = CpOut(o.flags, o.held \cup {"mmio", "base"}, TRUE)
        <4>1. o.flags \in SUBSET CpFlagNames /\ o.held \cup {"mmio", "base"} \in SUBSET CpThings
          BY <2>1 DEF CpIdle, CpOutcomes, CpThings, CpHardware
        <4>2. /\ p \in CpOutcomes /\ p.ok
              /\ p.flags = o.flags /\ p.held = o.held \cup {"mmio", "base"}
          BY <3>2, <4>1 DEF CpOut, CpOutcomes
        <4> QED
          BY <2>1, <4>2 DEF CpMapped, CpIdle, CpHardware
      <3> QED
        BY <2>1, <3>1, <3>2 DEF CpMapRegisters
    <2>2. \A o \in {o \in matched : ~o.ok} : Good(o)
      BY <1>1
    <2> QED
      BY <1>1, <2>1, <2>2 DEF CpThen
  <1> HIDE DEF regs
  <1>3. ASSUME NEW o, CpMapped(o)
        PROVE  LET p == CpOut(o.flags \cup {"HardwareFailure"}, o.held \ {"mmio"}, FALSE)
               IN ~p.ok /\ CpIdle(p)
    <2>1. /\ o.flags \cup {"HardwareFailure"} \in SUBSET CpFlagNames
          /\ o.held \ {"mmio"} \in SUBSET CpThings
      BY <1>3 DEF CpMapped, CpOutcomes, CpFlagNames
    <2>2. LET p == CpOut(o.flags \cup {"HardwareFailure"}, o.held \ {"mmio"}, FALSE)
          IN /\ p \in CpOutcomes /\ ~p.ok
             /\ p.flags = o.flags \cup {"HardwareFailure"} /\ p.held = o.held \ {"mmio"}
      BY <2>1 DEF CpOut, CpOutcomes
    <2>3. "Started" \notin o.flags /\ o.held \cap CpHardware = {"mmio"}
      BY <1>3 DEF CpMapped
    <2>4. /\ "Started" \notin o.flags \cup {"HardwareFailure"}
          /\ (o.held \ {"mmio"}) \cap CpHardware = {}
      BY <2>3
    <2> QED
      BY <2>2, <2>4 DEF CpIdle
  <1>4. \A o \in mapped : Good(o)
    <2>1. ASSUME NEW o \in regs, o.ok, NEW p \in CpDeadBar(o)
          PROVE  Good(p)
      BY <1>2, <1>3, <2>1 DEF CpDeadBar
    <2> QED
      BY <1>2, <2>1 DEF CpThen
  <1> HIDE DEF mapped
  <1>5. \A o \in once : Good(o)
    <2>1. ASSUME NEW o \in mapped, o.ok, NEW p \in CpInitOnce(o)
          PROVE  Good(p)
      <3> DEFINE fl == IF "InitDone" \in o.flags THEN o.flags \cup {"DpcInitialized"}
                       ELSE (o.flags \cup {"InitDone"}) \ {"DpcInitialized"}
      <3>1. CpMapped(o)
        BY <1>4, <2>1
      <3>2. fl \in SUBSET CpFlagNames /\ "Started" \notin fl /\ o.held \in SUBSET CpThings
        BY <3>1 DEF CpMapped, CpOutcomes, CpFlagNames
      <3>3. p = CpOut(fl, o.held, TRUE)
        BY <2>1 DEF CpInitOnce
      <3> HIDE DEF fl
      <3>4. p \in CpOutcomes /\ p.ok /\ p.flags = fl /\ p.held = o.held
        BY <3>2, <3>3, CpOutcome
      <3> QED
        BY <3>1, <3>2, <3>4 DEF CpMapped
    <2> QED
      BY <1>4, <2>1 DEF CpThen
  <1> HIDE DEF once
  <1>6. \A o \in disabled : Good(o)
    <2>1. ASSUME NEW o \in once, o.ok, NEW p \in CpWaitDisabled(o)
          PROVE  Good(p)
      BY <1>3, <1>5, <2>1 DEF CpWaitDisabled
    <2> QED
      BY <1>5, <2>1 DEF CpThen
  <1> QED
    BY <1>6 DEF matched, regs, mapped, once

(* A start that ends in success serves, with the registers mapped; any     *)
(* other end, the unsupported platform's included, gives everything back.  *)
LEMMA CpStartDeviceOutcomes ==
    ASSUME cpFlags \in SUBSET CpFlagNames, cpHeld \in SUBSET CpThings,
           "Started" \notin cpFlags, cpHeld \cap CpHardware = {}, NEW o \in CpStartDevice
    PROVE  CpIdle(o) \/ CpServes(o)
  <1> DEFINE start == CpOut(cpFlags, cpHeld, TRUE)
             matched == CpThen(CpMatchController(start), CpFindResources)
             mapped == CpThen(CpThen(matched, CpMapRegisters), CpDeadBar)
             disabled == CpThen(CpThen(mapped, CpInitOnce), CpWaitDisabled)
  <1>1. CpIdle(start)
    <2>1. start \in CpOutcomes /\ start.flags = cpFlags /\ start.held = cpHeld
      BY CpOutcome
    <2> QED
      BY <2>1 DEF CpIdle
  <1>2. \A p \in disabled : IF p.ok THEN CpMapped(p) ELSE CpIdle(p)
    BY <1>1, CpUntilDisabled
  <1>3. CpStartDevice = {p \in disabled : ~p.ok} \cup
           UNION {CpFinish(p) : p \in UNION {CpConnect(q) : q \in {r \in disabled : r.ok}}}
    BY DEF CpStartDevice
  <1> HIDE DEF disabled
  <1>4. CASE o \in disabled /\ ~o.ok
    BY <1>2, <1>4
  <1>5. ASSUME NEW q \in disabled, q.ok, NEW p \in CpConnect(q), o \in CpFinish(p)
        PROVE  CpIdle(o) \/ CpServes(o)
    <2>1. CpMapped(q)
      BY <1>2, <1>5
    <2>2. /\ p \in CpOutcomes /\ "Started" \notin p.flags
          /\ {"mmio", "base"} \subseteq p.held /\ p.held \cap {"pwrm", "bar2"} = {}
      <3>1. CASE p = [q EXCEPT !.held = q.held \cup {"interrupt"}]
        <4>1. p \in CpOutcomes /\ p.flags = q.flags /\ p.held = q.held \cup {"interrupt"}
          BY <2>1, <3>1 DEF CpMapped, CpOutcomes, CpThings, CpHardware
        <4> QED
          BY <2>1, <4>1 DEF CpMapped, CpHardware
      <3>2. CASE p = q
        BY <2>1, <3>2 DEF CpMapped, CpHardware
      <3> QED
        BY <1>5, <3>1, <3>2 DEF CpConnect
    <2>3. ASSUME NEW r \in CpOutcomes, "Started" \notin r.flags, {"mmio", "base"} \subseteq r.held
          PROVE  CpServes(CpStarted(r)) /\ CpIdle(CpEnableFailed(r))
      <3> DEFINE fl == (CpInstallBackend(r.flags) \ {"Removed", "Stopping"}) \cup {"Started"}
                 fe == CpInstallBackend(r.flags) \cup {"HardwareFailure"}
      <3>1. fl \in SUBSET CpFlagNames /\ r.held \in SUBSET CpThings /\ "Started" \in fl
        BY <2>3 DEF CpOutcomes, CpFlagNames, CpInstallBackend
      <3>2. CpStarted(r) = CpOut(fl, r.held, TRUE)
        BY DEF CpStarted
      <3>3. /\ fe \in SUBSET CpFlagNames /\ CpStopped(r.held) \in SUBSET CpThings
            /\ "Started" \notin fe /\ CpStopped(r.held) \cap CpHardware = {}
        BY <2>3 DEF CpOutcomes, CpFlagNames, CpHardware, CpInstallBackend, CpStopped
      <3>4. CpEnableFailed(r) = CpOut(fe, CpStopped(r.held), FALSE)
        BY DEF CpEnableFailed
      <3> HIDE DEF fl, fe
      <3>5. /\ CpOut(fl, r.held, TRUE) \in CpOutcomes
            /\ CpOut(fl, r.held, TRUE).flags = fl /\ CpOut(fl, r.held, TRUE).held = r.held
        BY <3>1 DEF CpOut, CpOutcomes
      <3>6. /\ CpOut(fe, CpStopped(r.held), FALSE) \in CpOutcomes
            /\ CpOut(fe, CpStopped(r.held), FALSE).flags = fe
            /\ CpOut(fe, CpStopped(r.held), FALSE).held = CpStopped(r.held)
        BY <3>3 DEF CpOut, CpOutcomes
      <3>7. CpServes(CpStarted(r))
        BY <2>3, <3>1, <3>2, <3>5 DEF CpServes
      <3>8. CpIdle(CpEnableFailed(r))
        BY <3>3, <3>4, <3>6 DEF CpIdle
      <3> QED
        BY <3>7, <3>8
    <2>4. ASSUME NEW r \in CpLpssMap(p), o \in CpWaitEnabled(r)
          PROVE  CpIdle(o) \/ CpServes(o)
      <3>1. PICK extra \in SUBSET {"pwrm", "bar2"} : r = CpOut(p.flags, p.held \cup extra, TRUE)
        BY <2>4 DEF CpLpssMap
      <3>2. p.flags \in SUBSET CpFlagNames /\ p.held \cup extra \in SUBSET CpThings
        BY <2>2 DEF CpOutcomes, CpThings, CpHardware
      <3>3. r \in CpOutcomes /\ r.flags = p.flags /\ r.held = p.held \cup extra
        BY <3>1, <3>2 DEF CpOut, CpOutcomes
      <3> QED
        BY <2>2, <2>3, <2>4, <3>3 DEF CpWaitEnabled
    <2>5. CASE o \in CpWaitEnabled(p)
      BY <2>2, <2>3, <2>5 DEF CpWaitEnabled
    <2>6. CASE o = CpLpssUnsupported(p)
      <3> DEFINE fl == (p.flags \ {"Started"}) \cup {"UnsupportedPlatform"}
                 he == p.held \ {"interrupt", "mmio"}
      <3>1. /\ fl \in SUBSET CpFlagNames /\ he \in SUBSET CpThings
            /\ "Started" \notin fl /\ he \cap CpHardware = {}
        BY <2>2 DEF CpOutcomes, CpFlagNames, CpHardware
      <3>2. o = CpOut(fl, he, FALSE)
        BY <2>6 DEF CpLpssUnsupported
      <3> HIDE DEF fl, he
      <3>3. o \in CpOutcomes /\ o.flags = fl /\ o.held = he
        BY <3>1, <3>2 DEF CpOut, CpOutcomes
      <3> QED
        BY <3>1, <3>3 DEF CpIdle
    <2> QED
      BY <1>5, <2>4, <2>5, <2>6 DEF CpFinish
  <1> QED
    BY <1>3, <1>4, <1>5

(* A device that is about to start, or has none of its starts behind it,   *)
(* is not started, and what is not started holds no hardware.              *)
CpHeldInv ==
    /\ cpFlags \in SUBSET CpFlagNames /\ cpHeld \in SUBSET CpThings
    /\ "Started" \notin cpFlags => cpHeld \cap CpHardware = {}
    /\ CpServedIsMapped
    /\ cpPnp = "start" \/ cpDev \in {"none", "refused", "attached", "stopped", "failed"} =>
          "Started" \notin cpFlags

(* So a start leaves a device that serves, or one that holds nothing.      *)
LEMMA CpStartCompletionHeld ==
    ASSUME CpHeldInv, CpStartCompletion
    PROVE  CpHeldInv'
  <1>1. PICK o \in CpStartDevice : cpFlags' = o.flags /\ cpHeld' = o.held
    BY DEF CpStartCompletion
  <1>2. CpIdle(o) \/ CpServes(o)
    BY CpStartDeviceOutcomes DEF CpHeldInv, CpStartCompletion
  <1>3. cpPnp' = "none" /\ cpDev' = "started"
    BY DEF CpStartCompletion
  <1> QED
    BY <1>1, <1>2, <1>3 DEF CpHeldInv, CpIdle, CpServes, CpOutcomes, CpServedIsMapped

(* STOP, SURPRISE_REMOVAL and REMOVE give back all but the ID's copy.      *)
LEMMA CpStopHeld ==
    ASSUME CpHeldInv, CpStop \/ CpSurprise \/ CpRemove
    PROVE  CpHeldInv'
  <1>1. /\ cpFlags' \in SUBSET CpFlagNames /\ "Started" \notin cpFlags'
        /\ cpHeld' = CpStopped(cpHeld)
    BY DEF CpHeldInv, CpFlagNames, CpStop, CpSurprise, CpRemove, CpStopDevice
  <1>2. cpHeld' \in SUBSET CpThings /\ cpHeld' \cap CpHardware = {}
    BY <1>1 DEF CpHeldInv, CpStopped, CpHardware
  <1> QED
    BY <1>1, <1>2 DEF CpHeldInv, CpServedIsMapped

(* A device holds registers and interrupt exactly when it serves requests: *)
(* through every start, whichever part of it fails, every stop and every   *)
(* removal, with a backend or without.                                     *)
THEOREM CpAlwaysHoldsWhatItServes == CpSpec => []CpHoldsWhatItServes
  <1>1. CpInit => CpHeldInv
    BY DEF CpInit, CpHeldInv, CpServedIsMapped
  <1>2. CpHeldInv /\ [CpNext]_cpVars => CpHeldInv'
    <2> SUFFICES ASSUME CpHeldInv, [CpNext]_cpVars
                 PROVE  CpHeldInv'
      OBVIOUS
    <2>1. CASE \/ UNCHANGED cpVars \/ CpAddDevice \/ CpStart \/ CpStartFailsBelow
               \/ CpRemoveDelete \/ CpQueryDeviceId \/ CpQueryDeviceRelations
               \/ \E f \in CpFile : CpAcquireAndPass(f) \/ CpReleaseLockCompletion(f)
               \/ \E c \in CpChild : CpChildStart(c) \/ CpChildPowerOff(c) \/ CpChildRemove(c)
      <3>1. cpFlags' = cpFlags /\ cpHeld' = cpHeld
        BY <2>1
        DEF cpVars, cpStartVars, CpAddDevice, CpStart, CpStartFailsBelow, CpRemoveDelete,
            CpQueryDeviceId, CpQueryDeviceRelations, CpAcquireAndPass, CpReleaseLockCompletion,
            CpChildStart, CpChildPowerOff, CpChildRemove
      <3>2. cpPnp' = "start" \/ cpDev' \in {"none", "refused", "attached", "stopped", "failed"}
               => \/ cpPnp = "start"
                  \/ cpDev \in {"none", "refused", "attached", "stopped", "failed"}
        BY <2>1
        DEF cpVars, CpAddDevice, CpStart, CpStartFailsBelow, CpRemoveDelete,
            CpQueryDeviceId, CpQueryDeviceRelations, CpAcquireAndPass, CpReleaseLockCompletion,
            CpChildStart, CpChildPowerOff, CpChildRemove
      <3> QED
        BY <3>1, <3>2 DEF CpHeldInv, CpServedIsMapped
    <2> QED
      BY <2>1, CpStartCompletionHeld, CpStopHeld
      DEF CpNext, CpCreate, CpClose, CpCleanup, CpInvalidIrp
  <1>3. CpHeldInv => CpHoldsWhatItServes
    BY DEF CpHeldInv, CpHoldsWhatItServes, CpIdleHoldsNothing, CpHardware
  <1> QED
    BY <1>1, <1>2, <1>3, PTL DEF CpSpec

-----------------------------------------------------------------------------
(***************************************************************************)
(* CtrlPower: the WAIT_WAKE request and the power state.                   *)
(***************************************************************************)
CwDevices ==
    [started : BOOLEAN, capable : BOOLEAN, connected : BOOLEAN,
     power : {"unspecified", "D0", "D1", "D2", "D3"}, enabled : BOOLEAN, masked : BOOLEAN,
     armed : BOOLEAN, queued : BOOLEAN, slot : CwIrp \cup {CwNone},
     irp : [CwIrp -> {"free", "parked", "cancelling", "stale"}],
     at : [CwIrp -> {"none", "arm", "unmask", "pass"}],
     lower : [CwIrp -> {"no", "holds", "done"}],
     woken : BOOLEAN, raced : BOOLEAN, twice : BOOLEAN]

(* A device whose parked request is the one in PendingIrp; only a device   *)
(* that can wake is sent one.                                              *)
CwGood(s) ==
    /\ s \in CwDevices
    /\ s.slot # CwNone => s.irp[s.slot] \in {"parked", "cancelling"}
    /\ \A i \in CwIrp : s.irp[i] = "parked" => s.slot = i
    /\ \A i \in CwIrp : s.at[i] # "none" => s.capable

(* No interrupt comes, or only one that wakes: masked and nobody about to  *)
(* unmask, or armed.                                                       *)
CwQuiet(s) == s.armed \/ (s.masked /\ \A i \in CwIrp : s.at[i] # "unmask")

(* What a handler, the DPC and the cancel routine leave alone.             *)
CwKeeps(s, t) ==
    /\ CwGood(t)
    /\ t.started = s.started /\ t.capable = s.capable /\ t.at = s.at /\ t.raced = s.raced

(* What the properties say of one state, and what keeps it so.             *)
CwAgrees(t) ==
    t.started => /\ t.power = "D0" => t.enabled \/ t.woken
                 /\ ~t.enabled => CwQuiet(t) \/ t.woken \/ t.raced

CwInv == CwGood(cwDev) /\ CwAgrees(cwDev)

(* Fields that say nothing of the request may change.                      *)
LEMMA CwFieldsKeep ==
    ASSUME NEW s, NEW b \in BOOLEAN, NEW c \in BOOLEAN, CwGood(s)
    PROVE  /\ CwKeeps(s, [s EXCEPT !.masked = b])
           /\ CwKeeps(s, [s EXCEPT !.enabled = b])
           /\ CwKeeps(s, [s EXCEPT !.armed = b])
           /\ CwKeeps(s, [s EXCEPT !.woken = b])
           /\ CwKeeps(s, [s EXCEPT !.queued = b])
           /\ CwKeeps(s, [s EXCEPT !.armed = b, !.masked = c])
           /\ CwKeeps(s, [s EXCEPT !.enabled = b, !.masked = c])
           /\ \A d \in {"D0", "D1", "D2", "D3"} : CwKeeps(s, [s EXCEPT !.power = d])
           /\ \A i \in CwIrp, l \in {"no", "holds", "done"} :
                 CwKeeps(s, [s EXCEPT !.lower[i] = l])
  <1> DEFINE Same(t) == /\ t \in CwDevices
                        /\ t.slot = s.slot /\ t.irp = s.irp /\ t.at = s.at
                        /\ t.started = s.started /\ t.capable = s.capable
                        /\ t.raced = s.raced
  <1>1. ASSUME NEW t, Same(t)
        PROVE  CwKeeps(s, t)
    BY <1>1 DEF CwKeeps, CwGood
  <1>2. Same([s EXCEPT !.masked = b]) /\ Same([s EXCEPT !.enabled = b])
    BY DEF CwGood, CwDevices
  <1>3. Same([s EXCEPT !.armed = b]) /\ Same([s EXCEPT !.woken = b])
    BY DEF CwGood, CwDevices
  <1>4. Same([s EXCEPT !.queued = b]) /\ Same([s EXCEPT !.armed = b, !.masked = c])
    BY DEF CwGood, CwDevices
  <1>5. Same([s EXCEPT !.enabled = b, !.masked = c])
    BY DEF CwGood, CwDevices
  <1>6. \A d \in {"D0", "D1", "D2", "D3"} : Same([s EXCEPT !.power = d])
    BY DEF CwGood, CwDevices
  <1>7. ASSUME NEW i \in CwIrp, NEW l \in {"no", "holds", "done"}
        PROVE  Same([s EXCEPT !.lower[i] = l])
    BY DEF CwGood, CwDevices
  <1> HIDE DEF Same
  <1> QED
    BY <1>1, <1>2, <1>3, <1>4, <1>5, <1>6, <1>7

(* The request in PendingIrp is taken out, and completed.                  *)
LEMMA CwIoCompleteKeeps ==
    ASSUME NEW s, CwGood(s), s.slot # CwNone, NEW c \in {"free", "stale"}
    PROVE  LET t == CwIoComplete(CwTake(s), s.slot, c) IN
           /\ CwKeeps(s, t)
           /\ t.enabled = s.enabled /\ t.masked = s.masked /\ t.armed = s.armed
  <1> DEFINE i == s.slot
             u == CwTake(s)
             t == CwIoComplete(u, i, c)
             l == IF s.lower[i] = "done" THEN "no" ELSE s.lower[i]
  <1>1. i \in CwIrp
    BY DEF CwGood, CwDevices
  <1>2. /\ u \in CwDevices /\ u = [s EXCEPT !.slot = CwNone]
        /\ u.slot = CwNone /\ u.irp = s.irp /\ u.at = s.at /\ u.raced = s.raced
        /\ u.started = s.started /\ u.capable = s.capable /\ u.lower = s.lower
        /\ u.enabled = s.enabled /\ u.masked = s.masked /\ u.armed = s.armed
    BY DEF CwTake, CwGood, CwDevices
  <1> HIDE DEF u
  <1>3. t = [u EXCEPT !.irp = [u.irp EXCEPT ![i] = c], !.lower = [u.lower EXCEPT ![i] = l],
                      !.twice = u.twice \/ u.lower[i] = "done"]
    BY <1>1, <1>2 DEF CwIoComplete, CwDevices
  <1>4. l \in {"no", "holds", "done"}
    BY <1>1 DEF CwGood, CwDevices
  <1> HIDE DEF t, l
  <1>5. /\ t \in CwDevices /\ t.irp = [s.irp EXCEPT ![i] = c]
        /\ t.slot = CwNone /\ t.at = s.at /\ t.raced = s.raced
        /\ t.started = s.started /\ t.capable = s.capable
        /\ t.enabled = s.enabled /\ t.masked = s.masked /\ t.armed = s.armed
    BY <1>1, <1>2, <1>3, <1>4 DEF CwDevices
  <1>6. \A j \in CwIrp : t.irp[j] = "parked" => j # i /\ s.irp[j] = "parked"
    BY <1>1, <1>5 DEF CwGood, CwDevices
  <1> QED
    BY <1>5, <1>6 DEF CwKeeps, CwGood, t, u

(* It is, whether its cancel routine runs or not.                          *)
LEMMA CwCompleteTakenKeeps ==
    ASSUME NEW s, CwGood(s)
    PROVE  LET t == CwCompleteTaken(s) IN CwKeeps(s, t) /\ t.enabled = s.enabled
  <1>1. CASE s.slot = CwNone
    BY <1>1 DEF CwCompleteTaken, CwKeeps
  <1>2. CASE s.slot # CwNone
    <2>1. CwCompleted(s.irp[s.slot]) \in {"free", "stale"}
      BY DEF CwCompleted
    <2>2. CwCompleteTaken(s) = CwIoComplete(CwTake(s), s.slot, CwCompleted(s.irp[s.slot]))
      BY <1>2 DEF CwCompleteTaken
    <2> QED
      BY <1>2, <2>1, <2>2, CwIoCompleteKeeps
  <1> QED
    BY <1>1, <1>2

(* Quiescing switches the controller off and completes that request.       *)
LEMMA CwQuiesceHardwareKeeps ==
    ASSUME NEW s, CwGood(s)
    PROVE  CwKeeps(s, CwQuiesceHardware(s))
  <1> DEFINE off == [s EXCEPT !.enabled = FALSE]
  <1>1. CwKeeps(s, off)
    BY CwFieldsKeep
  <1>2. CwQuiesceHardware(s) = CwCompleteTaken(off)
    BY DEF CwQuiesceHardware
  <1> HIDE DEF off
  <1> QED
    BY <1>1, <1>2, CwCompleteTakenKeeps DEF CwKeeps

(* A WAIT_WAKE is parked in an empty PendingIrp.                           *)
LEMMA CwParkKeeps ==
    ASSUME NEW s, CwGood(s), s.slot = CwNone, NEW i \in CwIrp
    PROVE  LET t == CwPark(s, i) IN
           /\ CwKeeps(s, t) /\ t.connected = s.connected
           /\ t.enabled = s.enabled /\ t.power = s.power /\ t.woken = s.woken
           /\ t.masked = s.masked /\ t.armed = s.armed
  <1> DEFINE t == CwPark(s, i)
  <1>1. /\ t \in CwDevices /\ t.irp = [s.irp EXCEPT ![i] = "parked"] /\ t.slot = i
        /\ t.started = s.started /\ t.capable = s.capable /\ t.connected = s.connected
        /\ t.enabled = s.enabled /\ t.power = s.power /\ t.woken = s.woken
        /\ t.masked = s.masked /\ t.armed = s.armed /\ t.at = s.at /\ t.raced = s.raced
    BY DEF CwGood, CwDevices, CwPark
  <1> HIDE DEF t
  <1>2. \A j \in CwIrp : t.irp[j] = IF j = i THEN "parked" ELSE s.irp[j]
    BY <1>1 DEF CwGood, CwDevices
  <1>3. CwGood(t)
    BY <1>1, <1>2, CwAssumption DEF CwGood
  <1> QED
    BY <1>1, <1>3 DEF CwKeeps, t

(* The WAIT_WAKE that ArmWake asks for is parked; the wake it enables is   *)
(* armed.                                                                  *)
LEMMA CwWaitWakeKeeps ==
    ASSUME NEW s, CwGood(s)
    PROVE  LET t == CwWaitWake(s) IN
           /\ CwKeeps(s, t) /\ (CwQuiet(s) => CwQuiet(t))
           /\ t.enabled = s.enabled /\ t.power = s.power /\ t.woken = s.woken
  <1>1. CASE ~CwAccepts(s) \/ CwFree(s) = {}
    BY <1>1 DEF CwWaitWake, CwKeeps
  <1>2. CASE ~(~CwAccepts(s) \/ CwFree(s) = {})
    <2> DEFINE i == CHOOSE j \in CwFree(s) : TRUE
               u == CwPark(s, i)
               e == [u EXCEPT !.armed = TRUE, !.masked = FALSE]
               v == CwEnableWakeSignal(u)
               w == [v EXCEPT !.lower[i] = "holds"]
    <2>1. i \in CwIrp /\ s.slot = CwNone
      BY <1>2 DEF CwFree, CwAccepts
    <2>2. CwWaitWake(s) = w
      BY <1>2 DEF CwWaitWake
    <2> HIDE DEF i
    <2>3. /\ CwKeeps(s, u) /\ (CwQuiet(s) => CwQuiet(u))
          /\ u.enabled = s.enabled /\ u.power = s.power /\ u.woken = s.woken
      BY <2>1, CwParkKeeps DEF CwKeeps, CwQuiet
    <2> HIDE DEF u
    <2>4. CwGood(u)
      BY <2>3 DEF CwKeeps
    <2>5. /\ CwKeeps(u, e) /\ e.armed
          /\ e.enabled = u.enabled /\ e.power = u.power /\ e.woken = u.woken
      <3>1. CwKeeps(u, e)
        BY <2>4, CwFieldsKeep
      <3> QED
        BY <2>4, <3>1 DEF CwGood, CwDevices
    <2>6. v \in {u, e}
      BY DEF CwEnableWakeSignal
    <2> HIDE DEF e
    <2>7. /\ CwKeeps(u, v) /\ (CwQuiet(u) => CwQuiet(v))
          /\ v.enabled = u.enabled /\ v.power = u.power /\ v.woken = u.woken
      BY <2>4, <2>5, <2>6 DEF CwKeeps, CwQuiet
    <2> HIDE DEF v
    <2>8. CwKeeps(v, w)
      BY <2>1, <2>7, CwFieldsKeep DEF CwKeeps
    <2>9. /\ w.enabled = v.enabled /\ w.power = v.power /\ w.woken = v.woken
          /\ w.armed = v.armed /\ w.masked = v.masked
      BY <2>7 DEF CwKeeps, CwGood, CwDevices
    <2> HIDE DEF w
    <2> QED
      BY <2>2, <2>3, <2>7, <2>8, <2>9 DEF CwKeeps, CwQuiet
  <1> QED
    BY <1>1, <1>2

(* ArmWake leaves a device that can wake armed.                            *)
LEMMA CwArmWakeKeeps ==
    ASSUME NEW s, CwGood(s)
    PROVE  LET t == CwArmWake(s) IN
           /\ CwKeeps(s, t) /\ (CwQuiet(s) \/ s.capable => CwQuiet(t))
           /\ t.enabled = s.enabled /\ t.power = s.power /\ t.woken = s.woken
  <1>1. CASE ~s.capable \/ s.armed
    BY <1>1 DEF CwArmWake, CwKeeps, CwQuiet
  <1>2. CASE ~(~s.capable \/ s.armed)
    <2> DEFINE m == [s EXCEPT !.masked = TRUE]
               u == CwWaitWake(m)
               w == [u EXCEPT !.armed = TRUE]
    <2>0. CwKeeps(s, m)
      BY CwFieldsKeep
    <2>1. /\ CwGood(m)
          /\ m.enabled = s.enabled /\ m.power = s.power /\ m.woken = s.woken
      <3>1. m.enabled = s.enabled /\ m.power = s.power /\ m.woken = s.woken
        BY DEF CwGood, CwDevices
      <3> QED
        BY <2>0, <3>1 DEF CwKeeps
    <2> HIDE DEF m
    <2>2. /\ CwKeeps(m, u) /\ CwGood(u)
          /\ u.enabled = s.enabled /\ u.power = s.power /\ u.woken = s.woken
      BY <2>1, CwWaitWakeKeeps DEF CwKeeps
    <2> HIDE DEF u
    <2>3. CwKeeps(u, w)
      BY <2>2, CwFieldsKeep
    <2>4. w.armed /\ w.enabled = u.enabled /\ w.power = u.power /\ w.woken = u.woken
      BY <2>2 DEF CwGood, CwDevices
    <2>5. CwArmWake(s) = w
      BY <1>2 DEF CwArmWake, m, u
    <2> HIDE DEF w
    <2> QED
      BY <2>0, <2>1, <2>2, <2>3, <2>4, <2>5 DEF CwKeeps, CwQuiet
  <1> QED
    BY <1>1, <1>2

(* Disarming touches neither power nor the request.                        *)
LEMMA CwDisarmIfArmedKeeps ==
    ASSUME NEW s, CwGood(s)
    PROVE  LET t == CwDisarmIfArmed(s) IN
           /\ CwKeeps(s, t)
           /\ t.enabled = s.enabled /\ t.power = s.power /\ t.woken = s.woken
  <1>1. CwDisarmIfArmed(s) \in {s, [s EXCEPT !.armed = FALSE, !.masked = FALSE]}
    BY DEF CwDisarmIfArmed, CwDisarmWake
  <1>2. CwKeeps(s, s) /\ CwKeeps(s, [s EXCEPT !.armed = FALSE, !.masked = FALSE])
    BY CwFieldsKeep DEF CwKeeps
  <1>3. LET t == [s EXCEPT !.armed = FALSE, !.masked = FALSE]
        IN t.enabled = s.enabled /\ t.power = s.power /\ t.woken = s.woken
    BY DEF CwGood, CwDevices
  <1> QED
    BY <1>1, <1>2, <1>3

(* A gated clock comes with a masked or an armed interrupt: only a device  *)
(* that ArmWake arms has anyone about to unmask.                           *)
LEMMA CwClockGateKeeps ==
    ASSUME NEW s, CwGood(s)
    PROVE  CwKeeps(s, CwClockGate(s)) /\ CwQuiet(CwClockGate(s))
  <1> DEFINE m == [s EXCEPT !.masked = TRUE]
  <1>1. CwKeeps(s, m) /\ m.masked
    <2>1. CwKeeps(s, m)
      BY CwFieldsKeep
    <2> QED
      BY <2>1 DEF CwGood, CwDevices
  <1> HIDE DEF m
  <1>2. CwGood(m) /\ (m.capable \/ CwQuiet(m))
    BY <1>1 DEF CwKeeps, CwGood, CwQuiet
  <1>3. CwKeeps(m, CwArmWake(m)) /\ CwQuiet(CwArmWake(m))
    BY <1>2, CwArmWakeKeeps
  <1>4. CwClockGate(s) = CwArmWake(m)
    BY DEF CwClockGate, m
  <1> QED
    BY <1>1, <1>3, <1>4 DEF CwKeeps

(* So it stays when the controller is switched off, or refuses to be.      *)
LEMMA CwEnableControllerKeeps ==
    ASSUME NEW s, CwGood(s), NEW b \in BOOLEAN, NEW t \in CwEnableController(s, b)
    PROVE  CwKeeps(s, t) /\ (CwQuiet(s) => CwQuiet(t))
  <1>1. CASE t = s
    BY <1>1 DEF CwKeeps
  <1>2. CASE t = [s EXCEPT !.enabled = b]
    <2>1. CwKeeps(s, t)
      BY <1>2, CwFieldsKeep
    <2>2. t.masked = s.masked /\ t.armed = s.armed
      BY <1>2 DEF CwGood, CwDevices
    <2> QED
      BY <2>1, <2>2 DEF CwQuiet, CwKeeps
  <1> QED
    BY <1>1, <1>2 DEF CwEnableController

(* D3 completes the request unless its cancel routine will, and forgets    *)
(* it.                                                                     *)
LEMMA CwCompleteUncancelledKeeps ==
    ASSUME NEW s, CwGood(s)
    PROVE  LET t == CwCompleteUncancelled(s) IN
           CwKeeps(s, t) /\ t.masked = s.masked /\ t.armed = s.armed
  <1>1. CASE s.slot = CwNone \/ s.irp[s.slot] = "cancelling"
    <2> DEFINE t == CwTake(s)
    <2>1. CwCompleteUncancelled(s) = t
      BY <1>1 DEF CwCompleteUncancelled
    <2>2. /\ t \in CwDevices /\ t.slot = CwNone /\ t.irp = s.irp /\ t.at = s.at
          /\ t.started = s.started /\ t.capable = s.capable /\ t.raced = s.raced
          /\ t.masked = s.masked /\ t.armed = s.armed
      BY DEF CwTake, CwGood, CwDevices
    <2>3. \A j \in CwIrp : s.irp[j] # "parked"
      BY <1>1, CwAssumption DEF CwGood
    <2> HIDE DEF t
    <2> QED
      BY <2>1, <2>2, <2>3 DEF CwKeeps, CwGood
  <1>2. CASE ~(s.slot = CwNone \/ s.irp[s.slot] = "cancelling")
    <2>1. CwCompleteUncancelled(s) = CwIoComplete(CwTake(s), s.slot, "free")
      BY <1>2 DEF CwCompleteUncancelled
    <2> QED
      BY <1>2, <2>1, CwIoCompleteKeeps
  <1> QED
    BY <1>1, <1>2

-----------------------------------------------------------------------------
(* A controller state that is not D0 leaves the interrupt quiet.           *)
CwAsleep(s, t) == CwKeeps(s, t) /\ CwQuiet(t) /\ t.power # "D0"

(* Storing a state other than D0 changes nothing else.                     *)
LEMMA CwPowerSet ==
    ASSUME NEW s, CwGood(s), CwQuiet(s), NEW d \in {"D1", "D2", "D3"}
    PROVE  CwAsleep(s, [s EXCEPT !.power = d])
  <1>1. CwKeeps(s, [s EXCEPT !.power = d])
    BY CwFieldsKeep
  <1>2. LET t == [s EXCEPT !.power = d]
        IN t.power = d /\ t.masked = s.masked /\ t.armed = s.armed
    BY DEF CwGood, CwDevices
  <1> QED
    BY <1>1, <1>2 DEF CwAsleep, CwQuiet, CwKeeps

(* D3: masked, quiesced, gated, switched off.                              *)
LEMMA CwSetD3Sleeps ==
    ASSUME NEW s, CwGood(s)
    PROVE  \A t \in CwSetD3(s) : CwAsleep(s, t)
  <1> DEFINE m == [CwDisarmIfArmed(s) EXCEPT !.masked = TRUE]
             q == CwQuiesceHardware(m)
             off == CwClockGate(q)
  <1>1. CwKeeps(s, m)
    <2>1. CwKeeps(s, CwDisarmIfArmed(s)) /\ CwGood(CwDisarmIfArmed(s))
      BY CwDisarmIfArmedKeeps DEF CwKeeps
    <2>2. CwKeeps(CwDisarmIfArmed(s), m)
      BY <2>1, CwFieldsKeep
    <2> QED
      BY <2>1, <2>2 DEF CwKeeps
  <1> HIDE DEF m
  <1>2. CwKeeps(s, q)
    BY <1>1, CwQuiesceHardwareKeeps DEF CwKeeps
  <1> HIDE DEF q
  <1>3. CwKeeps(s, off) /\ CwQuiet(off)
    BY <1>2, CwClockGateKeeps DEF CwKeeps
  <1>4. CwSetD3(s) = {[CwCompleteUncancelled(t) EXCEPT !.power = "D3"] :
                         t \in CwEnableController(off, FALSE)}
    BY DEF CwSetD3, m, q
  <1> HIDE DEF off
  <1>5. ASSUME NEW t \in CwEnableController(off, FALSE)
        PROVE  CwAsleep(s, [CwCompleteUncancelled(t) EXCEPT !.power = "D3"])
    <2> DEFINE u == CwCompleteUncancelled(t)
    <2>1. CwKeeps(s, t) /\ CwQuiet(t)
      BY <1>3, CwEnableControllerKeeps DEF CwKeeps
    <2>2. CwKeeps(s, u) /\ CwQuiet(u)
      BY <2>1, CwCompleteUncancelledKeeps DEF CwKeeps, CwQuiet
    <2> HIDE DEF u
    <2>3. CwAsleep(u, [u EXCEPT !.power = "D3"])
      BY <2>2, CwPowerSet DEF CwKeeps
    <2> QED
      BY <2>2, <2>3 DEF CwAsleep, CwKeeps, u
  <1> QED
    BY <1>4, <1>5

(* Both lighter states end with another ArmWake.                           *)
LEMMA CwArmedSleeps ==
    ASSUME NEW s, CwGood(s), NEW off, CwKeeps(s, off), CwQuiet(off),
           NEW d \in {"D1", "D2"}, NEW t \in CwEnableController(off, FALSE)
    PROVE  CwAsleep(s, [CwArmWake(t) EXCEPT !.power = d])
  <1> DEFINE u == CwArmWake(t)
  <1>1. CwKeeps(s, t) /\ CwQuiet(t)
    BY CwEnableControllerKeeps DEF CwKeeps
  <1>2. CwKeeps(s, u) /\ CwQuiet(u)
    BY <1>1, CwArmWakeKeeps DEF CwKeeps
  <1> HIDE DEF u
  <1>3. CwAsleep(u, [u EXCEPT !.power = d])
    BY <1>2, CwPowerSet DEF CwKeeps
  <1> QED
    BY <1>2, <1>3 DEF CwAsleep, CwKeeps, u

(* D2: the same with the wake armed, or what became of it in D3.           *)
LEMMA CwSetD2Sleeps ==
    ASSUME NEW s, CwGood(s)
    PROVE  \A t \in CwSetD2(s) : CwAsleep(s, t)
  <1> DEFINE m == [s EXCEPT !.masked = TRUE]
             q == CwQuiesceHardware(m)
             off == CwClockGate(q)
  <1>1. CwKeeps(s, m)
    BY CwFieldsKeep
  <1> HIDE DEF m
  <1>2. CwKeeps(s, q)
    BY <1>1, CwQuiesceHardwareKeeps DEF CwKeeps
  <1> HIDE DEF q
  <1>3. CwKeeps(s, off) /\ CwQuiet(off)
    BY <1>2, CwClockGateKeeps DEF CwKeeps
  <1>4. CwSetD2(s) = {[CwArmWake(t) EXCEPT !.power = "D2"] :
                         t \in CwEnableController(off, FALSE)} \cup CwSetD3(s)
    BY DEF CwSetD2, m, q
  <1> HIDE DEF off
  <1>5. ASSUME NEW t \in CwEnableController(off, FALSE)
        PROVE  CwAsleep(s, [CwArmWake(t) EXCEPT !.power = "D2"])
    BY <1>3, CwArmedSleeps
  <1> QED
    BY <1>4, <1>5, CwSetD3Sleeps

(* D1: gated and armed, or what became of it in D2.                        *)
LEMMA CwSetD1Sleeps ==
    ASSUME NEW s, CwGood(s)
    PROVE  \A t \in CwSetD1(s) : CwAsleep(s, t)
  <1> DEFINE m == [s EXCEPT !.masked = TRUE]
             off == CwClockGate(m)
  <1>1. CwKeeps(s, m)
    BY CwFieldsKeep
  <1> HIDE DEF m
  <1>2. CwKeeps(s, off) /\ CwQuiet(off)
    BY <1>1, CwClockGateKeeps DEF CwKeeps
  <1>3. CwSetD1(s) = {[CwArmWake(t) EXCEPT !.power = "D1"] :
                         t \in CwEnableController(off, FALSE)} \cup CwSetD2(s)
    BY DEF CwSetD1, m
  <1> HIDE DEF off
  <1>4. ASSUME NEW t \in CwEnableController(off, FALSE)
        PROVE  CwAsleep(s, [CwArmWake(t) EXCEPT !.power = "D1"])
    BY <1>2, CwArmedSleeps
  <1> QED
    BY <1>3, <1>4, CwSetD2Sleeps

(* D0 after the controller was enabled leaves it enabled.                  *)
LEMMA CwPoweredUpAgrees ==
    ASSUME NEW s, CwGood(s)
    PROVE  LET t == CwPoweredUp([s EXCEPT !.enabled = TRUE]) IN CwKeeps(s, t) /\ t.enabled
  <1> DEFINE e == [s EXCEPT !.enabled = TRUE]
             m == [e EXCEPT !.masked = FALSE]
             u == CwDisarmIfArmed(m)
             p == [u EXCEPT !.power = "D0"]
             t == [p EXCEPT !.woken = FALSE]
  <1>1. CwKeeps(s, e) /\ e.enabled
    <2>1. CwKeeps(s, e)
      BY CwFieldsKeep
    <2> QED
      BY <2>1 DEF CwGood, CwDevices
  <1> HIDE DEF e
  <1>2. CwKeeps(s, m) /\ m.enabled
    <2>1. CwKeeps(e, m)
      BY <1>1, CwFieldsKeep DEF CwKeeps
    <2>2. m.enabled = e.enabled
      BY <1>1 DEF CwKeeps, CwGood, CwDevices
    <2> QED
      BY <1>1, <2>1, <2>2 DEF CwKeeps
  <1> HIDE DEF m
  <1>3. CwKeeps(s, u) /\ u.enabled
    BY <1>2, CwDisarmIfArmedKeeps DEF CwKeeps
  <1> HIDE DEF u
  <1>4. CwKeeps(s, p) /\ p.enabled
    <2>1. CwKeeps(u, p)
      BY <1>3, CwFieldsKeep DEF CwKeeps
    <2>2. p.enabled = u.enabled
      BY <1>3 DEF CwKeeps, CwGood, CwDevices
    <2> QED
      BY <1>3, <2>1, <2>2 DEF CwKeeps
  <1>5. CwPoweredUp(e) = [u EXCEPT !.power = "D0", !.woken = FALSE]
    BY DEF CwPoweredUp, u, m
  <1>6. CwPoweredUp(e) = t
    BY <1>3, <1>5 DEF CwKeeps, CwGood, CwDevices
  <1> HIDE DEF p
  <1>7. CwKeeps(s, t) /\ t.enabled
    <2>1. CwKeeps(p, t)
      BY <1>4, CwFieldsKeep DEF CwKeeps
    <2>2. t.enabled = p.enabled
      BY <1>4 DEF CwKeeps, CwGood, CwDevices
    <2> QED
      BY <1>4, <2>1, <2>2 DEF CwKeeps
  <1> HIDE DEF t
  <1> QED
    BY <1>6, <1>7 DEF e

(* Whatever the controller does of what it was asked, and whatever the     *)
(* caller then stores, power state, controller and interrupts agree.       *)
LEMMA CwSetControllerPowerAgrees ==
    ASSUME NEW s, CwGood(s), NEW d \in {"D0", "D1", "D2", "D3"},
           NEW t \in CwSetControllerPower(s, d)
    PROVE  CwKeeps(s, CwStored(t, d)) /\ CwAgrees(CwStored(t, d))
  <1>1. CASE d = "D0"
    <2>1. CwStored(t, d) = t
      BY <1>1 DEF CwStored
    <2>2. t \in CwSetD0(s)
      BY <1>1 DEF CwSetControllerPower
    <2>3. CASE t \in CwSetD3(s)
      <3>1. CwAsleep(s, t)
        BY <2>3, CwSetD3Sleeps
      <3> QED
        BY <2>1, <3>1 DEF CwAsleep, CwQuiet, CwAgrees
    <2>4. CASE t = CwPoweredUp([s EXCEPT !.enabled = TRUE])
      <3>1. CwKeeps(s, t) /\ t.enabled
        BY <2>4, CwPoweredUpAgrees
      <3> QED
        BY <2>1, <3>1 DEF CwAgrees
    <2> QED
      BY <2>2, <2>3, <2>4 DEF CwSetD0
  <1>2. CASE d # "D0"
    <2>1. CwAsleep(s, t)
      <3>1. d = "D3" => t \in CwSetD3(s)
        BY DEF CwSetControllerPower
      <3>2. d = "D2" => t \in CwSetD2(s)
        BY DEF CwSetControllerPower
      <3>3. d = "D1" => t \in CwSetD1(s)
        BY DEF CwSetControllerPower
      <3> QED
        BY <1>2, <3>1, <3>2, <3>3, CwSetD1Sleeps, CwSetD2Sleeps, CwSetD3Sleeps
    <2>2. CwAsleep(t, [t EXCEPT !.power = d])
      BY <1>2, <2>1, CwPowerSet DEF CwAsleep, CwKeeps
    <2>3. CwStored(t, d) = [t EXCEPT !.power = d]
      BY <1>2 DEF CwStored
    <2> QED
      BY <2>1, <2>2, <2>3 DEF CwAsleep, CwKeeps, CwQuiet, CwAgrees
  <1> QED
    BY <1>1, <1>2

(* A request is mapped to one of the four states.                          *)
LEMMA CwSupportedState ==
    ASSUME NEW d \in {"D0", "D1", "D2", "D3"}
    PROVE  CwSupported(d) \in {"D0", "D1", "D2", "D3"}
  BY DEF CwSupported

(* A controller that is not mapped keeps its registers, and a device that  *)
(* is not started has nothing to agree on.                                 *)
LEMMA CwReachedAgrees ==
    ASSUME NEW s, NEW t, CwGood(s), CwKeeps(s, t), s.started => CwAgrees(t)
    PROVE  CwGood(CwReached(s, t)) /\ CwAgrees(CwReached(s, t))
  <1>1. CASE s.started
    BY <1>1 DEF CwReached, CwKeeps
  <1>2. CASE ~s.started
    <2> DEFINE u == [t EXCEPT !.enabled = s.enabled, !.masked = s.masked]
    <2>1. s.enabled \in BOOLEAN /\ s.masked \in BOOLEAN /\ CwGood(t) /\ ~t.started
      BY <1>2 DEF CwKeeps, CwGood, CwDevices
    <2>2. CwKeeps(t, u)
      BY <2>1, CwFieldsKeep
    <2>3. CwReached(s, t) = u
      BY <1>2 DEF CwReached
    <2> HIDE DEF u
    <2> QED
      BY <2>1, <2>2, <2>3 DEF CwKeeps, CwAgrees
  <1> QED
    BY <1>1, <1>2 DEF CwGood, CwDevices

(* A start enables the controller.                                         *)
LEMMA CwStartInv ==
    ASSUME CwInv, CwStart
    PROVE  CwInv'
  <1>1. PICK a \in {c \in BOOLEAN : cwDev.capable => c}, b \in BOOLEAN :
           cwDev' = [cwDev EXCEPT !.started = TRUE, !.enabled = TRUE, !.masked = FALSE,
                                  !.capable = a, !.connected = b, !.woken = FALSE]
    BY DEF CwStart
  <1>2. /\ cwDev' \in CwDevices
        /\ cwDev'.slot = cwDev.slot /\ cwDev'.irp = cwDev.irp /\ cwDev'.at = cwDev.at
        /\ cwDev'.enabled /\ (cwDev.capable => cwDev'.capable)
    BY <1>1 DEF CwInv, CwGood, CwDevices
  <1>3. CwGood(cwDev)'
    BY <1>2 DEF CwInv, CwGood
  <1> QED
    BY <1>2, <1>3 DEF CwInv, CwAgrees

(* A stopped device keeps its request.                                     *)
LEMMA CwStopInv ==
    ASSUME CwInv, CwStop
    PROVE  CwInv'
  <1>1. /\ cwDev' \in CwDevices /\ ~cwDev'.started
        /\ cwDev'.slot = cwDev.slot /\ cwDev'.irp = cwDev.irp /\ cwDev'.at = cwDev.at
        /\ cwDev'.capable = cwDev.capable
    BY DEF CwStop, CwInv, CwGood, CwDevices
  <1> QED
    BY <1>1 DEF CwInv, CwGood, CwAgrees

(* SET_POWER for the device: leaving a state and arming or disarming the   *)
(* wake come first, then the controller.                                   *)
LEMMA CwSetDevicePowerInv ==
    ASSUME CwInv, NEW requested \in {"D0", "D1", "D2", "D3"}, CwSetDevicePower(requested)
    PROVE  CwInv'
  <1> DEFINE d == CwSupported(requested)
             v == CwLeave(cwDev, d)
             s == CwWakeFor(v, d)
             after == IF d = cwDev.power THEN {s}
                      ELSE {CwStored(t, d) : t \in CwSetControllerPower(s, d)}
  <1>1. d \in {"D0", "D1", "D2", "D3"}
    BY CwSupportedState
  <1>2. PICK w \in after : cwDev' = CwReached(cwDev, w)
    BY DEF CwSetDevicePower
  <1>3. CwGood(cwDev) /\ CwAgrees(cwDev)
    BY DEF CwInv
  <1> HIDE DEF d
  <1>4. CwKeeps(cwDev, v) /\ (d = cwDev.power \/ d = "D0" => v = cwDev)
    <2>1. CASE ~(d # cwDev.power /\ d # "D0" /\ (cwDev.slot # CwNone \/ cwDev.power = "D0"))
      BY <1>3, <2>1 DEF CwLeave, CwKeeps
    <2>2. CASE d # cwDev.power /\ d # "D0" /\ (cwDev.slot # CwNone \/ cwDev.power = "D0")
      <3> DEFINE m == IF cwDev.power = "D0" THEN [cwDev EXCEPT !.masked = TRUE] ELSE cwDev
      <3>1. CwKeeps(cwDev, m)
        BY <1>3, CwFieldsKeep DEF CwKeeps
      <3>2. v = CwQuiesceHardware(m)
        BY <2>2 DEF CwLeave
      <3> HIDE DEF m
      <3>3. CwKeeps(m, CwQuiesceHardware(m))
        BY <3>1, CwQuiesceHardwareKeeps DEF CwKeeps
      <3> QED
        BY <2>2, <3>1, <3>2, <3>3 DEF CwKeeps
    <2> QED
      BY <2>1, <2>2
  <1> HIDE DEF v
  <1>5. CwKeeps(cwDev, s)
    <2>1. CwKeeps(v, CwDisarmIfArmed(v)) /\ CwKeeps(v, CwArmWake(v))
      BY <1>3, <1>4, CwDisarmIfArmedKeeps, CwArmWakeKeeps DEF CwKeeps
    <2> QED
      BY <1>4, <2>1 DEF CwKeeps, CwWakeFor
  <1>6. CwKeeps(cwDev, w) /\ (cwDev.started => CwAgrees(w))
    <2>1. CASE d = cwDev.power
      <3>1. v = cwDev /\ w = s
        BY <1>2, <1>4, <2>1
      <3>2. CASE d = "D0"
        <4>1. s = CwDisarmIfArmed(cwDev)
          BY <3>1, <3>2 DEF CwWakeFor
        <4>2. s.enabled = cwDev.enabled /\ s.power = cwDev.power /\ s.woken = cwDev.woken
          BY <1>3, <4>1, CwDisarmIfArmedKeeps
        <4> QED
          BY <1>3, <1>5, <2>1, <3>1, <3>2, <4>2 DEF CwAgrees, CwKeeps
      <3>3. CASE d # "D0"
        <4>1. s = CwArmWake(cwDev)
          BY <3>1, <3>3 DEF CwWakeFor
        <4>2. /\ s.enabled = cwDev.enabled /\ s.power = cwDev.power /\ s.woken = cwDev.woken
              /\ CwQuiet(cwDev) => CwQuiet(s)
          BY <1>3, <4>1, CwArmWakeKeeps
        <4> QED
          BY <1>3, <1>5, <3>1, <4>2 DEF CwAgrees, CwKeeps
      <3> QED
        BY <3>2, <3>3
    <2>2. CASE d # cwDev.power
      <3>1. PICK t \in CwSetControllerPower(s, d) : w = CwStored(t, d)
        BY <1>2, <2>2
      <3> HIDE DEF s
      <3>2. CwKeeps(s, w) /\ CwAgrees(w)
        BY <1>1, <1>5, <3>1, CwSetControllerPowerAgrees DEF CwKeeps
      <3> QED
        BY <1>5, <3>2 DEF CwKeeps
    <2> QED
      BY <2>1, <2>2
  <1> QED
    BY <1>2, <1>3, <1>6, CwReachedAgrees DEF CwInv

(* The system's request reaches the controller as a device request of the  *)
(* completion routine, whatever state that reads.                          *)
LEMMA CwSystemPowerCompletionInv ==
    ASSUME CwInv, CwSystemPowerCompletion
    PROVE  CwInv'
  <1>1. CASE cwDev' = cwDev
    BY <1>1 DEF CwInv, CwGood, CwAgrees, CwQuiet
  <1>2. CASE cwDev' # cwDev
    <2>1. PICK state \in {cwSystem, "unspecified"} :
             LET d == CwDeviceStateFor(state)
             IN cwDev' \in {CwReached(cwDev, CwStored(t, d)) :
                               t \in CwSetControllerPower(cwDev, d)}
      BY <1>2 DEF CwSystemPowerCompletion
    <2> DEFINE d == CwDeviceStateFor(state)
    <2>2. d \in {"D0", "D1", "D2", "D3"}
      BY CwSupportedState DEF CwDeviceStateFor
    <2>3. PICK t \in CwSetControllerPower(cwDev, d) :
             cwDev' = CwReached(cwDev, CwStored(t, d))
      BY <2>1
    <2>4. CwGood(cwDev)
      BY DEF CwInv
    <2> HIDE DEF d
    <2>5. CwKeeps(cwDev, CwStored(t, d)) /\ CwAgrees(CwStored(t, d))
      BY <2>2, <2>3, <2>4, CwSetControllerPowerAgrees
    <2> QED
      BY <2>3, <2>4, <2>5, CwReachedAgrees DEF CwInv
  <1> QED
    BY <1>1, <1>2

(* A WAIT_WAKE that is sent and parked.                                    *)
LEMMA CwDispatchWaitWakeInv ==
    ASSUME CwInv, NEW i \in CwIrp, CwDispatchWaitWake(i)
    PROVE  CwInv'
  <1> DEFINE p == CwPark(cwDev, i)
  <1>1. CwGood(cwDev) /\ cwDev.capable /\ cwDev.slot = CwNone
    BY DEF CwInv, CwDispatchWaitWake, CwAccepts
  <1>2. /\ CwKeeps(cwDev, p)
        /\ p.enabled = cwDev.enabled /\ p.power = cwDev.power /\ p.woken = cwDev.woken
        /\ p.masked = cwDev.masked /\ p.armed = cwDev.armed
    BY <1>1, CwParkKeeps
  <1>3. cwDev' = [p EXCEPT !.at[i] = "arm"]
    BY DEF CwDispatchWaitWake
  <1> HIDE DEF p
  <1>4. /\ cwDev' \in CwDevices /\ cwDev'.at = [p.at EXCEPT ![i] = "arm"]
        /\ cwDev'.slot = p.slot /\ cwDev'.irp = p.irp
        /\ cwDev'.started = p.started /\ cwDev'.capable = p.capable
        /\ cwDev'.enabled = p.enabled /\ cwDev'.power = p.power /\ cwDev'.woken = p.woken
        /\ cwDev'.masked = p.masked /\ cwDev'.armed = p.armed /\ cwDev'.raced = p.raced
    BY <1>2, <1>3 DEF CwKeeps, CwGood, CwDevices
  <1>5. \A j \in CwIrp : cwDev'.at[j] = IF j = i THEN "arm" ELSE cwDev.at[j]
    BY <1>2, <1>4 DEF CwKeeps, CwGood, CwDevices
  <1>6. CwGood(cwDev)'
    BY <1>1, <1>2, <1>4 DEF CwKeeps, CwGood
  <1>7. CwQuiet(cwDev) => CwQuiet(cwDev)'
    BY <1>2, <1>4, <1>5 DEF CwKeeps, CwQuiet
  <1> QED
    BY <1>2, <1>4, <1>6, <1>7 DEF CwKeeps, CwInv, CwAgrees

(* Armed before it is unmasked, so what becomes of the wake in between is  *)
(* what a race is.                                                         *)
LEMMA CwArmSignalInv ==
    ASSUME CwInv, NEW i \in CwIrp, CwArmSignal(i)
    PROVE  CwInv'
  <1>1. PICK b \in BOOLEAN, n \in {"unmask", "pass"} :
           /\ cwDev' = [cwDev EXCEPT !.armed = b, !.at[i] = n]
           /\ b \/ (b = cwDev.armed /\ n = "pass")
    <2>1. cwDev.armed \in BOOLEAN /\ cwDev = [cwDev EXCEPT !.armed = cwDev.armed]
      BY DEF CwInv, CwGood, CwDevices
    <2>2. [cwDev EXCEPT !.at[i] = "pass"]
             = [cwDev EXCEPT !.armed = cwDev.armed, !.at[i] = "pass"]
      BY DEF CwInv, CwGood, CwDevices
    <2> QED
      BY <2>1, <2>2 DEF CwArmSignal
  <1>2. /\ cwDev' \in CwDevices /\ cwDev'.at = [cwDev.at EXCEPT ![i] = n]
        /\ cwDev'.slot = cwDev.slot /\ cwDev'.irp = cwDev.irp /\ cwDev'.armed = b
        /\ cwDev'.started = cwDev.started /\ cwDev'.capable = cwDev.capable
        /\ cwDev'.enabled = cwDev.enabled /\ cwDev'.power = cwDev.power
        /\ cwDev'.woken = cwDev.woken /\ cwDev'.masked = cwDev.masked
        /\ cwDev'.raced = cwDev.raced
    BY <1>1 DEF CwInv, CwGood, CwDevices
  <1>3. \A j \in CwIrp : cwDev'.at[j] = IF j = i THEN n ELSE cwDev.at[j]
    BY <1>2 DEF CwInv, CwGood, CwDevices
  <1>4. CwGood(cwDev)'
    <2>1. cwDev.at[i] = "arm"
      BY DEF CwArmSignal
    <2> QED
      BY <1>2, <1>3, <2>1 DEF CwInv, CwGood
  <1>5. CwQuiet(cwDev) => CwQuiet(cwDev)'
    BY <1>1, <1>2, <1>3 DEF CwQuiet
  <1> QED
    BY <1>2, <1>4, <1>5 DEF CwInv, CwAgrees

(* A controller that is off is unmasked while it is armed, or raced.       *)
LEMMA CwUnmaskSignalInv ==
    ASSUME CwInv, NEW i \in CwIrp, CwUnmaskSignal(i)
    PROVE  CwInv'
  <1> DEFINE p == [cwDev EXCEPT !.at[i] = "pass"]
  <1>1. /\ p \in CwDevices /\ p.at = [cwDev.at EXCEPT ![i] = "pass"]
        /\ p.slot = cwDev.slot /\ p.irp = cwDev.irp /\ p.armed = cwDev.armed
        /\ p.started = cwDev.started /\ p.capable = cwDev.capable
        /\ p.enabled = cwDev.enabled /\ p.power = cwDev.power
        /\ p.woken = cwDev.woken /\ p.raced = cwDev.raced
    BY DEF CwInv, CwGood, CwDevices
  <1>2. cwDev' = IF p.started THEN [p EXCEPT !.masked = FALSE] ELSE p
    BY DEF CwUnmaskSignal, CwMask
  <1> HIDE DEF p
  <1>3. /\ cwDev' \in CwDevices /\ cwDev'.at = p.at
        /\ cwDev'.slot = p.slot /\ cwDev'.irp = p.irp /\ cwDev'.armed = p.armed
        /\ cwDev'.started = p.started /\ cwDev'.capable = p.capable
        /\ cwDev'.enabled = p.enabled /\ cwDev'.power = p.power
        /\ cwDev'.woken = p.woken /\ cwDev'.raced = p.raced
    BY <1>1, <1>2 DEF CwDevices
  <1>4. cwDev.at[i] = "unmask"
    BY DEF CwUnmaskSignal
  <1>5. \A j \in CwIrp : cwDev'.at[j] = IF j = i THEN "pass" ELSE cwDev.at[j]
    BY <1>1, <1>3 DEF CwInv, CwGood, CwDevices
  <1>6. CwGood(cwDev)'
    BY <1>1, <1>3, <1>4, <1>5 DEF CwInv, CwGood
  <1>7. CwQuiet(cwDev) => cwDev.armed
    BY <1>4 DEF CwQuiet
  <1>8. cwDev'.armed => CwQuiet(cwDev)'
    BY DEF CwQuiet
  <1> QED
    BY <1>1, <1>3, <1>6, <1>7, <1>8 DEF CwInv, CwAgrees

(* Passing the request down, and what the lower driver does of it, change  *)
(* nothing here.                                                           *)
LEMMA CwLowerInv ==
    ASSUME CwInv, NEW i \in CwIrp, CwPassDown(i) \/ CwLowerCompletes(i)
    PROVE  CwInv'
  <1>1. /\ cwDev' \in CwDevices
        /\ cwDev'.at = cwDev.at \/ cwDev'.at = [cwDev.at EXCEPT ![i] = "none"]
        /\ cwDev'.slot = cwDev.slot /\ cwDev'.irp = cwDev.irp
        /\ cwDev'.armed = cwDev.armed /\ cwDev'.masked = cwDev.masked
        /\ cwDev'.started = cwDev.started /\ cwDev'.capable = cwDev.capable
        /\ cwDev'.enabled = cwDev.enabled /\ cwDev'.power = cwDev.power
        /\ cwDev'.woken = cwDev.woken /\ cwDev'.raced = cwDev.raced
    <2>1. CASE CwPassDown(i)
      BY <2>1 DEF CwPassDown, CwInv, CwGood, CwDevices
    <2>2. CASE CwLowerCompletes(i)
      BY <2>2 DEF CwLowerCompletes, CwInv, CwGood, CwDevices
    <2> QED
      BY <2>1, <2>2
  <1>2. \A j \in CwIrp : cwDev'.at[j] \in {cwDev.at[j], "none"}
    BY <1>1 DEF CwInv, CwGood, CwDevices
  <1>3. CwGood(cwDev)'
    BY <1>1, <1>2 DEF CwInv, CwGood
  <1>4. CwQuiet(cwDev) => CwQuiet(cwDev)'
    BY <1>1, <1>2 DEF CwQuiet
  <1> QED
    BY <1>1, <1>3, <1>4 DEF CwInv, CwAgrees

(* A cancellation that has begun leaves the request where it is.           *)
LEMMA CwIoCancelIrpInv ==
    ASSUME CwInv, NEW i \in CwIrp, CwIoCancelIrp(i)
    PROVE  CwInv'
  <1>1. /\ cwDev' \in CwDevices /\ cwDev'.irp = [cwDev.irp EXCEPT ![i] = "cancelling"]
        /\ cwDev'.slot = cwDev.slot /\ cwDev'.started = cwDev.started
        /\ cwDev'.capable = cwDev.capable /\ cwDev'.enabled = cwDev.enabled
        /\ cwDev'.masked = cwDev.masked /\ cwDev'.armed = cwDev.armed
        /\ cwDev'.woken = cwDev.woken /\ cwDev'.power = cwDev.power
        /\ cwDev'.at = cwDev.at /\ cwDev'.raced = cwDev.raced
    BY DEF CwIoCancelIrp, CwInv, CwGood, CwDevices
  <1>2. \A j \in CwIrp : cwDev'.irp[j] = IF j = i THEN "cancelling" ELSE cwDev.irp[j]
    BY <1>1 DEF CwInv, CwGood, CwDevices
  <1>3. CwGood(cwDev)'
    BY <1>1, <1>2 DEF CwInv, CwGood, CwDevices
  <1> QED
    BY <1>1, <1>3 DEF CwInv, CwAgrees, CwQuiet

(* Disarming masks, unless it races with someone who unmasks.              *)
LEMMA CwDisableWakeSignalAgrees ==
    ASSUME NEW s, CwGood(s), CwAgrees(s)
    PROVE  LET q == CwDisableWakeSignal(s) IN
           /\ CwGood(q) /\ CwAgrees(q)
           /\ q.slot = s.slot /\ q.irp = s.irp
           /\ q.enabled = s.enabled /\ q.woken = s.woken /\ q.power = s.power
           /\ q.started = s.started
  <1> DEFINE q == CwDisableWakeSignal(s)
             r == s.raced \/ \E i \in CwIrp : s.at[i] = "unmask"
             m == [s EXCEPT !.armed = FALSE, !.raced = r]
  <1>1. CASE ~s.capable
    BY <1>1 DEF CwDisableWakeSignal
  <1>2. CASE s.capable
    <2>1. q = IF m.started THEN [m EXCEPT !.masked = TRUE] ELSE m
      BY <1>2 DEF CwDisableWakeSignal, CwMask
    <2>2. r \in BOOLEAN
      BY DEF CwGood, CwDevices
    <2> HIDE DEF q
    <2>3. /\ q \in CwDevices /\ q.slot = s.slot /\ q.irp = s.irp /\ q.at = s.at
          /\ q.capable = s.capable /\ q.started = s.started /\ q.raced = r
          /\ q.enabled = s.enabled /\ q.woken = s.woken /\ q.power = s.power
          /\ q.started => q.masked
      <3> HIDE DEF r
      <3> QED
        BY <2>1, <2>2 DEF CwGood, CwDevices
    <2>4. q.started => CwQuiet(q) \/ q.raced
      BY <2>3 DEF CwQuiet
    <2>5. CwGood(q)
      BY <2>3 DEF CwGood
    <2> QED
      BY <2>3, <2>4, <2>5 DEF CwAgrees, q
  <1> QED
    BY <1>1, <1>2

(* The cancel routine frees its request and, if that is still the one in   *)
(* PendingIrp, takes it out and masks the wake.                            *)
LEMMA CwCancelWakeIrpInv ==
    ASSUME CwInv, NEW i \in CwIrp, CwCancelWakeIrp(i)
    PROVE  CwInv'
  <1> DEFINE t == CwTake(cwDev)
             q == CwDisableWakeSignal(t)
             u == IF cwDev.slot = i THEN q ELSE cwDev
             l == IF u.lower[i] = "done" THEN "no" ELSE u.lower[i]
             z == (u.twice \/ u.lower[i] = "done") \/ u.irp[i] = "stale"
  <1>1. CwGood(cwDev) /\ CwAgrees(cwDev) /\ cwDev.irp[i] # "parked"
    BY DEF CwInv, CwCancelWakeIrp
  <1>2. ASSUME cwDev.slot = i
        PROVE  CwGood(q) /\ CwAgrees(q) /\ q.slot = CwNone /\ q.irp = cwDev.irp
    <2>1. /\ t \in CwDevices /\ t.slot = CwNone /\ t.irp = cwDev.irp /\ t.at = cwDev.at
          /\ t.capable = cwDev.capable /\ t.started = cwDev.started /\ t.raced = cwDev.raced
          /\ t.enabled = cwDev.enabled /\ t.woken = cwDev.woken /\ t.power = cwDev.power
          /\ t.masked = cwDev.masked /\ t.armed = cwDev.armed
      BY <1>1 DEF CwTake, CwGood, CwDevices
    <2> HIDE DEF t
    <2>2. CwGood(t)
      BY <1>1, <1>2, <2>1 DEF CwGood
    <2>3. CwAgrees(t)
      BY <1>1, <2>1 DEF CwAgrees, CwQuiet
    <2> QED
      BY <2>1, <2>2, <2>3, CwDisableWakeSignalAgrees
  <1> HIDE DEF q
  <1>3. /\ CwGood(u) /\ CwAgrees(u) /\ u.irp = cwDev.irp
        /\ u.slot # i \/ u.slot = CwNone
    BY <1>1, <1>2
  <1>4. cwDev' = [CwIoComplete(u, i, "free") EXCEPT !.twice = @ \/ u.irp[i] = "stale"]
    BY DEF CwCancelWakeIrp, q
  <1> HIDE DEF u
  <1>5. cwDev' = [u EXCEPT !.irp = [u.irp EXCEPT ![i] = "free"],
                           !.lower = [u.lower EXCEPT ![i] = l], !.twice = z]
    BY <1>3, <1>4 DEF CwIoComplete, CwGood, CwDevices
  <1>6. l \in {"no", "holds", "done"} /\ z \in BOOLEAN
    BY <1>3 DEF CwGood, CwDevices
  <1> HIDE DEF l, z
  <1>7. /\ cwDev' \in CwDevices /\ cwDev'.irp = [u.irp EXCEPT ![i] = "free"]
        /\ cwDev'.slot = u.slot /\ cwDev'.at = u.at /\ cwDev'.raced = u.raced
        /\ cwDev'.started = u.started /\ cwDev'.capable = u.capable
        /\ cwDev'.enabled = u.enabled /\ cwDev'.masked = u.masked /\ cwDev'.armed = u.armed
        /\ cwDev'.woken = u.woken /\ cwDev'.power = u.power
    BY <1>3, <1>5, <1>6 DEF CwGood, CwDevices
  <1>8. \A j \in CwIrp : cwDev'.irp[j] = IF j = i THEN "free" ELSE u.irp[j]
    BY <1>3, <1>7 DEF CwGood, CwDevices
  <1>9. CwGood(cwDev)'
    BY <1>3, <1>7, <1>8 DEF CwGood
  <1> QED
    BY <1>3, <1>7, <1>9 DEF CwInv, CwAgrees, CwQuiet

(* The interrupt of an armed device declares D0, with or without power.    *)
LEMMA CwIsrDpcInv ==
    ASSUME CwInv, CwIsrDpc
    PROVE  CwInv'
  <1> DEFINE s == [cwDev EXCEPT !.queued = FALSE]
             q == CwDisableWakeSignal(s)
             c == CwCompleteTaken(q)
             w == [c EXCEPT !.power = "D0", !.woken = s.woken \/ ~s.enabled]
  <1>1. cwDev' = IF s.armed THEN IF s.slot = CwNone THEN q ELSE w ELSE s
    BY DEF CwIsrDpc, CwCompleteWakeIfArmed
  <1>2. CwGood(s) /\ CwAgrees(s)
    <2>1. CwKeeps(cwDev, s)
      BY CwFieldsKeep DEF CwInv
    <2>2. /\ s.enabled = cwDev.enabled /\ s.woken = cwDev.woken /\ s.power = cwDev.power
          /\ s.masked = cwDev.masked /\ s.armed = cwDev.armed
      BY DEF CwInv, CwGood, CwDevices
    <2> QED
      BY <2>1, <2>2 DEF CwKeeps, CwInv, CwAgrees, CwQuiet
  <1> HIDE DEF s
  <1>3. /\ CwGood(q) /\ CwAgrees(q)
        /\ q.enabled = s.enabled /\ q.started = s.started
    BY <1>2, CwDisableWakeSignalAgrees
  <1> HIDE DEF q
  <1>4. CwKeeps(q, c) /\ c.enabled = q.enabled
    BY <1>3, CwCompleteTakenKeeps
  <1> HIDE DEF c
  <1>5. CwGood(w) /\ CwAgrees(w)
    <2>1. (s.woken \/ ~s.enabled) \in BOOLEAN
      BY <1>2 DEF CwGood, CwDevices
    <2>2. /\ w \in CwDevices /\ w.slot = c.slot /\ w.irp = c.irp /\ w.at = c.at
          /\ w.capable = c.capable /\ w.enabled = c.enabled
          /\ w.woken = (s.woken \/ ~s.enabled)
      BY <1>4, <2>1 DEF CwKeeps, CwGood, CwDevices
    <2>3. CwGood(w)
      BY <1>4, <2>2 DEF CwKeeps, CwGood
    <2>4. w.enabled \/ w.woken
      BY <1>3, <1>4, <2>2
    <2> QED
      BY <2>3, <2>4 DEF CwAgrees
  <1> HIDE DEF w
  <1>6. \E t : cwDev' = t /\ CwGood(t) /\ CwAgrees(t)
    BY <1>1, <1>2, <1>3, <1>5
  <1> QED
    BY <1>6 DEF CwInv

(* An interrupt queues its DPC.                                            *)
LEMMA CwIsrInv ==
    ASSUME CwInv, CwIsr
    PROVE  CwInv'
  <1>1. CwKeeps(cwDev, cwDev')
    BY CwFieldsKeep DEF CwInv, CwIsr
  <1>2. /\ cwDev'.enabled = cwDev.enabled /\ cwDev'.woken = cwDev.woken
        /\ cwDev'.power = cwDev.power
        /\ cwDev'.masked = cwDev.masked /\ cwDev'.armed = cwDev.armed
    BY DEF CwIsr, CwInv, CwGood, CwDevices
  <1> QED
    BY <1>1, <1>2 DEF CwKeeps, CwInv, CwAgrees, CwQuiet

(* The invariant holds in every reachable state.                           *)
LEMMA CwInvariant == CwSpec => []CwInv
  <1>1. CwInit => CwInv
    BY CwAssumption DEF CwInit, CwInv, CwGood, CwDevices, CwAgrees
  <1>2. CwInv /\ [CwNext]_cwVars => CwInv'
    <2> SUFFICES ASSUME CwInv, [CwNext]_cwVars
                 PROVE  CwInv'
      OBVIOUS
    <2>1. CASE UNCHANGED cwDev
      BY <2>1 DEF CwInv, CwGood, CwAgrees, CwQuiet
    <2>2. CASE \E i \in CwIrp :
                  \/ CwDispatchWaitWake(i) \/ CwArmSignal(i) \/ CwUnmaskSignal(i)
                  \/ CwPassDown(i) \/ CwLowerCompletes(i)
                  \/ CwIoCancelIrp(i) \/ CwCancelWakeIrp(i)
      BY <2>2, CwDispatchWaitWakeInv, CwArmSignalInv, CwUnmaskSignalInv, CwLowerInv,
         CwIoCancelIrpInv, CwCancelWakeIrpInv
    <2> QED
      BY <2>1, <2>2, CwStartInv, CwStopInv, CwSetDevicePowerInv, CwSystemPowerCompletionInv,
         CwIsrInv, CwIsrDpcInv
      DEF CwNext, CwSetSystemPower, cwVars
  <1> QED
    BY <1>1, <1>2, PTL DEF CwSpec

(* PendingIrp never points at a WAIT_WAKE that a power-down, the interrupt *)
(* DPC or the cancel routine has completed, and a parked one is never lost *)
(* from it, for any number of requests and whichever D-states there are.   *)
(* What the lower driver completes is not in it.                           *)
THEOREM CwSlotNeverStale == CwSpec => []CwSlotIsPending
  <1>1. CwInv => CwSlotIsPending
    BY DEF CwInv, CwGood, CwSlotIsPending
  <1> QED
    BY <1>1, CwInvariant, PTL

(* Through every failed or faulting transition, stop and restart, a        *)
(* started device that says D0 is enabled, and one that is off is quiet or *)
(* armed, until a wake interrupt declares D0 by itself or a wake is        *)
(* disarmed between another's arming and its unmasking.                    *)
THEOREM CwPowerAlwaysAgrees == CwSpec => []CwPowerAgrees
  <1>1. CwInv => CwPowerAgrees
    BY DEF CwInv, CwAgrees, CwQuiet, CwPowerAgrees, CwD0Enabled, CwAsleepQuiet
  <1> QED
    BY <1>1, CwInvariant, PTL

-----------------------------------------------------------------------------
(***************************************************************************)
(* SpbBus: a synchronous call reports success only when it was woken.      *)
(***************************************************************************)
SpSteps == {"idle", "speed", "spbcx", "forward", "begun", "claimed", "waiting", "released", "late"}
SpAnswers == {"none", "ok", "error", "timeout"}

SpContexts == [status : {"ok", "pending", "error", "timeout"}, irp : BOOLEAN, buf : BOOLEAN]

SpTypes ==
    /\ spAt \in [SpClient -> SpSteps] /\ spTold \in [SpClient -> SpAnswers]
    /\ spXfer \in SpContexts

(* TransferEvent is set only if every client that waits on it was there    *)
(* when it was set, for each clears it between its claim and its wait; who *)
(* it has released was there too.                                          *)
SpNoStaleEvent ==
    \A p \in SpClient :
        spAt[p] = "released" \/ (spAt[p] = "waiting" /\ spEvent) => p \in spWoken

(* Nobody in a call has been told anything yet.                            *)
SpNotTold == \A p \in SpClient : spAt[p] # "idle" => spTold[p] = "none"

SpInv == SpTypes /\ SpNoStaleEvent /\ SpNotTold /\ SpOkCompleted

(* What a client does by itself preserves the invariant.                   *)
LEMMA SpClientStepInv ==
    ASSUME SpInv, NEW p \in SpClient, SpClientStep(p)
    PROVE  SpInv'
  <1> USE DEF SpInv, SpTypes, SpSteps, SpAnswers, SpContexts, SpNoStaleEvent, SpNotTold,
              SpOkCompleted,
              SpAt, SpGoto, SpStarts, SpGoesOn, SpReturn, SpSet, SpCall,
              spClients, spContext, spBus
  <1>1. CASE SpCreate(p) \/ SpClose(p)
    BY <1>1 DEF SpCreate, SpClose
  <1>2. CASE \E speed \in SpSpeed : SpAcpiexSetTarget(p, speed)
    BY <1>2 DEF SpAcpiexSetTarget
  <1>3. CASE SpSetBusSpeed(p) \/ SpSpbcxSetTarget(p)
    BY <1>3 DEF SpSetBusSpeed, SpSpbcxSetTarget
  <1>4. CASE SpTransfer(p) \/ SpForward(p)
    BY <1>4 DEF SpTransfer, SpForward
  <1>5. CASE SpSequence(p) \/ SpProbe(p) \/ SpStartTransfer(p) \/ SpExecute(p)
    <2>1. PICK kind \in {"sequence", "probe", "transfer", "execute"} :
             SpBegin(p, kind, SpZero) \/ SpBegin(p, kind, spXfer)
      BY <1>5 DEF SpSequence, SpProbe, SpStartTransfer, SpExecute
    <2>2. CASE spHandle[p] # "bound"
      BY <2>1, <2>2 DEF SpBegin
    <2>3. CASE spHandle[p] = "bound"
      <3>1. spXfer' = SpZero \/ spXfer' = spXfer
        BY <2>1, <2>3 DEF SpBegin
      <3>2. /\ SpStarts(p, "begun", kind)
            /\ UNCHANGED <<spEvent, spWoken>>
        BY <2>1, <2>3 DEF SpBegin
      <3>3. spXfer' \in SpContexts
        <4>1. SpZero \in SpContexts
          BY DEF SpZero
        <4>2. spXfer \in SpContexts
          BY DEF SpInv
        <4> QED
          BY <3>1, <4>1, <4>2
      <3>4. SpTypes'
        BY <3>2, <3>3
      <3>5. SpNoStaleEvent' /\ SpNotTold' /\ SpOkCompleted'
        BY <3>2
      <3> QED
        BY <3>4, <3>5
    <2> QED
      BY <2>2, <2>3
  <1>6. CASE SpClaim(p)
    <2>1. CASE SpReturn(p, "error") /\ UNCHANGED <<spXfer, spWoken>>
      BY <1>6, <2>1 DEF SpClaim
    <2>2. CASE ~(SpReturn(p, "error") /\ UNCHANGED <<spXfer, spWoken>>)
      <3>1. /\ SpGoesOn(p, "claimed") /\ spWoken' = spWoken \ {p} /\ spEvent' = spEvent
            /\ spXfer' = [spXfer EXCEPT !.status = "pending", !.buf = spArg[p] # "probe"]
        BY <1>6, <2>2 DEF SpClaim
      <3>2. spAt[p] = "begun" /\ spXfer' \in SpContexts
        BY <1>6, <3>1 DEF SpClaim
      <3> QED
        BY <3>1, <3>2
    <2> QED
      BY <2>1, <2>2
  <1>7. CASE SpPrime(p)
    BY <1>7 DEF SpPrime, SpClearEvent, SpFirstByteRefused
  <1>8. CASE SpWake(p)
    BY <1>8 DEF SpWake, SpWokenStatus
  <1>9. CASE SpGiveUp(p) \/ SpTimeout(p)
    BY <1>9 DEF SpGiveUp, SpTimeout
  <1> QED
    BY <1>1, <1>2, <1>3, <1>4, <1>5, <1>6, <1>7, <1>8, <1>9 DEF SpClientStep

(* So does what the controller, its DPC and PnP do meanwhile.              *)
LEMMA SpControllerInv ==
    ASSUME SpInv,
           SpQueued \/ SpIsrStatus \/ SpIsrComplete \/ SpIrpTimeout \/ SpStop \/ SpStart
    PROVE  SpInv'
  <1> USE DEF SpInv, SpTypes, SpSteps, SpAnswers, SpContexts, SpNoStaleEvent, SpNotTold,
              SpOkCompleted,
              SpAt, SpCompleteIrp, SpReleases, SpZero, spClients, spBus
  <1>1. CASE SpQueued
    BY <1>1 DEF SpQueued
  <1>2. CASE SpIsrStatus
    BY <1>2 DEF SpIsrStatus
  <1>3. CASE SpIsrComplete
    BY <1>3 DEF SpIsrComplete
  <1>4. CASE SpIrpTimeout
    BY <1>4 DEF SpIrpTimeout
  <1>5. CASE SpStop
    <2>1. CASE spXfer' = [spXfer EXCEPT !.irp = FALSE] /\ SpCompleteIrp
      BY <1>5, <2>1 DEF SpStop
    <2>2. CASE UNCHANGED <<spXfer, spEvent, spWoken, spClients>>
      BY <1>5, <2>2 DEF SpStop
    <2> QED
      BY <1>5, <2>1, <2>2 DEF SpStop
  <1>6. CASE SpStart
    BY <1>6 DEF SpStart
  <1> QED
    BY <1>1, <1>2, <1>3, <1>4, <1>5, <1>6

(* A synchronous call of either facade reports success only if some IRP's  *)
(* completion set TransferEvent after the call took the context, for any   *)
(* number of clients: never for a stale event or a zeroed XferCtx.         *)
THEOREM SpSuccessWasSignalled == SpSpec => []SpOkCompleted
  <1>1. SpInit => SpInv
    BY DEF SpInit, SpInv, SpTypes, SpSteps, SpAnswers, SpContexts, SpNoStaleEvent, SpNotTold,
           SpOkCompleted, SpZero
  <1>2. SpInv /\ [SpNext]_spVars => SpInv'
    <2>1. CASE UNCHANGED spVars
      BY <2>1 DEF SpInv, SpTypes, SpNoStaleEvent, SpNotTold, SpOkCompleted, spVars
    <2> QED
      BY <2>1, SpClientStepInv, SpControllerInv DEF SpNext
  <1>3. SpInv => SpOkCompleted
    BY DEF SpInv
  <1> QED
    BY <1>1, <1>2, <1>3, PTL DEF SpSpec

-----------------------------------------------------------------------------
XpJudgedCalls == {"write", "phased", "readBlock"}

(* The steps of the judged programs by position, and what each sends.      *)
XpStepOf(call, k) ==
    CASE call = "write" -> IF k <= XpLen THEN "write" ELSE "stopSeen"
      [] call = "phased" -> IF k <= XpLen THEN "write" ELSE IF k <= 2 * XpLen THEN "ask"
                            ELSE IF k = 2 * XpLen + 1 THEN "stop"
                            ELSE IF k <= 3 * XpLen + 1 THEN "get" ELSE "stopAck"
      [] call = "readBlock" -> IF k = 1 THEN "reg" ELSE IF k <= XpLen + 1 THEN "askNow" ELSE "get"

XpSteps(call) ==
    CASE call = "write" -> XpLen + 1
      [] call = "readBlock" -> 2 * XpLen + 1
      [] call = "phased" -> 3 * XpLen + 2

XpItem(call, k) ==
    CASE call = "write" -> k - 1
      [] call = "phased" -> IF k <= XpLen THEN k - 1 ELSE XpLen
      [] call = "readBlock" -> IF k = 1 THEN 0 ELSE XpLen

XpItems(call) ==
    CASE call = "write" -> XpLen
      [] call = "phased" -> 2 * XpLen
      [] call = "readBlock" -> XpLen + 1

XpCommands == [to : {XpTarget}, do : {"write", "read", "data", "stop"}, reg : Nat]

XpBuses ==
    [tar : {0, XpTarget}, tx : Seq(XpCommands), rx : Seq({XpTarget} \X Nat),
     raw : SUBSET {"stop", "abort"}, next : [{XpTarget} -> Nat], on : BOOLEAN, ok : BOOLEAN]

XpNames ==
    {"write", "room", "ask", "get", "stopSeen", "stop", "stopAck", "reg", "askNow", "regWait",
     "askEmpty", "getBurst", "writeEmpty", "stopStatus"}

XpTypes ==
    /\ xpBus \in XpBuses /\ xpCall \in DOMAIN XpProgram \cup {"none"}
    /\ xpSteps \in Seq(XpNames) /\ xpTx \in Nat /\ xpSent \in Seq(Nat)
    /\ xpGot \in Seq({0, XpTarget} \X Nat)
    /\ xpEnd \in {"running", "ok", "failed"} /\ xpTries \in Nat /\ xpMaxRetries \in Nat
    /\ xpMade \in Nat /\ xpClean \in BOOLEAN
    /\ xpSteps # <<>> => xpEnd = "running" /\ xpBus.tar = XpTarget /\ xpCall \in DOMAIN XpProgram
    /\ xpSteps = <<>> => xpEnd # "running"

XpJudged == xpClean /\ xpCall \in XpJudgedCalls /\ xpSteps # <<>>

(* How many steps of the program are done, and how many commands are due.  *)
XpDone == XpSteps(xpCall) - Len(xpSteps)

XpPlace ==
    /\ XpDone \in 0 .. XpSteps(xpCall) - 1
    /\ \A k \in 1 .. Len(xpSteps) : xpSteps[k] = XpStepOf(xpCall, XpDone + k)

XpDue == IF XpDone <= XpItems(xpCall) THEN XpDone ELSE XpItems(xpCall)

(* The write of a register is the first command of a block, and nothing    *)
(* was read before it is served.                                           *)
XpWritePending == xpBus.tx # <<>> /\ Head(xpBus.tx).do = "write"

XpOneWrite ==
    /\ \A k \in DOMAIN xpBus.tx : xpBus.tx[k].do = "write" => k = 1
    /\ XpWritePending => xpCall = "readBlock" /\ xpBus.rx = <<>> /\ xpGot = <<>>

(* What was read are the registers of the device up to the next.           *)
XpInOrder ==
    /\ Len(xpBus.rx) + Len(xpGot) <= xpBus.next[XpTarget]
    /\ \A k \in DOMAIN xpBus.rx :
          xpBus.rx[k] = <<XpTarget, xpBus.next[XpTarget] - Len(xpBus.rx) + k - 1>>
    /\ \A k \in DOMAIN xpGot :
          xpGot[k] = <<XpTarget, xpBus.next[XpTarget] - Len(xpBus.rx) - Len(xpGot) + k - 1>>

(* Until an abort, the commands due were sent; a block may have lost some  *)
(* of its tokens, and then has too few bytes to come.                      *)
XpSending ==
    /\ xpBus.on
    /\ \A k \in DOMAIN xpSent : xpSent[k] = XpItem(xpCall, k)
    /\ Len(xpSent) <= XpDue
    /\ xpCall # "readBlock" => Len(xpSent) = XpDue
    /\ xpCall \in {"write", "phased"} => xpTx = IF XpDone <= XpLen THEN XpDone ELSE XpLen

XpComing ==
    xpCall = "readBlock" =>
        /\ XpDone = 0 => xpBus.tx = <<>> /\ xpBus.rx = <<>> /\ xpGot = <<>>
        /\ XpDone >= 1 => Len(xpSent) >= 1
        /\ XpDone >= 1 =>
              Len(xpBus.tx) + Len(xpBus.rx) + Len(xpGot) + (IF XpWritePending THEN 0 ELSE 1)
                  <= Len(xpSent)

XpAborted == xpBus.tx = <<>> /\ (xpCall = "readBlock" => Len(xpBus.rx) + Len(xpGot) < XpLen)

XpUnderWay ==
    /\ XpPlace /\ XpOneWrite /\ XpInOrder
    /\ xpCall = "readBlock" => Len(xpGot) = IF XpDone <= XpLen + 1 THEN 0 ELSE XpDone - XpLen - 1
    /\ xpCall = "readBlock" /\ XpDone = 0 => xpBus.raw = {}
    /\ IF XpRaised("abort") THEN XpAborted ELSE XpSending /\ XpComing

XpInv == XpTypes /\ (XpJudged => XpUnderWay) /\ XpOkIsWhole

-----------------------------------------------------------------------------
(* The programs are put together from XpLen equal steps and single ones.   *)
LEMMA XpEachIs ==
    ASSUME NEW s \in XpNames
    PROVE  XpEach(s) \in Seq(XpNames) /\ Len(XpEach(s)) = XpLen /\ \A k \in 1 .. XpLen : XpEach(s)[k] = s
  <1>1. XpLen \in Nat
    BY XpAssumption
  <1>2. XpEach(s) \in [1 .. XpLen -> XpNames]
    BY DEF XpEach
  <1>3. XpEach(s) \in Seq(XpNames)
    BY <1>1, <1>2, SeqDef, Zenon
  <1>4. DOMAIN XpEach(s) = 1 .. XpLen /\ \A k \in 1 .. XpLen : XpEach(s)[k] = s
    BY DEF XpEach
  <1>5. DOMAIN XpEach(s) = 1 .. Len(XpEach(s)) /\ Len(XpEach(s)) \in Nat
    BY <1>3, LenProperties
  <1>6. Len(XpEach(s)) = XpLen
    BY ONLY <1>1, <1>4, <1>5
  <1> QED
    BY <1>3, <1>4, <1>6, Zenon

XpAdds(q, p, n, m, s) ==
    /\ q \in Seq(XpNames) /\ Len(q) = n + m
    /\ \A k \in 1 .. n : q[k] = p[k]
    /\ \A k \in n + 1 .. n + m : q[k] = s

(* More of the same after p.                                               *)
LEMMA XpAddEach ==
    ASSUME NEW p \in Seq(XpNames), NEW s \in XpNames
    PROVE  XpAdds(p \o XpEach(s), p, Len(p), XpLen, s)
  <1> DEFINE e == XpEach(s)
             q == p \o e
             n == Len(p)
  <1>1. e \in Seq(XpNames) /\ Len(e) = XpLen /\ \A k \in 1 .. XpLen : e[k] = s
    BY XpEachIs, Zenon
  <1> HIDE DEF e
  <1>2. /\ q \in Seq(XpNames) /\ Len(q) = n + Len(e)
        /\ \A k \in 1 .. n + Len(e) : q[k] = IF k <= n THEN p[k] ELSE e[k - n]
    BY <1>1, ConcatProperties
  <1>3. XpLen \in Nat /\ n \in Nat
    BY XpAssumption, LenProperties
  <1> HIDE DEF q, n
  <1>4. /\ Len(q) = n + XpLen
        /\ \A k \in 1 .. n + XpLen : q[k] = IF k <= n THEN p[k] ELSE e[k - n]
    BY <1>1, <1>2
  <1>5. \A k \in 1 .. n : q[k] = p[k]
    BY ONLY <1>3, <1>4
  <1>6. ASSUME NEW k \in n + 1 .. n + XpLen PROVE q[k] = s
    <2>1. k \in 1 .. n + XpLen /\ ~(k <= n) /\ k - n \in 1 .. XpLen
      BY ONLY <1>3, <1>6
    <2> QED
      BY ONLY <1>1, <1>4, <2>1, Zenon
  <1>7. XpAdds(q, p, n, XpLen, s)
    BY <1>2, <1>4, <1>5, <1>6 DEF XpAdds
  <1> QED
    BY <1>7 DEF q, n, e

(* One step after p.                                                       *)
LEMMA XpAddOne ==
    ASSUME NEW p \in Seq(XpNames), NEW s \in XpNames
    PROVE  XpAdds(p \o <<s>>, p, Len(p), 1, s)
  <1> DEFINE q == Append(p, s)
  <1>1. p \o <<s>> = q
    BY AppendIsConcat
  <1>2. /\ q \in Seq(XpNames) /\ Len(q) = Len(p) + 1
        /\ \A k \in 1 .. Len(p) : q[k] = p[k]
        /\ q[Len(p) + 1] = s
    BY AppendProperties
  <1>3. Len(p) \in Nat
    BY LenProperties
  <1> HIDE DEF q
  <1>4. \A k \in Len(p) + 1 .. Len(p) + 1 : q[k] = s
    BY <1>2, <1>3
  <1>5. XpAdds(q, p, Len(p), 1, s)
    BY <1>2, <1>4 DEF XpAdds
  <1> QED
    BY <1>1, <1>5

(* The names by name.                                                      *)
LEMMA XpNamesAre ==
    /\ "write" \in XpNames /\ "room" \in XpNames /\ "ask" \in XpNames /\ "get" \in XpNames
    /\ "stopSeen" \in XpNames
    /\ "stop" \in XpNames /\ "stopAck" \in XpNames /\ "reg" \in XpNames
    /\ "askNow" \in XpNames /\ "regWait" \in XpNames /\ "askEmpty" \in XpNames
    /\ "getBurst" \in XpNames /\ "writeEmpty" \in XpNames /\ "stopStatus" \in XpNames
  BY DEF XpNames

(* What was added to is a program again.                                   *)
LEMMA XpAdded ==
    ASSUME NEW q, NEW p, NEW n, NEW m, NEW s, XpAdds(q, p, n, m, s)
    PROVE  q \in Seq(XpNames) /\ Len(q) = n + m
  BY DEF XpAdds

(* Programs, by position.                                                  *)
LEMMA XpJudgedProgramsAre ==
    ASSUME NEW call \in XpJudgedCalls
    PROVE  /\ XpProgram[call] \in Seq(XpNames) /\ Len(XpProgram[call]) = XpSteps(call)
           /\ \A k \in 1 .. XpSteps(call) : XpProgram[call][k] = XpStepOf(call, k)
  <1>1. XpLen \in Nat /\ XpLen >= 1
    BY XpAssumption
  <1>n. \A x \in XpNames : <<x>> \in Seq(XpNames) /\ Len(<<x>>) = 1 /\ <<x>>[1] = x
    OBVIOUS
  <1>2. CASE call = "write"
    <2> DEFINE p == XpEach("write")
               q == p \o <<"stopSeen">>
    <2>1. p \in Seq(XpNames) /\ Len(p) = XpLen /\ \A k \in 1 .. XpLen : p[k] = "write"
      BY XpNamesAre, XpEachIs, Zenon
    <2> HIDE DEF p
    <2>2. XpAdds(q, p, XpLen, 1, "stopSeen")
      BY XpNamesAre, <2>1, XpAddOne, Zenon
    <2>3. XpProgram[call] = q
      BY <1>2 DEF XpProgram, ExecuteTransferSafe, p, q
    <2> HIDE DEF q
    <2>4. \A k \in 1 .. XpLen + 1 : q[k] = IF k <= XpLen THEN "write" ELSE "stopSeen"
      BY ONLY <1>1, <2>1, <2>2 DEF XpAdds
    <2> QED
      BY <1>2, <2>2, <2>3, <2>4 DEF XpSteps, XpStepOf, XpAdds
  <1>4. CASE call = "readBlock"
    <2> DEFINE p == <<"reg">>
               q == p \o XpEach("askNow")
               r == q \o XpEach("get")
    <2>1. p \in Seq(XpNames) /\ Len(p) = 1 /\ p[1] = "reg"
      BY XpNamesAre, <1>n, Zenon
    <2> HIDE DEF p
    <2>2. XpAdds(q, p, 1, XpLen, "askNow")
      BY XpNamesAre, <2>1, XpAddEach, Zenon
    <2>l2. q \in Seq(XpNames) /\ Len(q) = 1 + XpLen
      BY <2>2, XpAdded, Zenon
    <2> HIDE DEF q
    <2>3. XpAdds(r, q, 1 + XpLen, XpLen, "get")
      BY XpNamesAre, <2>l2, XpAddEach, Zenon
    <2>4. XpProgram[call] = r
      BY <1>4 DEF XpProgram, ReadBlock, p, q, r
    <2> HIDE DEF r
    <2>5. Len(r) = 2 * XpLen + 1
      BY ONLY <1>1, <2>3 DEF XpAdds
    <2>6. \A k \in 1 .. 2 * XpLen + 1 :
             r[k] = IF k = 1 THEN "reg" ELSE IF k <= XpLen + 1 THEN "askNow" ELSE "get"
      BY ONLY <1>1, <2>1, <2>2, <2>3 DEF XpAdds
    <2> QED
      BY <1>4, <2>3, <2>4, <2>5, <2>6 DEF XpSteps, XpStepOf, XpAdds
  <1>5. CASE call = "phased"
    <2> DEFINE o == XpEach("write")
               p == o \o XpEach("ask")
               q == p \o <<"stop">>
               r == q \o XpEach("get")
               s == r \o <<"stopAck">>
    <2>1. o \in Seq(XpNames) /\ Len(o) = XpLen /\ \A k \in 1 .. XpLen : o[k] = "write"
      BY XpNamesAre, XpEachIs, Zenon
    <2> HIDE DEF o
    <2>2. XpAdds(p, o, XpLen, XpLen, "ask")
      BY XpNamesAre, <2>1, XpAddEach, Zenon
    <2>l2. p \in Seq(XpNames) /\ Len(p) = XpLen + XpLen
      BY <2>2, XpAdded, Zenon
    <2> HIDE DEF p
    <2>3. XpAdds(q, p, XpLen + XpLen, 1, "stop")
      BY XpNamesAre, <2>l2, XpAddOne, Zenon
    <2>l3. q \in Seq(XpNames) /\ Len(q) = XpLen + XpLen + 1
      BY <2>3, XpAdded, Zenon
    <2> HIDE DEF q
    <2>4. XpAdds(r, q, XpLen + XpLen + 1, XpLen, "get")
      BY XpNamesAre, <2>l3, XpAddEach, Zenon
    <2>l4. r \in Seq(XpNames) /\ Len(r) = XpLen + XpLen + 1 + XpLen
      BY <2>4, XpAdded, Zenon
    <2> HIDE DEF r
    <2>5. XpAdds(s, r, XpLen + XpLen + 1 + XpLen, 1, "stopAck")
      BY XpNamesAre, <2>l4, XpAddOne, Zenon
    <2>6. XpProgram[call] = s
      BY <1>5 DEF XpProgram, RunTransferPhased, o, p, q, r, s
    <2> HIDE DEF s
    <2>7. Len(s) = 3 * XpLen + 2
      BY ONLY <1>1, <2>5 DEF XpAdds
    <2>8. \A k \in 1 .. 3 * XpLen + 2 :
             s[k] = IF k <= XpLen THEN "write" ELSE IF k <= 2 * XpLen THEN "ask"
                    ELSE IF k = 2 * XpLen + 1 THEN "stop"
                    ELSE IF k <= 3 * XpLen + 1 THEN "get" ELSE "stopAck"
      <3>1. TAKE k \in 1 .. 3 * XpLen + 2
      <3>2. CASE k <= XpLen
        BY ONLY <1>1, <2>1, <2>2, <2>3, <2>4, <2>5, <3>2 DEF XpAdds
      <3>3. CASE k > XpLen /\ k <= 2 * XpLen
        BY ONLY <1>1, <2>2, <2>3, <2>4, <2>5, <3>3 DEF XpAdds
      <3>4. CASE k = 2 * XpLen + 1
        BY ONLY <1>1, <2>3, <2>4, <2>5, <3>4 DEF XpAdds
      <3>5. CASE k > 2 * XpLen + 1 /\ k <= 3 * XpLen + 1
        BY ONLY <1>1, <2>4, <2>5, <3>5 DEF XpAdds
      <3>6. CASE k = 3 * XpLen + 2
        BY ONLY <1>1, <2>5, <3>6 DEF XpAdds
      <3> QED
        BY ONLY <1>1, <3>2, <3>3, <3>4, <3>5, <3>6 DEF XpAdds
    <2> QED
      BY <1>5, <2>5, <2>6, <2>7, <2>8 DEF XpSteps, XpStepOf, XpAdds
  <1> QED
    BY <1>2, <1>4, <1>5 DEF XpJudgedCalls

(* No program is empty.                                                    *)
LEMMA XpProgramsAre ==
    ASSUME NEW call \in DOMAIN XpProgram
    PROVE  XpProgram[call] \in Seq(XpNames) /\ XpProgram[call] # <<>>
  <1>1. XpLen \in Nat /\ XpLen >= 1
    BY XpAssumption
  <1>n. \A x \in XpNames : <<x>> \in Seq(XpNames) /\ Len(<<x>>) = 1 /\ <<x>>[1] = x
    OBVIOUS
  <1>2. CASE call \in XpJudgedCalls
    <2>1. XpProgram[call] \in Seq(XpNames) /\ Len(XpProgram[call]) = XpSteps(call)
      BY <1>2, XpJudgedProgramsAre
    <2>2. XpSteps(call) >= 1
      BY <1>1, <1>2 DEF XpSteps, XpJudgedCalls
    <2> QED
      BY <2>1, <2>2
  <1>3. CASE call = "writeBlock"
    <2>1. XpProgram[call] = <<"regWait">> \o XpEach("write")
      BY <1>3 DEF XpProgram, WriteBlock
    <2>2. <<"regWait">> \in Seq(XpNames) /\ Len(<<"regWait">>) = 1
      BY XpNamesAre, <1>n, Zenon
    <2>3. XpAdds(XpProgram[call], <<"regWait">>, 1, XpLen, "write")
      BY XpNamesAre, <2>1, <2>2, XpAddEach, Zenon
    <2> QED
      BY <1>1, <2>3 DEF XpAdds
  <1>4. CASE call = "readBurst"
    <2> DEFINE p == XpEach("askEmpty") \o <<"stop">>
    <2>1. XpProgram[call] = p \o XpEach("getBurst")
      BY <1>4 DEF XpProgram, ReadBurstPolled
    <2>2. XpEach("askEmpty") \in Seq(XpNames) /\ Len(XpEach("askEmpty")) = XpLen
      BY XpNamesAre, XpEachIs, Zenon
    <2>3. XpAdds(p, XpEach("askEmpty"), XpLen, 1, "stop")
      BY XpNamesAre, <2>2, XpAddOne, Zenon
    <2>4. p \in Seq(XpNames) /\ Len(p) = XpLen + 1
      BY <2>3, XpAdded, Zenon
    <2> HIDE DEF p
    <2>5. XpAdds(XpProgram[call], p, XpLen + 1, XpLen, "getBurst")
      BY XpNamesAre, <2>1, <2>4, XpAddEach, Zenon
    <2> QED
      BY <1>1, <2>5 DEF XpAdds
  <1>5. CASE call \in {"writeBurst", "writeBurstStop"}
    <2> DEFINE p == IF call = "writeBurstStop" THEN <<"stop", "stopStatus">> ELSE <<>>
    <2>1. XpProgram[call] = XpEach("writeEmpty") \o p
      <3>1. CASE call = "writeBurst"
        BY <3>1 DEF XpProgram, WriteBurstPolled
      <3>2. CASE call = "writeBurstStop"
        BY <3>2 DEF XpProgram, WriteBurstPolled
      <3> QED
        BY <1>5, <3>1, <3>2
    <2>2. p \in Seq(XpNames) /\ Len(p) \in Nat
      <3>1. <<>> \in Seq(XpNames) /\ Len(<<>>) = 0
        OBVIOUS
      <3>2. <<"stop", "stopStatus">> \in Seq(XpNames) /\ Len(<<"stop", "stopStatus">>) = 2
        BY XpNamesAre
      <3> QED
        BY <3>1, <3>2
    <2>3. XpEach("writeEmpty") \in Seq(XpNames) /\ Len(XpEach("writeEmpty")) = XpLen
      BY XpNamesAre, XpEachIs, Zenon
    <2> HIDE DEF p
    <2>4. XpProgram[call] \in Seq(XpNames) /\ Len(XpProgram[call]) = XpLen + Len(p)
      BY <2>1, <2>2, <2>3, ConcatProperties
    <2> QED
      BY <1>1, <2>2, <2>4
  <1>6. CASE call = "read"
    <2> DEFINE p == XpEach("room")
               q == p \o XpEach("get")
    <2>1. p \in Seq(XpNames) /\ Len(p) = XpLen
      BY XpNamesAre, XpEachIs, Zenon
    <2>2. XpProgram[call] = q \o <<"stopSeen">>
      BY <1>6 DEF XpProgram, ExecuteTransferSafe
    <2> HIDE DEF p
    <2>3. XpAdds(q, p, XpLen, XpLen, "get")
      BY XpNamesAre, <2>1, XpAddEach, Zenon
    <2>4. q \in Seq(XpNames) /\ Len(q) = XpLen + XpLen
      BY <2>3, XpAdded, Zenon
    <2> HIDE DEF q
    <2>5. XpAdds(XpProgram[call], q, XpLen + XpLen, 1, "stopSeen")
      BY XpNamesAre, <2>2, <2>4, XpAddOne, Zenon
    <2> QED
      BY <1>1, <2>5 DEF XpAdds
  <1> QED
    BY <1>2, <1>3, <1>4, <1>5, <1>6 DEF XpProgram, XpJudgedCalls

-----------------------------------------------------------------------------
XpCommanded(c, b, kind, reg) ==
    /\ c \in XpBuses /\ c.tar = XpTarget /\ c.rx = b.rx /\ c.raw = b.raw /\ c.next = b.next
    /\ c.on = b.on
    /\ b.on => c.tx = Append(b.tx, [to |-> XpTarget, do |-> kind, reg |-> reg])
    /\ ~b.on => c.tx = b.tx

(* What the operations do to the bus.  A command goes to the end of an     *)
(* enabled controller's FIFO.                                              *)
LEMMA XpCommandBus ==
    ASSUME NEW b \in XpBuses, b.tar = XpTarget, NEW reg \in Nat,
           NEW kind \in {"write", "read", "data", "stop"}
    PROVE  XpCommanded(DwCommand(b, kind, reg), b, kind, reg)
  <1> DEFINE item == [to |-> XpTarget, do |-> kind, reg |-> reg]
             new == [k \in 1 .. 1 |-> item]
             c == DwCommand(b, kind, reg)
  <1>1. item \in XpCommands
    BY DEF XpCommands
  <1>2. new = <<item>>
    OBVIOUS
  <1>3. b.tx \in Seq(XpCommands)
    BY DEF XpBuses
  <1>4. b.tx \o new = Append(b.tx, item) /\ Append(b.tx, item) \in Seq(XpCommands)
    BY <1>1, <1>2, <1>3, AppendIsConcat
  <1>5. c = IF b.on THEN [b EXCEPT !.tx = b.tx \o new] ELSE b
    BY DEF DwCommand, DwCommands
  <1> HIDE DEF item, new, c
  <1>6. XpCommanded(c, b, kind, reg)
    <2>1. CASE b.on
      <3> DEFINE t == Append(b.tx, item)
      <3>1. c = [b EXCEPT !.tx = t]
        BY <1>4, <1>5, <2>1
      <3>2. t \in Seq(XpCommands)
        BY <1>4
      <3> HIDE DEF t
      <3>3. /\ c \in XpBuses /\ c.tar = b.tar /\ c.tx = t /\ c.rx = b.rx /\ c.raw = b.raw
            /\ c.next = b.next /\ c.on = b.on
        BY <3>1, <3>2 DEF XpBuses
      <3> QED
        BY <3>3, <2>1 DEF XpCommanded, t, item
    <2>2. CASE ~b.on
      BY <1>5, <2>2 DEF XpCommanded
    <2> QED
      BY <2>1, <2>2
  <1> QED
    BY <1>6 DEF c

(* A byte is taken off the head of the receive FIFO.                       *)
LEMMA XpReadBus ==
    ASSUME NEW b \in XpBuses, b.rx # <<>>
    PROVE  LET r == DwReadRxByte(b)
           IN /\ r.byte = Head(b.rx) /\ r.bus \in XpBuses /\ r.bus.rx = Tail(b.rx)
              /\ r.bus.tar = b.tar /\ r.bus.tx = b.tx /\ r.bus.raw = b.raw /\ r.bus.next = b.next
              /\ r.bus.on = b.on /\ r.byte \in {XpTarget} \X Nat
  <1>1. b.rx \in Seq({XpTarget} \X Nat)
    BY DEF XpBuses
  <1>2. Tail(b.rx) \in Seq({XpTarget} \X Nat) /\ Head(b.rx) \in {XpTarget} \X Nat
    BY <1>1
  <1>3. DwReadRxByte(b) = [byte |-> Head(b.rx), bus |-> [b EXCEPT !.rx = Tail(b.rx)]]
    BY DEF DwReadRxByte
  <1> DEFINE c == [b EXCEPT !.rx = Tail(b.rx)]
  <1>4. /\ c \in XpBuses /\ c.rx = Tail(b.rx) /\ c.tar = b.tar /\ c.tx = b.tx /\ c.raw = b.raw
        /\ c.next = b.next /\ c.on = b.on
    BY <1>2 DEF XpBuses
  <1>5. DwReadRxByte(b).byte = Head(b.rx) /\ DwReadRxByte(b).bus = c
    BY <1>3
  <1> QED
    BY <1>2, <1>4, <1>5

(* Operations that change one field, or empty the FIFOs.                   *)
LEMMA XpPlainBus ==
    ASSUME NEW b \in XpBuses
    PROVE  /\ DwDrainRxBounded(b) \in XpBuses
           /\ DwEnable(b, TRUE) \in XpBuses /\ DwEnable(b, FALSE) \in XpBuses
  <1>1. <<>> \in Seq(XpCommands) /\ <<>> \in Seq({XpTarget} \X Nat)
    OBVIOUS
  <1> QED
    BY <1>1 DEF XpBuses, DwDrainRxBounded, DwEnable

(* The target is set, and nothing else.                                    *)
LEMMA XpSetBus ==
    ASSUME NEW b \in XpBuses, NEW c, c = DwSetTarget7bit(b, XpTarget)
    PROVE  /\ c \in XpBuses /\ c.tar = XpTarget /\ c.tx = b.tx /\ c.rx = b.rx /\ c.raw = b.raw
           /\ c.next = b.next /\ c.on = b.on
  BY DEF XpBuses, DwSetTarget7bit

(* An acknowledgement clears the causes.                                   *)
LEMMA XpAckBus ==
    ASSUME NEW b \in XpBuses, NEW c, c = DwAckInterrupts(b)
    PROVE  /\ c \in XpBuses /\ c.tar = b.tar /\ c.tx = b.tx /\ c.rx = b.rx /\ c.raw = {}
           /\ c.next = b.next /\ c.on = b.on
  BY DEF XpBuses, DwAckInterrupts

(* A command is dropped on an abort, refused, or served.                   *)
XpServed(c, b, present) ==
    /\ c \in XpBuses /\ c.tar = b.tar /\ c.on = b.on
    /\ \/ "abort" \in b.raw /\ c.tx = <<>> /\ c.rx = b.rx /\ c.next = b.next /\ c.raw = b.raw
       \/ /\ "abort" \notin b.raw /\ present = {} /\ c.tx = <<>> /\ c.rx = b.rx /\ c.next = b.next
          /\ "abort" \in c.raw
       \/ /\ "abort" \notin b.raw /\ "abort" \notin c.raw /\ present # {} /\ c.tx = Tail(b.tx)
          /\ \/ Head(b.tx).do = "write" /\ c.rx = b.rx /\ c.next[XpTarget] \in Nat
             \/ Head(b.tx).do = "read" /\ c.rx = Append(b.rx, <<XpTarget, b.next[XpTarget]>>)
                /\ c.next[XpTarget] = b.next[XpTarget] + 1
             \/ Head(b.tx).do \in {"data", "stop"} /\ c.rx = b.rx /\ c.next = b.next

LEMMA XpServeBus ==
    ASSUME NEW b \in XpBuses, b.tx # <<>>, NEW present \in {{}, {XpTarget}}
    PROVE  XpServed(DwServe(b, present), b, present)
  <1> DEFINE head == Head(b.tx)
             raw == IF Len(b.tx) = 1 THEN b.raw \cup {"stop"} ELSE b.raw
             rest == [b EXCEPT !.tx = Tail(b.tx), !.raw = raw]
  <1>1. /\ b.tx \in Seq(XpCommands) /\ b.rx \in Seq({XpTarget} \X Nat) /\ b.next \in [{XpTarget} -> Nat]
        /\ b.raw \subseteq {"stop", "abort"}
    BY DEF XpBuses
  <1>2. head \in XpCommands /\ Tail(b.tx) \in Seq(XpCommands) /\ <<>> \in Seq(XpCommands)
    BY <1>1
  <1>3. head.to = XpTarget /\ head.do \in {"write", "read", "data", "stop"} /\ head.reg \in Nat
    BY <1>2 DEF XpCommands
  <1>4. rest \in XpBuses /\ rest.rx = b.rx /\ rest.next = b.next /\ rest.tar = b.tar /\ rest.on = b.on
        /\ rest.tx = Tail(b.tx) /\ rest.raw = raw /\ ("abort" \notin b.raw => "abort" \notin raw)
    BY <1>1, <1>2 DEF XpBuses
  <1>5. CASE "abort" \in b.raw
    <2>1. DwServe(b, present) = [b EXCEPT !.tx = <<>>]
      BY <1>5 DEF DwServe
    <2> QED
      BY <2>1, <1>2, <1>5 DEF XpBuses, XpServed
  <1>6. CASE "abort" \notin b.raw /\ present = {}
    <2>1. DwServe(b, present) = [b EXCEPT !.tx = <<>>, !.raw = @ \cup {"abort"}]
      BY <1>6 DEF DwServe
    <2> QED
      BY <2>1, <1>1, <1>2, <1>6 DEF XpBuses, XpServed
  <1>7. CASE "abort" \notin b.raw /\ present = {XpTarget}
    <2>1. DwServe(b, present) =
             CASE head.do = "write" -> [rest EXCEPT !.next[head.to] = head.reg]
               [] head.do = "read" -> [rest EXCEPT !.rx = Append(@, <<head.to, b.next[head.to]>>),
                                                   !.next[head.to] = @ + 1]
               [] head.do = "data" -> rest
               [] head.do = "stop" -> [rest EXCEPT !.raw = @ \cup {"stop"}]
      BY <1>3, <1>7 DEF DwServe
    <2> HIDE DEF rest, raw, head
    <2>2. CASE head.do = "write"
      <3> DEFINE n == [rest.next EXCEPT ![XpTarget] = head.reg]
                 c == [rest EXCEPT !.next = n]
      <3>1. DwServe(b, present) = c
        BY <2>1, <2>2, <1>3
      <3>2. n \in [{XpTarget} -> Nat] /\ n[XpTarget] \in Nat
        BY <1>1, <1>3, <1>4
      <3> HIDE DEF n
      <3>3. /\ c \in XpBuses /\ c.tar = b.tar /\ c.on = b.on /\ c.tx = Tail(b.tx) /\ c.raw = raw
            /\ c.rx = b.rx /\ c.next = n
        BY <1>4, <3>2 DEF XpBuses
      <3> QED
        BY <3>1, <3>2, <3>3, <2>2, <1>4, <1>7 DEF head, XpServed
    <2>3. CASE head.do = "read"
      <3> DEFINE r == Append(rest.rx, <<XpTarget, b.next[XpTarget]>>)
                 n == [rest.next EXCEPT ![XpTarget] = rest.next[XpTarget] + 1]
                 c == [rest EXCEPT !.rx = r, !.next = n]
      <3>1. DwServe(b, present) = c
        BY <2>1, <2>3, <1>3
      <3>2. /\ r = Append(b.rx, <<XpTarget, b.next[XpTarget]>>) /\ r \in Seq({XpTarget} \X Nat)
            /\ n \in [{XpTarget} -> Nat] /\ n[XpTarget] = b.next[XpTarget] + 1
        BY <1>1, <1>4
      <3> HIDE DEF n
      <3>3. /\ c \in XpBuses /\ c.tar = b.tar /\ c.on = b.on /\ c.tx = Tail(b.tx) /\ c.raw = raw
            /\ c.rx = r /\ c.next = n
        BY <1>4, <3>2 DEF XpBuses
      <3> QED
        BY <3>1, <3>2, <3>3, <2>3, <1>4, <1>7 DEF head, XpServed
    <2>4. CASE head.do = "data"
      BY <2>1, <2>4, <1>4, <1>7 DEF head, XpServed
    <2>5. CASE head.do = "stop"
      <3> DEFINE c == [rest EXCEPT !.raw = raw \cup {"stop"}]
      <3>1. DwServe(b, present) = c
        BY <2>1, <2>5, <1>4
      <3>2. /\ c \in XpBuses /\ c.tar = b.tar /\ c.on = b.on /\ c.tx = Tail(b.tx)
            /\ c.raw = raw \cup {"stop"} /\ c.rx = b.rx /\ c.next = b.next
        BY <1>4 DEF XpBuses
      <3> QED
        BY <3>1, <3>2, <2>5, <1>4, <1>7 DEF head, XpServed
    <2> QED
      BY <2>2, <2>3, <2>4, <2>5, <1>3 DEF head, XpServed
  <1> QED
    BY <1>5, <1>6, <1>7

-----------------------------------------------------------------------------
-----------------------------------------------------------------------------
(* What every step keeps.                                                  *)
LEMMA XpAdvances ==
    ASSUME XpTypes, xpSteps # <<>>, XpGoesOn
    PROVE  /\ xpSteps' = Tail(xpSteps) /\ xpSteps' \in Seq(XpNames) /\ Len(xpSteps') = Len(xpSteps) - 1
           /\ \A k \in 1 .. Len(xpSteps') : xpSteps'[k] = xpSteps[k + 1]
           /\ Len(xpSteps) \in Nat /\ Len(xpSteps) >= 1
           /\ xpSteps' # <<>> => xpEnd' = "running"
           /\ xpSteps' = <<>> => xpEnd' = "ok"
           /\ xpCall' = xpCall /\ xpClean' = xpClean /\ xpTries' = xpTries
           /\ xpMaxRetries' = xpMaxRetries /\ xpMade' = xpMade
  <1>1. xpSteps \in Seq(XpNames)
    BY DEF XpTypes
  <1>2. /\ Tail(xpSteps) \in Seq(XpNames) /\ Len(Tail(xpSteps)) = Len(xpSteps) - 1
        /\ \A k \in 1 .. Len(Tail(xpSteps)) : Tail(xpSteps)[k] = xpSteps[k + 1]
    BY <1>1, HeadTailProperties
  <1>3. Len(xpSteps) \in Nat /\ Len(xpSteps) >= 1
    BY <1>1, EmptySeq
  <1> QED
    BY <1>2, <1>3 DEF XpGoesOn

(* A command is put, or lost.                                              *)
LEMMA XpPutTypes ==
    ASSUME XpTypes, xpSteps # <<>>, NEW item \in Nat, NEW kind \in {"write", "read", "data"},
           NEW reg \in Nat, XpPut(DwCommand(xpBus, kind, reg), item)
    PROVE  /\ xpBus' \in XpBuses /\ xpBus'.tar = XpTarget /\ xpSent' \in Seq(Nat) /\ xpGot' = xpGot
           /\ xpBus'.rx = xpBus.rx /\ xpBus'.raw = xpBus.raw /\ xpBus'.next = xpBus.next
           /\ xpBus'.on = xpBus.on
           /\ \/ ~XpTakes /\ xpBus' = xpBus /\ xpSent' = xpSent
              \/ XpTakes /\ xpSent' = Append(xpSent, item)
                 /\ xpBus'.tx = Append(xpBus.tx, [to |-> XpTarget, do |-> kind, reg |-> reg])
  <1> DEFINE c == DwCommand(xpBus, kind, reg)
  <1>1. xpBus \in XpBuses /\ xpBus.tar = XpTarget /\ xpSent \in Seq(Nat)
    BY DEF XpTypes
  <1>2. /\ c \in XpBuses /\ c.tar = XpTarget /\ c.rx = xpBus.rx /\ c.raw = xpBus.raw
        /\ c.next = xpBus.next /\ c.on = xpBus.on
        /\ xpBus.on => c.tx = Append(xpBus.tx, [to |-> XpTarget, do |-> kind, reg |-> reg])
    <2>1. XpCommanded(c, xpBus, kind, reg)
      BY <1>1, XpCommandBus, Zenon
    <2> QED
      BY <2>1 DEF XpCommanded
  <1> HIDE DEF c
  <1>3. Append(xpSent, item) \in Seq(Nat)
    BY <1>1
  <1>4. /\ xpBus' = IF XpTakes THEN c ELSE xpBus
        /\ xpSent' = IF XpTakes THEN Append(xpSent, item) ELSE xpSent
        /\ xpGot' = xpGot
    BY DEF XpPut, c
  <1>5. CASE XpTakes
    BY <1>1, <1>2, <1>3, <1>4, <1>5 DEF XpTakes
  <1>6. CASE ~XpTakes
    BY <1>1, <1>4, <1>6
  <1> QED
    BY <1>5, <1>6

(* A read token is a command.                                              *)
LEMMA XpTokenPut ==
    ASSUME NEW item, XpPut(DwIssueReadToken(xpBus), item)
    PROVE  XpPut(DwCommand(xpBus, "read", 0), item)
  BY DEF XpPut, DwIssueReadToken

(* A call begins.                                                          *)
LEMMA XpBeginTypes ==
    ASSUME XpTypes, NEW call \in DOMAIN XpProgram, XpBegin(call)
    PROVE  XpTypes'
  <1>1. xpBus' \in XpBuses /\ xpBus'.tar = XpTarget
    BY XpSetBus DEF XpTypes, XpBegin
  <1>2. xpSteps' \in Seq(XpNames) /\ xpSteps' # <<>> /\ xpCall' = call /\ xpEnd' = "running"
    BY XpProgramsAre DEF XpBegin
  <1>3. xpTries' \in Nat
    <2>1. xpTries' \in {xpMaxRetries, 3, 0} /\ xpMaxRetries \in Nat
      BY DEF XpBegin, XpTypes
    <2> QED
      BY <2>1
  <1>4. /\ xpTx' = 0 /\ xpGot' = <<>> /\ xpSent' = <<>> /\ xpClean' \in BOOLEAN
        /\ xpMaxRetries' \in Nat /\ xpMade' \in Nat
    BY DEF XpBegin, XpTypes
  <1> QED
    BY <1>1, <1>2, <1>3, <1>4, EmptySeq DEF XpTypes

(* The policy, what is run between calls, and the interrupt.               *)
LEMMA XpRestTypes ==
    ASSUME XpTypes, LoadRegistryPolicy \/ XpBetween \/ XpIsr
    PROVE  XpTypes'
  <1>1. CASE LoadRegistryPolicy
    <2>1. xpMaxRetries' \in Nat
      BY <1>1 DEF LoadRegistryPolicy, RetriesOf
    <2> QED
      BY <1>1, <2>1 DEF LoadRegistryPolicy, XpTypes
  <1>2. CASE XpBetween
    <2>1. xpBus \in XpBuses
      BY DEF XpTypes
    <2>2. /\ FlushTxFifoBounded \in XpBuses /\ DrainRxFifoBounded \in XpBuses
          /\ ApplyControllerPolicy \in XpBuses /\ QuiesceFifos(FALSE) \in XpBuses
      BY <2>1, XpPlainBus, XpAckBus DEF FlushTxFifoBounded, DrainRxFifoBounded,
                                        ApplyControllerPolicy, QuiesceFifos
    <2>3. DiscardTxEntrySafe \in XpBuses
      <3>1. CASE xpBus.rx = <<>>
        BY <2>1, <3>1 DEF DiscardTxEntrySafe, DwReadRxByte
      <3>2. CASE xpBus.rx # <<>>
        BY <2>1, <3>2, XpReadBus DEF DiscardTxEntrySafe
      <3> QED
        BY <3>1, <3>2
    <2>4. QuiesceFifos(TRUE) \in XpBuses
      <3> DEFINE h == HalIdle({XpTarget})
      <3>1. QuiesceFifos(TRUE) = [h EXCEPT !.tar = xpBus.tar, !.next = xpBus.next, !.on = xpBus.on]
        BY DEF QuiesceFifos
      <3>2. <<>> \in Seq(XpCommands) /\ <<>> \in Seq({XpTarget} \X Nat)
        OBVIOUS
      <3>3. h \in XpBuses
        BY <3>2 DEF HalIdle, XpBuses
      <3> HIDE DEF h
      <3> QED
        BY <2>1, <3>1, <3>3 DEF XpBuses
    <2>5. xpBus' \in XpBuses
      BY <1>2, <2>2, <2>3, <2>4 DEF XpBetween
    <2> QED
      BY <1>2, <2>5 DEF XpBetween, XpTypes
  <1>3. CASE XpIsr
    <2>1. xpBus' \in XpBuses /\ xpBus'.tar = xpBus.tar
      BY <1>3, XpAckBus DEF XpIsr, XpTypes
    <2> QED
      BY <1>3, <2>1 DEF XpIsr, XpTypes
  <1> QED
    BY <1>1, <1>2, <1>3

(* The steps that send.                                                    *)
LEMMA XpSendTypes ==
    ASSUME XpTypes, XpIssueReadToken \/ XpWriteTxByte \/ XpWriteRegister \/ XpEmitStop
    PROVE  XpTypes'
  <1>1. /\ XpLen \in Nat /\ xpTx \in Nat /\ xpBus \in XpBuses /\ xpSent \in Seq(Nat)
        /\ xpCall \in DOMAIN XpProgram \cup {"none"} /\ xpGot \in Seq({0, XpTarget} \X Nat)
        /\ xpTries \in Nat /\ xpMaxRetries \in Nat /\ xpMade \in Nat /\ xpClean \in BOOLEAN
    BY XpAssumption DEF XpTypes
  <1>2. /\ xpSteps # <<>> /\ XpGoesOn /\ xpTx' \in Nat
    BY <1>1 DEF XpIssueReadToken, XpWriteTxByte, XpWriteRegister, XpEmitStop, XpAt, XpAsks
  <1>3. /\ xpSteps' \in Seq(XpNames) /\ xpCall' = xpCall /\ xpClean' = xpClean /\ xpTries' = xpTries
        /\ xpMaxRetries' = xpMaxRetries /\ xpMade' = xpMade
        /\ xpSteps' # <<>> => xpEnd' = "running"
        /\ xpSteps' = <<>> => xpEnd' = "ok"
    BY <1>2, XpAdvances, Zenon
  <1>4. xpBus' \in XpBuses /\ xpBus'.tar = XpTarget /\ xpSent' \in Seq(Nat) /\ xpGot' = xpGot
    <2>1. CASE XpIssueReadToken
      <3>1. XpPut(DwCommand(xpBus, "read", 0), XpLen)
        BY <2>1, XpTokenPut DEF XpIssueReadToken
      <3> QED
        BY <3>1, <1>1, <1>2, XpPutTypes
    <2>2. CASE XpWriteTxByte
      BY <2>2, <1>1, <1>2, XpPutTypes DEF XpWriteTxByte
    <2>3. CASE XpWriteRegister
      <3>1. XpPut(DwCommand(xpBus, "write", 1), 0)
        BY <2>3 DEF XpWriteRegister, XpPut, DwIssueWriteByte
      <3> QED
        BY <3>1, <1>1, <1>2, XpPutTypes
    <2>4. CASE XpEmitStop
      <3>1. xpBus.tar = XpTarget
        BY <1>2 DEF XpTypes
      <3>2. DwEmitStop(xpBus) \in XpBuses /\ DwEmitStop(xpBus).tar = XpTarget
        <4>1. XpCommanded(DwCommand(xpBus, "stop", 0), xpBus, "stop", 0)
          BY <1>1, <3>1, XpCommandBus
        <4> QED
          BY <4>1 DEF DwEmitStop, XpCommanded
      <3> QED
        BY <2>4, <1>1, <3>1, <3>2 DEF XpEmitStop
    <2> QED
      BY <2>1, <2>2, <2>3, <2>4
  <1> QED
    BY <1>1, <1>2, <1>3, <1>4 DEF XpTypes

(* The steps that read, look or only wait.                                 *)
LEMMA XpReceiveTypes ==
    ASSUME XpTypes, XpReadRxByte \/ XpBurstRunsOut \/ XpSeesStop \/ XpWaitRoom
    PROVE  XpTypes'
  <1>1. /\ XpLen \in Nat /\ xpTx \in Nat /\ xpBus \in XpBuses /\ xpSent \in Seq(Nat)
        /\ xpCall \in DOMAIN XpProgram \cup {"none"} /\ xpGot \in Seq({0, XpTarget} \X Nat)
        /\ xpTries \in Nat /\ xpMaxRetries \in Nat /\ xpMade \in Nat /\ xpClean \in BOOLEAN
    BY XpAssumption DEF XpTypes
  <1>2. /\ xpSteps # <<>> /\ XpGoesOn /\ xpTx' = xpTx
    BY DEF XpReadRxByte, XpBurstRunsOut, XpSeesStop, XpWaitRoom, XpAt
  <1>3. /\ xpSteps' \in Seq(XpNames) /\ xpCall' = xpCall /\ xpClean' = xpClean /\ xpTries' = xpTries
        /\ xpMaxRetries' = xpMaxRetries /\ xpMade' = xpMade
        /\ xpSteps' # <<>> => xpEnd' = "running"
        /\ xpSteps' = <<>> => xpEnd' = "ok"
    BY <1>2, XpAdvances, Zenon
  <1>t. xpBus.tar = XpTarget
    BY <1>2 DEF XpTypes
  <1>4. /\ xpBus' \in XpBuses /\ xpBus'.tar = XpTarget /\ xpSent' \in Seq(Nat)
        /\ xpGot' \in Seq({0, XpTarget} \X Nat)
    <2>1. CASE XpReadRxByte
      <3>1. xpBus.rx # <<>>
        BY <2>1 DEF XpReadRxByte, XpArrived, DwGetStatus
      <3>2. /\ DwReadRxByte(xpBus).bus \in XpBuses /\ DwReadRxByte(xpBus).bus.tar = XpTarget
            /\ DwReadRxByte(xpBus).byte \in {0, XpTarget} \X Nat
        BY <1>1, <1>t, <3>1, XpReadBus
      <3>3. /\ xpBus' = DwReadRxByte(xpBus).bus /\ xpGot' = Append(xpGot, DwReadRxByte(xpBus).byte)
            /\ xpSent' = xpSent
        BY <2>1 DEF XpReadRxByte
      <3> QED
        BY <1>1, <3>2, <3>3, AppendProperties
    <2>2. CASE XpBurstRunsOut
      <3>1. CASE xpGot' = Append(xpGot, HalNothing) /\ UNCHANGED <<xpBus, xpSent>>
        <4>1. HalNothing \in {0, XpTarget} \X Nat
          BY DEF HalNothing
        <4> QED
          BY <3>1, <4>1, <1>1, <1>t, AppendProperties
      <3>2. CASE XpPut(DwIssueReadToken(xpBus), XpLen)
        BY <3>2, <1>1, <1>2, XpTokenPut, XpPutTypes
      <3> QED
        BY <2>2, <3>1, <3>2 DEF XpBurstRunsOut
    <2>3. CASE XpSeesStop
      <3>1. xpBus' = xpBus \/ xpBus' = DwAckInterrupts(xpBus)
        BY <2>3 DEF XpSeesStop
      <3>2. xpBus' \in XpBuses /\ xpBus'.tar = XpTarget
        BY <3>1, <1>1, <1>t, XpAckBus
      <3> QED
        BY <2>3, <3>2, <1>1 DEF XpSeesStop
    <2>4. CASE XpWaitRoom
      BY <2>4, <1>1, <1>t DEF XpWaitRoom
    <2> QED
      BY <2>1, <2>2, <2>3, <2>4
  <1> QED
    BY <1>1, <1>2, <1>3, <1>4 DEF XpTypes

(* A call that fails, or starts over.                                      *)
LEMMA XpFailTypes ==
    ASSUME XpTypes, XpTimeout \/ XpAborts
    PROVE  XpTypes' /\ ~xpClean' /\ (xpSteps' = <<>> => xpEnd' = "failed")
  <1>1. xpBus' \in XpBuses /\ xpBus'.tar = xpBus.tar
    <2>1. xpBus' = xpBus \/ xpBus' = DwAckInterrupts(xpBus)
      BY DEF XpTimeout, XpAborts
    <2> QED
      BY <2>1, XpAckBus DEF XpTypes
  <1>2. xpSteps # <<>> /\ \E retry \in BOOLEAN : XpFails(retry)
    BY DEF XpTimeout, XpAborts, XpAt
  <1>3. PICK retry \in BOOLEAN : XpFails(retry)
    BY <1>2
  <1>4. xpCall' = xpCall /\ xpMaxRetries' = xpMaxRetries /\ xpMade' = xpMade /\ xpClean' = FALSE
    BY <1>3 DEF XpFails
  <1>5. CASE retry /\ xpTries > 0
    <2>1. /\ xpSteps' = XpProgram[xpCall] /\ xpTries' = xpTries - 1 /\ xpSent' = <<>> /\ xpEnd' = xpEnd
          /\ \/ xpTx' = 0 /\ xpGot' = <<>>
             \/ xpTx' = xpTx /\ xpGot' = xpGot
      BY <1>3, <1>5 DEF XpFails
    <2>2. xpCall \in DOMAIN XpProgram
      BY <1>2 DEF XpTypes
    <2>3. xpSteps' \in Seq(XpNames) /\ xpSteps' # <<>>
      BY <2>1, <2>2, XpProgramsAre
    <2>4. xpTries' \in Nat /\ xpTx' \in Nat /\ xpGot' \in Seq({0, XpTarget} \X Nat)
      <3>1. xpTries \in Nat /\ xpTx \in Nat /\ xpGot \in Seq({0, XpTarget} \X Nat)
        BY DEF XpTypes
      <3>2. xpTries' \in Nat
        BY ONLY <1>5, <2>1, <3>1
      <3>3. CASE xpTx' = 0 /\ xpGot' = <<>>
        BY <3>2, <3>3
      <3>4. CASE xpTx' = xpTx /\ xpGot' = xpGot
        BY <3>1, <3>2, <3>4
      <3> QED
        BY <2>1, <3>3, <3>4
    <2>5. xpEnd' = "running" /\ xpBus'.tar = XpTarget
      BY <1>1, <1>2, <2>1 DEF XpTypes
    <2> QED
      BY <1>1, <1>4, <2>1, <2>3, <2>4, <2>5, EmptySeq DEF XpTypes
  <1>6. CASE ~(retry /\ xpTries > 0)
    <2>1. /\ xpSteps' = <<>> /\ xpEnd' = "failed"
          /\ UNCHANGED <<xpTries, xpTx, xpGot, xpSent>>
      BY <1>3, <1>6 DEF XpFails
    <2> QED
      BY <1>1, <1>4, <2>1, EmptySeq DEF XpTypes
  <1> QED
    BY <1>5, <1>6

(* The bus serves a command.                                               *)
LEMMA XpServeTypes ==
    ASSUME XpTypes, XpServe
    PROVE  XpTypes'
  <1>1. PICK present \in {{}, {XpTarget}} :
           /\ xpBus' = DwServe(xpBus, present)
           /\ xpSent' = IF present = {} /\ xpSteps # <<>> THEN <<>> ELSE xpSent
    BY DEF XpServe
  <1>2. xpBus' \in XpBuses /\ xpBus'.tar = xpBus.tar
    BY <1>1, XpServeBus DEF XpServe, XpTypes, XpServed
  <1>3. xpSent' \in Seq(Nat)
    BY <1>1, EmptySeq DEF XpTypes
  <1> QED
    BY <1>2, <1>3 DEF XpServe, XpTypes

(* So types are kept.                                                      *)
LEMMA XpNextTypes ==
    ASSUME XpTypes, [XpNext]_xpVars
    PROVE  XpTypes'
  <1>1. CASE UNCHANGED xpVars
    BY <1>1 DEF xpVars, XpTypes
  <1>2. ASSUME NEW call \in DOMAIN XpProgram, XpBegin(call) PROVE XpTypes'
    BY <1>2, XpBeginTypes
  <1> QED
    BY <1>1, <1>2, XpRestTypes, XpSendTypes, XpReceiveTypes, XpFailTypes, XpServeTypes DEF XpNext

-----------------------------------------------------------------------------
(* Where a judged call is at each of its steps.                            *)
XpAtStep(call, done, step) ==
    CASE step = "write" -> call \in {"write", "phased"} /\ done < XpLen
      [] step = "ask" -> call = "phased" /\ done >= XpLen /\ done < 2 * XpLen
      [] step = "reg" -> call = "readBlock" /\ done = 0
      [] step = "askNow" -> call = "readBlock" /\ done >= 1 /\ done <= XpLen
      [] step = "stop" -> call = "phased" /\ done = 2 * XpLen
      [] step = "get" -> \/ call = "phased" /\ done > 2 * XpLen /\ done <= 3 * XpLen
                         \/ call = "readBlock" /\ done > XpLen /\ done <= 2 * XpLen
      [] step = "stopSeen" -> call = "write" /\ done = XpLen
      [] step = "stopAck" -> call = "phased" /\ done = 3 * XpLen + 1
      [] OTHER -> FALSE

(* The step of a judged program tells where the call is.                   *)
LEMMA XpWhere ==
    ASSUME NEW call \in XpJudgedCalls, NEW done \in Nat, done < XpSteps(call)
    PROVE  XpAtStep(call, done, XpStepOf(call, done + 1))
  <1>1. XpLen \in Nat /\ XpLen >= 1
    BY XpAssumption
  <1>2. CASE call = "write"
    BY <1>1, <1>2 DEF XpAtStep, XpStepOf, XpSteps
  <1>4. CASE call = "phased"
    BY <1>1, <1>4 DEF XpAtStep, XpStepOf, XpSteps
  <1>5. CASE call = "readBlock"
    BY <1>1, <1>5 DEF XpAtStep, XpStepOf, XpSteps
  <1> QED
    BY <1>2, <1>4, <1>5 DEF XpJudgedCalls

(* The number of steps of a judged call, as a number.                      *)
LEMMA XpCounts ==
    ASSUME NEW call \in XpJudgedCalls
    PROVE  XpSteps(call) \in Nat /\ XpItems(call) \in Nat /\ XpItems(call) < XpSteps(call)
  <1>1. XpLen \in Nat /\ XpLen >= 1
    BY XpAssumption
  <1> QED
    BY <1>1 DEF XpSteps, XpItems, XpJudgedCalls

(* A step of a judged call moves it one place on.                          *)
LEMMA XpMoves ==
    ASSUME XpTypes, XpJudged, XpPlace, XpGoesOn
    PROVE  /\ XpDone \in Nat /\ XpDone < XpSteps(xpCall)
           /\ XpAtStep(xpCall, XpDone, Head(xpSteps))
           /\ xpSteps' # <<>> => XpPlace' /\ XpDone' = XpDone + 1
           /\ xpSteps' = <<>> => XpDone + 1 = XpSteps(xpCall)
  <1>1. /\ xpSteps' = Tail(xpSteps) /\ xpSteps' \in Seq(XpNames) /\ Len(xpSteps') = Len(xpSteps) - 1
        /\ \A k \in 1 .. Len(xpSteps') : xpSteps'[k] = xpSteps[k + 1]
        /\ Len(xpSteps) \in Nat /\ Len(xpSteps) >= 1 /\ xpCall' = xpCall
    BY XpAdvances DEF XpJudged
  <1>2. xpCall \in XpJudgedCalls /\ XpSteps(xpCall) \in Nat
    BY XpCounts DEF XpJudged
  <1>3. XpDone \in 0 .. XpSteps(xpCall) - 1 /\ XpDone = XpSteps(xpCall) - Len(xpSteps)
    BY DEF XpPlace, XpDone
  <1>4. XpDone \in Nat /\ XpDone < XpSteps(xpCall)
    BY <1>2, <1>3
  <1>5. Head(xpSteps) = XpStepOf(xpCall, XpDone + 1)
    <2>1. Head(xpSteps) = xpSteps[1]
      BY <1>1 DEF XpTypes
    <2>2. 1 \in 1 .. Len(xpSteps)
      BY <1>1
    <2> QED
      BY <2>1, <2>2 DEF XpPlace
  <1>6. XpAtStep(xpCall, XpDone, Head(xpSteps))
    BY <1>2, <1>4, <1>5, XpWhere
  <1>7. XpDone' = XpSteps(xpCall) - Len(xpSteps')
    BY <1>1 DEF XpDone
  <1>8. XpDone' = XpDone + 1
    BY ONLY <1>1, <1>2, <1>3, <1>7
  <1>9. ASSUME xpSteps' # <<>> PROVE XpPlace'
    <2>1. Len(xpSteps') \in Nat /\ Len(xpSteps') >= 1
      BY <1>1, <1>9, EmptySeq
    <2>2. XpDone' \in 0 .. XpSteps(xpCall) - 1
      BY ONLY <2>1, <1>2, <1>4, <1>7, <1>8
    <2>3. ASSUME NEW k \in 1 .. Len(xpSteps') PROVE xpSteps'[k] = XpStepOf(xpCall, XpDone' + k)
      <3>1. k + 1 \in 1 .. Len(xpSteps) /\ XpDone + (k + 1) = XpDone' + k
        BY ONLY <1>1, <1>4, <1>8, <2>3
      <3>2. xpSteps[k + 1] = XpStepOf(xpCall, XpDone + (k + 1))
        BY <3>1 DEF XpPlace
      <3> QED
        BY <1>1, <3>1, <3>2, <2>3
    <2>4. XpPlace' = (/\ XpDone' \in 0 .. XpSteps(xpCall') - 1
                      /\ \A k \in 1 .. Len(xpSteps') : xpSteps'[k] = XpStepOf(xpCall', XpDone' + k))
      BY DEF XpPlace
    <2> QED
      BY <1>1, <2>2, <2>3, <2>4
  <1>10. ASSUME xpSteps' = <<>> PROVE XpDone + 1 = XpSteps(xpCall)
    <2>1. Len(xpSteps') = 0
      BY <1>10
    <2>2. Len(xpSteps) = 1
      BY <2>1, <1>1
    <2> QED
      BY ONLY <2>2, <1>2, <1>3
  <1> QED
    BY <1>4, <1>6, <1>8, <1>9, <1>10

(* What a judged call sends, as a sequence.                                *)
LEMMA XpWholeIs ==
    ASSUME xpCall \in XpJudgedCalls
    PROVE  /\ XpWhole \in Seq(Nat) /\ Len(XpWhole) = XpItems(xpCall)
           /\ \A k \in 1 .. XpItems(xpCall) : XpWhole[k] = XpItem(xpCall, k)
  <1>1. XpLen \in Nat /\ XpLen >= 1
    BY XpAssumption
  <1> DEFINE w == [k \in 1 .. XpLen |-> k - 1]
             e == XpEach(XpLen)
  <1>2. w \in Seq(Nat) /\ Len(w) = XpLen /\ \A k \in 1 .. XpLen : w[k] = k - 1
    <2>1. w \in [1 .. XpLen -> Nat]
      BY <1>1
    <2>2. w \in Seq(Nat)
      BY <1>1, <2>1, SeqDef, Zenon
    <2>3. DOMAIN w = 1 .. XpLen /\ DOMAIN w = 1 .. Len(w) /\ Len(w) \in Nat
      BY <2>2, LenProperties
    <2>4. Len(w) = XpLen
      BY ONLY <2>3, <1>1
    <2> QED
      BY <2>2, <2>4
  <1>3. e \in Seq(Nat) /\ Len(e) = XpLen /\ \A k \in 1 .. XpLen : e[k] = XpLen
    <2>1. e \in [1 .. XpLen -> Nat]
      BY <1>1 DEF XpEach
    <2>2. e \in Seq(Nat)
      BY <1>1, <2>1, SeqDef, Zenon
    <2>3. DOMAIN e = 1 .. XpLen /\ DOMAIN e = 1 .. Len(e) /\ Len(e) \in Nat
      BY <2>2, LenProperties DEF XpEach
    <2>4. Len(e) = XpLen
      BY ONLY <2>3, <1>1
    <2> QED
      BY <2>2, <2>4 DEF XpEach
  <1> HIDE DEF w, e
  <1>4. CASE xpCall = "write"
    <2>1. XpWhole = w /\ XpItems(xpCall) = XpLen
      BY <1>4 DEF XpWhole, XpItems, w
    <2> QED
      BY <2>1, <1>2, <1>4 DEF XpItem
  <1>6. CASE xpCall = "phased"
    <2> DEFINE q == w \o e
    <2>1. XpWhole = q /\ XpItems(xpCall) = 2 * XpLen
      BY <1>6 DEF XpWhole, XpItems, w, e
    <2>c. /\ q \in Seq(Nat) /\ Len(q) = Len(w) + Len(e)
          /\ \A k \in 1 .. Len(w) + Len(e) : q[k] = IF k <= Len(w) THEN w[k] ELSE e[k - Len(w)]
      BY <1>2, <1>3, ConcatProperties
    <2> HIDE DEF q
    <2>2. /\ q \in Seq(Nat) /\ Len(q) = XpLen + XpLen
          /\ \A k \in 1 .. XpLen + XpLen : q[k] = IF k <= XpLen THEN w[k] ELSE e[k - XpLen]
      BY <1>2, <1>3, <2>c
    <2>3. ASSUME NEW k \in 1 .. 2 * XpLen PROVE q[k] = IF k <= XpLen THEN k - 1 ELSE XpLen
      <3>1. k \in 1 .. XpLen + XpLen
        BY <1>1
      <3>2. CASE k <= XpLen
        <4>1. k \in 1 .. XpLen
          BY <1>1, <3>2
        <4> QED
          BY <4>1, <3>1, <3>2, <2>2, <1>2
      <3>3. CASE ~(k <= XpLen)
        <4>1. k - XpLen \in 1 .. XpLen
          BY <1>1, <3>1, <3>3
        <4> QED
          BY <4>1, <3>1, <3>3, <2>2, <1>3
      <3> QED
        BY <3>2, <3>3
    <2> QED
      BY <1>1, <1>6, <2>1, <2>2, <2>3 DEF XpItem
  <1>7. CASE xpCall = "readBlock"
    <2> DEFINE z == <<0>>
               q == z \o e
    <2>1. XpWhole = q /\ XpItems(xpCall) = XpLen + 1
      BY <1>7 DEF XpWhole, XpItems, e
    <2>z. z \in Seq(Nat) /\ Len(z) = 1 /\ z[1] = 0
      OBVIOUS
    <2> HIDE DEF z
    <2>c. /\ q \in Seq(Nat) /\ Len(q) = Len(z) + Len(e)
          /\ \A k \in 1 .. Len(z) + Len(e) : q[k] = IF k <= Len(z) THEN z[k] ELSE e[k - Len(z)]
      BY <2>z, <1>3, ConcatProperties
    <2> HIDE DEF q
    <2>2. /\ q \in Seq(Nat) /\ Len(q) = 1 + XpLen
          /\ \A k \in 1 .. 1 + XpLen : q[k] = IF k <= 1 THEN z[k] ELSE e[k - 1]
      BY <2>z, <1>3, <2>c
    <2>3. ASSUME NEW k \in 1 .. XpLen + 1 PROVE q[k] = IF k = 1 THEN 0 ELSE XpLen
      <3>1. k \in 1 .. 1 + XpLen
        BY <1>1
      <3>2. CASE k = 1
        BY <3>1, <3>2, <2>2, <2>z
      <3>3. CASE k # 1
        <4>1. k - 1 \in 1 .. XpLen /\ ~(k <= 1)
          BY <1>1, <3>1, <3>3
        <4> QED
          BY <4>1, <3>1, <3>3, <2>2, <1>3
      <3> QED
        BY <3>2, <3>3
    <2> QED
      BY <1>1, <1>7, <2>1, <2>2, <2>3 DEF XpItem
  <1> QED
    BY <1>4, <1>6, <1>7 DEF XpJudgedCalls

(* A call whose commands were all sent, with its bytes in order, is whole. *)
XpSentAll ==
    xpCall \in XpJudgedCalls => /\ Len(xpSent) = XpItems(xpCall)
                                /\ \A k \in DOMAIN xpSent : xpSent[k] = XpItem(xpCall, k)

(* With types and order, that is the promise.                              *)
LEMMA XpWholeCall == XpTypes /\ XpInOrder /\ XpSentAll => XpOkIsWhole
  <1> SUFFICES ASSUME XpTypes, XpInOrder, XpSentAll, xpCall \in XpJudgedCalls
               PROVE  /\ xpSent = XpWhole
                      /\ \A k \in 1 .. Len(xpGot) : xpGot[k] = <<XpTarget, xpGot[1][2] + k - 1>>
    BY DEF XpOkIsWhole, XpJudgedCalls
  <1>1. xpSent \in Seq(Nat) /\ xpGot \in Seq({0, XpTarget} \X Nat) /\ xpBus \in XpBuses
    BY DEF XpTypes
  <1>2. xpSent = XpWhole
    <2>1. DOMAIN xpSent = 1 .. Len(xpSent)
      BY <1>1
    <2>2. \A k \in 1 .. Len(xpSent) : xpSent[k] = XpWhole[k]
      BY <2>1, XpWholeIs DEF XpSentAll
    <2> QED
      BY <1>1, <2>2, XpWholeIs, SeqEqual DEF XpSentAll
  <1>3. ASSUME NEW k \in 1 .. Len(xpGot) PROVE xpGot[k] = <<XpTarget, xpGot[1][2] + k - 1>>
    <2> DEFINE base == xpBus.next[XpTarget] - Len(xpBus.rx) - Len(xpGot)
    <2>1. DOMAIN xpGot = 1 .. Len(xpGot) /\ Len(xpGot) \in Nat
      BY <1>1
    <2>2. \A i \in DOMAIN xpGot : xpGot[i] = <<XpTarget, base + i - 1>>
      BY DEF XpInOrder
    <2>3. base \in Int
      <3>1. xpBus.next[XpTarget] \in Nat /\ Len(xpBus.rx) \in Nat
        BY <1>1 DEF XpBuses
      <3> QED
        BY <3>1, <2>1
    <2> HIDE DEF base
    <2>4. 1 \in DOMAIN xpGot /\ k \in DOMAIN xpGot /\ base + 1 - 1 = base
      BY <2>1, <2>3, <1>3
    <2>5. xpGot[1] = <<XpTarget, base + 1 - 1>> /\ xpGot[k] = <<XpTarget, base + k - 1>>
      BY <2>2, <2>4
    <2>6. xpGot[1][2] = base
      BY <2>4, <2>5
    <2> QED
      BY <2>5, <2>6
  <1> QED
    BY <1>2, <1>3

-----------------------------------------------------------------------------
(* A step that sends is not the last of its program.                       *)
LEMMA XpSendMoves ==
    ASSUME XpTypes, XpJudged, XpUnderWay, XpGoesOn,
           Head(xpSteps) \in {"write", "ask", "reg", "askNow", "stop"}
    PROVE  /\ xpSteps' # <<>> /\ XpPlace' /\ XpDone \in Nat /\ XpDone' = XpDone + 1
           /\ XpAtStep(xpCall, XpDone, Head(xpSteps)) /\ xpCall' = xpCall
           /\ XpDone < XpItems(xpCall) \/ Head(xpSteps) = "stop"
           /\ xpCall = "readBlock" => XpDone <= XpLen
           /\ XpItems(xpCall) \in Nat /\ XpDone <= XpItems(xpCall)
  <1>1. XpLen \in Nat /\ XpLen >= 1 /\ xpCall \in XpJudgedCalls /\ xpCall' = xpCall
    BY XpAssumption DEF XpJudged, XpGoesOn
  <1>2. /\ XpDone \in Nat /\ XpAtStep(xpCall, XpDone, Head(xpSteps))
        /\ xpSteps' # <<>> => XpPlace' /\ XpDone' = XpDone + 1
        /\ xpSteps' = <<>> => XpDone + 1 = XpSteps(xpCall)
    BY XpMoves DEF XpUnderWay
  <1>3. /\ XpDone + 1 # XpSteps(xpCall)
        /\ XpDone < XpItems(xpCall) \/ Head(xpSteps) = "stop"
        /\ xpCall = "readBlock" => XpDone <= XpLen
        /\ XpItems(xpCall) \in Nat /\ XpDone <= XpItems(xpCall)
    <2>1. CASE Head(xpSteps) = "write"
      BY <1>1, <1>2, <2>1 DEF XpAtStep, XpSteps, XpItems
    <2>2. CASE Head(xpSteps) = "ask"
      BY <1>1, <1>2, <2>2 DEF XpAtStep, XpSteps, XpItems
    <2>3. CASE Head(xpSteps) = "reg"
      BY <1>1, <1>2, <2>3 DEF XpAtStep, XpSteps, XpItems
    <2>4. CASE Head(xpSteps) = "askNow"
      BY <1>1, <1>2, <2>4 DEF XpAtStep, XpSteps, XpItems
    <2>5. CASE Head(xpSteps) = "stop"
      BY <1>1, <1>2, <2>5 DEF XpAtStep, XpSteps, XpItems
    <2> QED
      BY <2>1, <2>2, <2>3, <2>4, <2>5
  <1> QED
    BY <1>1, <1>2, <1>3

(* What no step that sends disturbs.                                       *)
LEMMA XpSendKeeps ==
    ASSUME XpTypes, XpJudged, XpUnderWay, XpGoesOn,
           Head(xpSteps) \in {"write", "ask", "reg", "askNow", "stop"},
           xpBus'.rx = xpBus.rx, xpBus'.raw = xpBus.raw, xpBus'.next = xpBus.next, xpGot' = xpGot,
           XpRaised("abort") => xpBus'.tx = xpBus.tx, XpOneWrite',
           ~XpRaised("abort") => XpSending' /\ XpComing'
    PROVE  xpSteps' # <<>> /\ XpUnderWay'
  <1>1. /\ xpSteps' # <<>> /\ XpPlace' /\ XpDone \in Nat /\ XpDone' = XpDone + 1
        /\ xpCall' = xpCall
        /\ xpCall = "readBlock" => XpDone <= XpLen
    BY XpSendMoves
  <1>2. XpInOrder'
    BY DEF XpInOrder, XpUnderWay
  <1>3. xpCall' = "readBlock" => Len(xpGot') = IF XpDone' <= XpLen + 1 THEN 0 ELSE XpDone' - XpLen - 1
    <2>1. XpLen \in Nat
      BY XpAssumption
    <2>2. xpCall = "readBlock" => Len(xpGot) = 0
      BY <1>1, <2>1 DEF XpUnderWay
    <2> QED
      BY <1>1, <2>1, <2>2
  <1>4. XpDone' # 0
    BY <1>1
  <1>5. XpRaised("abort")' = XpRaised("abort")
    BY DEF XpRaised
  <1>6. XpRaised("abort") => XpAborted'
    BY <1>1 DEF XpAborted, XpUnderWay
  <1> QED
    BY <1>1, <1>2, <1>3, <1>4, <1>5, <1>6 DEF XpUnderWay

(* A command other than a register write goes behind what is queued.       *)
LEMMA XpQueued ==
    ASSUME XpTypes, XpOneWrite, NEW item \in XpCommands, item.do # "write",
           xpBus'.tx = Append(xpBus.tx, item), xpBus'.rx = xpBus.rx, xpGot' = xpGot, xpCall' = xpCall
    PROVE  /\ XpOneWrite' /\ (XpWritePending' <=> XpWritePending)
           /\ Len(xpBus'.tx) = Len(xpBus.tx) + 1 /\ Len(xpBus.tx) \in Nat
  <1>1. xpBus.tx \in Seq(XpCommands)
    BY DEF XpTypes, XpBuses
  <1>2. /\ Append(xpBus.tx, item) \in Seq(XpCommands)
        /\ Len(Append(xpBus.tx, item)) = Len(xpBus.tx) + 1
        /\ \A k \in 1 .. Len(xpBus.tx) : Append(xpBus.tx, item)[k] = xpBus.tx[k]
        /\ Append(xpBus.tx, item)[Len(xpBus.tx) + 1] = item
    BY <1>1, AppendProperties
  <1>3. Len(xpBus.tx) \in Nat /\ DOMAIN xpBus.tx = 1 .. Len(xpBus.tx)
        /\ DOMAIN xpBus'.tx = 1 .. Len(xpBus.tx) + 1
    BY <1>1, <1>2
  <1>4. ASSUME NEW k \in DOMAIN xpBus'.tx, xpBus'.tx[k].do = "write" PROVE k = 1
    <2>1. k # Len(xpBus.tx) + 1
      BY <1>2, <1>4
    <2>2. k \in DOMAIN xpBus.tx /\ xpBus'.tx[k] = xpBus.tx[k]
      BY <1>2, <1>3, <1>4, <2>1
    <2> QED
      BY <1>4, <2>2 DEF XpOneWrite
  <1>5. xpBus'.tx # <<>> /\ Head(xpBus'.tx) = IF xpBus.tx = <<>> THEN item ELSE Head(xpBus.tx)
    <2> DEFINE t == xpBus'.tx
    <2>t. /\ t \in Seq(XpCommands) /\ Len(t) = Len(xpBus.tx) + 1
          /\ \A k \in 1 .. Len(xpBus.tx) : t[k] = xpBus.tx[k]
          /\ t[Len(xpBus.tx) + 1] = item
      BY <1>2
    <2> HIDE DEF t
    <2>1. t # <<>> /\ Head(t) = t[1]
      BY <1>3, <2>t, EmptySeq
    <2>2. CASE xpBus.tx = <<>>
      <3>1. Len(xpBus.tx) + 1 = 1
        BY <2>2
      <3> QED
        BY <2>t, <2>1, <2>2, <3>1 DEF t
    <2>3. CASE xpBus.tx # <<>>
      <3>1. 1 \in 1 .. Len(xpBus.tx) /\ Head(xpBus.tx) = xpBus.tx[1]
        BY <1>1, <1>3, <2>3, EmptySeq
      <3> QED
        BY <2>t, <2>1, <2>3, <3>1 DEF t
    <2> QED
      BY <2>1, <2>2, <2>3 DEF t
  <1>6. XpWritePending' = (xpBus'.tx # <<>> /\ Head(xpBus'.tx).do = "write")
    BY DEF XpWritePending
  <1>7. XpWritePending' <=> XpWritePending
    BY <1>5, <1>6 DEF XpWritePending
  <1> QED
    BY <1>2, <1>3, <1>4, <1>7 DEF XpOneWrite

(* The history of what was sent grows by one.                              *)
LEMMA XpSentGrows ==
    ASSUME XpTypes, NEW item \in Nat, xpSent' = Append(xpSent, item), xpCall' = xpCall,
           \A k \in DOMAIN xpSent : xpSent[k] = XpItem(xpCall, k),
           item = XpItem(xpCall, Len(xpSent) + 1)
    PROVE  /\ Len(xpSent') = Len(xpSent) + 1 /\ Len(xpSent) \in Nat
           /\ \A k \in DOMAIN xpSent' : xpSent'[k] = XpItem(xpCall', k)
  <1>1. xpSent \in Seq(Nat)
    BY DEF XpTypes
  <1>2. /\ Append(xpSent, item) \in Seq(Nat)
        /\ Len(Append(xpSent, item)) = Len(xpSent) + 1
        /\ \A k \in 1 .. Len(xpSent) : Append(xpSent, item)[k] = xpSent[k]
        /\ Append(xpSent, item)[Len(xpSent) + 1] = item
    BY <1>1, AppendProperties
  <1>3. Len(xpSent) \in Nat /\ DOMAIN xpSent = 1 .. Len(xpSent)
        /\ DOMAIN xpSent' = 1 .. Len(xpSent) + 1
    BY <1>1, <1>2
  <1>4. ASSUME NEW k \in DOMAIN xpSent' PROVE xpSent'[k] = XpItem(xpCall', k)
    <2>1. CASE k = Len(xpSent) + 1
      BY <1>2, <2>1
    <2>2. CASE k # Len(xpSent) + 1
      <3>1. k \in DOMAIN xpSent /\ xpSent'[k] = xpSent[k]
        BY <1>2, <1>3, <1>4, <2>2
      <3> QED
        BY <3>1
    <2> QED
      BY <2>1, <2>2
  <1> QED
    BY <1>2, <1>3, <1>4

(* A write or a read token of a judged call.                               *)
LEMMA XpSendsDue ==
    ASSUME XpTypes, XpJudged, XpUnderWay, XpGoesOn, ~XpRaised("abort"),
           Head(xpSteps) \in {"write", "ask"}, Len(xpBus.tx) < XpDepth,
           XpPut(DwCommand(xpBus, IF Head(xpSteps) = "write" THEN "data" ELSE "read", 0),
                 IF Head(xpSteps) = "write" THEN xpTx ELSE XpLen),
           xpTx' = IF Head(xpSteps) = "write" THEN xpTx + 1 ELSE xpTx
    PROVE  XpSending' /\ XpComing' /\ XpOneWrite'
  <1> DEFINE kind == IF Head(xpSteps) = "write" THEN "data" ELSE "read"
             sent == IF Head(xpSteps) = "write" THEN xpTx ELSE XpLen
  <1>1. XpLen \in Nat /\ XpLen >= 1 /\ xpTx \in Nat /\ xpSent \in Seq(Nat) /\ xpSteps # <<>>
        /\ xpCall \in XpJudgedCalls
    BY XpAssumption DEF XpTypes, XpJudged
  <1>2. /\ xpSteps' # <<>> /\ XpDone \in Nat /\ XpDone' = XpDone + 1
        /\ XpAtStep(xpCall, XpDone, Head(xpSteps)) /\ xpCall' = xpCall
        /\ XpDone < XpItems(xpCall) /\ XpItems(xpCall) \in Nat
    BY XpSendMoves
  <1>3. XpTakes /\ XpSending /\ xpBus.on
    BY DEF XpTakes, XpUnderWay, XpSending
  <1>4. kind \in {"write", "read", "data"} /\ sent \in Nat /\ 0 \in Nat
    BY <1>1
  <1>p. XpPut(DwCommand(xpBus, kind, 0), sent)
    OBVIOUS
  <1> HIDE DEF sent
  <1>5. /\ xpBus'.rx = xpBus.rx /\ xpBus'.raw = xpBus.raw /\ xpBus'.next = xpBus.next
        /\ xpBus'.on = xpBus.on /\ xpGot' = xpGot /\ xpSent' = Append(xpSent, sent)
        /\ xpBus'.tx = Append(xpBus.tx, [to |-> XpTarget, do |-> kind, reg |-> 0])
    BY <1>1, <1>3, <1>4, <1>p, XpPutTypes
  <1>6. XpOneWrite'
    <2> DEFINE item == [to |-> XpTarget, do |-> kind, reg |-> 0]
    <2>1. item \in XpCommands /\ item.do # "write"
      BY <1>1 DEF XpCommands
    <2>2. xpBus'.tx = Append(xpBus.tx, item) /\ XpOneWrite
      BY <1>5 DEF XpUnderWay
    <2> HIDE DEF item
    <2> QED
      BY <1>2, <1>5, <2>1, <2>2, XpQueued
  <1>7. Len(xpSent) = XpDone /\ xpCall # "readBlock" /\ XpDue = XpDone
    BY <1>1, <1>2, <1>3 DEF XpSending, XpAtStep, XpDue
  <1>8. /\ sent = XpItem(xpCall, XpDone + 1)
        /\ xpCall' \in {"write", "phased"} => xpTx' = IF XpDone' <= XpLen THEN XpDone' ELSE XpLen
    <2>1. CASE Head(xpSteps) = "write"
      BY <1>1, <1>2, <1>3, <2>1 DEF XpAtStep, XpSending, XpItem, sent
    <2>2. CASE Head(xpSteps) = "ask"
      BY <1>1, <1>2, <1>3, <2>2 DEF XpAtStep, XpSending, XpItem, sent
    <2> QED
      BY <2>1, <2>2
  <1>9. /\ Len(xpSent') = Len(xpSent) + 1
        /\ \A k \in DOMAIN xpSent' : xpSent'[k] = XpItem(xpCall', k)
    <2>1. \A k \in DOMAIN xpSent : xpSent[k] = XpItem(xpCall, k)
      BY <1>3 DEF XpSending
    <2>2. sent = XpItem(xpCall, Len(xpSent) + 1) /\ xpSent' = Append(xpSent, sent)
      BY <1>5, <1>7, <1>8
    <2> QED
      BY <1>2, <1>4, <2>1, <2>2, XpSentGrows
  <1>10. XpDue' = XpDone + 1
    <2>1. XpDue' = IF XpDone' <= XpItems(xpCall') THEN XpDone' ELSE XpItems(xpCall')
      BY DEF XpDue
    <2> QED
      BY <1>2, <2>1
  <1>11. XpSending'
    <2>1. xpBus'.on /\ Len(xpSent') = XpDue' /\ XpDue' \in Nat
      BY <1>2, <1>3, <1>5, <1>7, <1>9, <1>10
    <2> QED
      BY <2>1, <1>8, <1>9 DEF XpSending
  <1> QED
    BY <1>2, <1>6, <1>7, <1>11 DEF XpComing

-----------------------------------------------------------------------------
(* The register of a block is the first command of its call.               *)
LEMMA XpSendsRegister ==
    ASSUME XpTypes, XpJudged, XpUnderWay, XpGoesOn, ~XpRaised("abort"),
           Head(xpSteps) = "reg", XpPut(DwCommand(xpBus, "write", 1), 0), xpTx' = xpTx
    PROVE  XpSending' /\ XpComing' /\ XpOneWrite'
  <1>1. XpLen \in Nat /\ XpLen >= 1 /\ xpSent \in Seq(Nat) /\ xpSteps # <<>>
        /\ XpDepth \in Nat /\ XpDepth >= 1
    BY XpAssumption DEF XpTypes, XpJudged
  <1>2. /\ XpDone = 0 /\ xpCall = "readBlock" /\ XpDone' = 1 /\ xpCall' = xpCall
    BY XpSendMoves DEF XpAtStep
  <1>3. XpSending /\ xpBus.on /\ xpBus.tx = <<>> /\ xpBus.rx = <<>> /\ xpGot = <<>>
    BY <1>2 DEF XpUnderWay, XpSending, XpComing
  <1>4. XpTakes
    <2>1. Len(xpBus.tx) = 0
      BY <1>3
    <2> QED
      BY <1>1, <1>3, <2>1 DEF XpTakes
  <1> DEFINE item == [to |-> XpTarget, do |-> "write", reg |-> 1]
  <1>5. /\ xpBus'.rx = <<>> /\ xpBus'.on /\ xpGot' = <<>> /\ xpSent' = Append(xpSent, 0)
        /\ xpBus'.tx = Append(<<>>, item)
    <2>1. /\ xpGot' = xpGot /\ xpBus'.rx = xpBus.rx /\ xpBus'.on = xpBus.on
          /\ xpSent' = Append(xpSent, 0) /\ xpBus'.tx = Append(xpBus.tx, item)
      BY <1>1, <1>4, XpPutTypes
    <2> QED
      BY <1>3, <2>1
  <1>6. item.do = "write"
    OBVIOUS
  <1> HIDE DEF item
  <1>7. /\ Len(xpBus'.tx) = 1 /\ DOMAIN xpBus'.tx = 1 .. 1 /\ Head(xpBus'.tx).do = "write"
        /\ xpBus'.tx # <<>>
    BY <1>5, <1>6
  <1>8. XpWritePending'
    BY <1>7 DEF XpWritePending
  <1>9. XpOneWrite'
    BY <1>2, <1>5, <1>7, <1>8 DEF XpOneWrite
  <1>10. Len(xpSent) = 0
    <2>1. Len(xpSent) \in Nat /\ Len(xpSent) <= XpDue /\ XpDue = 0
      BY <1>1, <1>2, <1>3 DEF XpSending, XpDue, XpItems
    <2> QED
      BY <2>1
  <1>11. /\ Len(xpSent') = 1
         /\ \A k \in DOMAIN xpSent' : xpSent'[k] = XpItem(xpCall', k)
    <2>1. \A k \in DOMAIN xpSent : xpSent[k] = XpItem(xpCall, k)
      BY <1>3 DEF XpSending
    <2>2. 0 = XpItem(xpCall, Len(xpSent) + 1) /\ 0 \in Nat
      BY <1>2, <1>10 DEF XpItem
    <2> QED
      BY <1>2, <1>5, <1>10, <2>1, <2>2, XpSentGrows
  <1>12. XpDue' = 1
    <2>1. XpDue' = IF XpDone' <= XpItems(xpCall') THEN XpDone' ELSE XpItems(xpCall')
      BY DEF XpDue
    <2> QED
      BY <1>1, <1>2, <2>1 DEF XpItems
  <1>13. XpSending'
    BY <1>2, <1>5, <1>11, <1>12 DEF XpSending
  <1>14. XpComing'
    <2>1. Len(xpBus'.rx) = 0 /\ Len(xpGot') = 0
      BY <1>5
    <2>2. /\ XpDone' = 0 => xpBus'.tx = <<>> /\ xpBus'.rx = <<>> /\ xpGot' = <<>>
          /\ Len(xpSent') >= 1
          /\ Len(xpBus'.tx) + Len(xpBus'.rx) + Len(xpGot') + 0 <= Len(xpSent')
      BY <1>2, <1>7, <1>11, <2>1
    <2> QED
      BY <1>8, <2>2 DEF XpComing
  <1> QED
    BY <1>9, <1>13, <1>14

(* A token of a block may be lost in a full FIFO, and is not asked again.  *)
LEMMA XpSendsToken ==
    ASSUME XpTypes, XpJudged, XpUnderWay, XpGoesOn, ~XpRaised("abort"),
           Head(xpSteps) = "askNow", XpPut(DwCommand(xpBus, "read", 0), XpLen), xpTx' = xpTx
    PROVE  XpSending' /\ XpComing' /\ XpOneWrite'
  <1>1. /\ XpLen \in Nat /\ XpLen >= 1 /\ xpSent \in Seq(Nat) /\ xpSteps # <<>>
        /\ xpGot \in Seq({0, XpTarget} \X Nat) /\ xpBus \in XpBuses
    BY XpAssumption DEF XpTypes, XpJudged
  <1>2. /\ XpDone \in Nat /\ XpDone >= 1 /\ XpDone <= XpLen /\ xpCall = "readBlock"
        /\ XpDone' = XpDone + 1 /\ xpCall' = xpCall
    BY XpSendMoves DEF XpAtStep
  <1>3. XpSending /\ XpComing /\ XpOneWrite /\ xpBus.on
    BY DEF XpUnderWay, XpSending
  <1>4. /\ Len(xpSent) \in Nat /\ Len(xpSent) >= 1 /\ Len(xpSent) <= XpDone
        /\ \A k \in DOMAIN xpSent : xpSent[k] = XpItem(xpCall, k)
    <2>1. Len(xpSent) \in Nat /\ XpDue = XpDone
      BY <1>1, <1>2 DEF XpDue, XpItems
    <2> QED
      BY <1>2, <1>3, <2>1 DEF XpSending, XpComing
  <1>5. XpDue' = XpDone + 1
    <2>1. XpDue' = IF XpDone' <= XpItems(xpCall') THEN XpDone' ELSE XpItems(xpCall')
      BY DEF XpDue
    <2> QED
      BY <1>1, <1>2, <2>1 DEF XpItems
  <1> DEFINE item == [to |-> XpTarget, do |-> "read", reg |-> 0]
             pending == IF XpWritePending THEN 0 ELSE 1
  <1>6. /\ xpBus'.rx = xpBus.rx /\ xpGot' = xpGot /\ xpBus'.on
        /\ \/ xpBus' = xpBus /\ xpSent' = xpSent
           \/ xpSent' = Append(xpSent, XpLen) /\ xpBus'.tx = Append(xpBus.tx, item)
    BY <1>1, <1>3, XpPutTypes
  <1>7. item \in XpCommands /\ item.do # "write"
    BY DEF XpCommands
  <1> HIDE DEF item
  <1>8. /\ Len(xpBus.tx) \in Nat /\ Len(xpBus.rx) \in Nat /\ Len(xpGot) \in Nat /\ pending \in {0, 1}
    BY <1>1 DEF XpBuses
  <1>9. Len(xpBus.tx) + Len(xpBus.rx) + Len(xpGot) + pending <= Len(xpSent)
    BY <1>2, <1>3 DEF XpComing
  <1>p. pending = IF XpWritePending THEN 0 ELSE 1
    OBVIOUS
  <1> HIDE DEF pending
  <1>10. XpWritePending' = (xpBus'.tx # <<>> /\ Head(xpBus'.tx).do = "write")
    BY DEF XpWritePending
  <1>11. CASE xpBus' = xpBus /\ xpSent' = xpSent
    <2>1. XpOneWrite' /\ XpWritePending' = XpWritePending
      BY <1>2, <1>3, <1>6, <1>11, <1>10 DEF XpOneWrite, XpWritePending
    <2>2. XpSending'
      <3>1. Len(xpSent') <= XpDue'
        BY <1>2, <1>4, <1>5, <1>11
      <3> QED
        BY <1>2, <1>4, <1>6, <1>11, <3>1 DEF XpSending
    <2>3. XpComing'
      <3>1. Len(xpBus'.tx) + Len(xpBus'.rx) + Len(xpGot') + pending <= Len(xpSent')
        BY <1>6, <1>9, <1>11
      <3>2. pending = IF XpWritePending' THEN 0 ELSE 1
        BY <1>p, <2>1
      <3>3. Len(xpSent') >= 1 /\ XpDone' # 0
        BY <1>2, <1>4, <1>11
      <3> QED
        BY <3>1, <3>2, <3>3 DEF XpComing
    <2> QED
      BY <2>1, <2>2, <2>3
  <1>12. CASE xpSent' = Append(xpSent, XpLen) /\ xpBus'.tx = Append(xpBus.tx, item)
    <2>1. /\ XpOneWrite' /\ (XpWritePending' <=> XpWritePending)
          /\ Len(xpBus'.tx) = Len(xpBus.tx) + 1
      BY <1>2, <1>3, <1>6, <1>7, <1>12, XpQueued
    <2>2. XpLen = XpItem(xpCall, Len(xpSent) + 1)
      BY <1>2, <1>4 DEF XpItem
    <2>3. /\ Len(xpSent') = Len(xpSent) + 1
          /\ \A k \in DOMAIN xpSent' : xpSent'[k] = XpItem(xpCall', k)
      BY <1>1, <1>2, <1>4, <1>12, <2>2, XpSentGrows
    <2>4. XpSending'
      <3>1. Len(xpSent') <= XpDue'
        BY <1>2, <1>4, <1>5, <2>3
      <3> QED
        BY <1>2, <1>6, <2>3, <3>1 DEF XpSending
    <2>5. XpComing'
      <3>1. Len(xpBus'.tx) + Len(xpBus'.rx) + Len(xpGot') + pending <= Len(xpSent')
        <4>1. Len(xpBus'.rx) = Len(xpBus.rx) /\ Len(xpGot') = Len(xpGot)
          BY <1>6
        <4>2. Len(xpSent) \in Nat /\ pending \in Nat
          BY <1>4, <1>8
        <4>3. Len(xpBus.tx) + 1 + Len(xpBus.rx) + Len(xpGot) + pending <= Len(xpSent) + 1
          <5>1. \A a, b, c, d, e \in Nat : a + b + c + d <= e => a + 1 + b + c + d <= e + 1
            OBVIOUS
          <5> QED
            BY <4>2, <5>1, <1>8, <1>9
        <4> QED
          BY <2>1, <2>3, <4>1, <4>3
      <3>2. pending = IF XpWritePending' THEN 0 ELSE 1
        BY <1>p, <2>1
      <3>3. Len(xpSent') >= 1 /\ XpDone' # 0
        BY <1>2, <1>4, <2>3
      <3> QED
        BY <3>1, <3>2, <3>3 DEF XpComing
    <2> QED
      BY <2>1, <2>4, <2>5
  <1> QED
    BY <1>6, <1>11, <1>12

(* A stop is no command of the transfer.                                   *)
LEMMA XpSendsStop ==
    ASSUME XpTypes, XpJudged, XpUnderWay, XpGoesOn, ~XpRaised("abort"),
           Head(xpSteps) = "stop", XpEmitStop
    PROVE  XpSending' /\ XpComing' /\ XpOneWrite'
  <1>1. XpLen \in Nat /\ XpLen >= 1 /\ xpSent \in Seq(Nat) /\ xpBus \in XpBuses
    BY XpAssumption DEF XpTypes
  <1>2. /\ XpDone = 2 * XpLen /\ xpCall = "phased" /\ XpDone' = XpDone + 1 /\ xpCall' = xpCall
    BY XpSendMoves DEF XpAtStep
  <1>3. XpSending /\ XpOneWrite /\ xpBus.on /\ xpBus.tar = XpTarget
    BY DEF XpUnderWay, XpSending, XpTypes, XpJudged
  <1> DEFINE item == [to |-> XpTarget, do |-> "stop", reg |-> 0]
             c == DwEmitStop(xpBus)
  <1>4. c.on /\ c.rx = xpBus.rx /\ c.tx = Append(xpBus.tx, item)
    <2>1. XpCommanded(DwCommand(xpBus, "stop", 0), xpBus, "stop", 0)
      BY <1>1, <1>3, XpCommandBus
    <2> QED
      BY <2>1, <1>3 DEF DwEmitStop, XpCommanded
  <1>5. item \in XpCommands /\ item.do # "write"
    BY DEF XpCommands
  <1> HIDE DEF item, c
  <1>6. /\ xpSent' = xpSent /\ xpGot' = xpGot /\ xpTx' = xpTx
        /\ xpBus' = c \/ xpBus' = xpBus
    BY DEF XpEmitStop, c
  <1>7. XpOneWrite'
    <2>1. CASE xpBus' = c
      BY <1>2, <1>3, <1>4, <1>5, <1>6, <2>1, XpQueued
    <2>2. CASE xpBus' = xpBus
      BY <1>2, <1>3, <1>6, <2>2 DEF XpOneWrite, XpWritePending
    <2> QED
      BY <1>6, <2>1, <2>2
  <1>8. XpDue' = XpDue /\ XpDue = 2 * XpLen
    <2>1. XpDue' = IF XpDone' <= XpItems(xpCall') THEN XpDone' ELSE XpItems(xpCall')
      BY DEF XpDue
    <2> QED
      BY <1>1, <1>2, <2>1 DEF XpItems, XpDue
  <1>9. xpTx = XpLen /\ ~(XpDone' <= XpLen)
    BY <1>1, <1>2, <1>3 DEF XpSending
  <1>10. XpSending'
    <2>1. xpBus'.on
      BY <1>3, <1>4, <1>6
    <2>2. /\ \A k \in DOMAIN xpSent : xpSent[k] = XpItem(xpCall, k)
          /\ Len(xpSent) <= XpDue /\ Len(xpSent) = XpDue
      BY <1>2, <1>3 DEF XpSending
    <2> QED
      BY <1>2, <1>6, <1>8, <1>9, <2>1, <2>2 DEF XpSending
  <1> QED
    BY <1>2, <1>7, <1>10 DEF XpComing

(* So a judged call that sends stays as it should be.                      *)
LEMMA XpSendSteps ==
    ASSUME XpTypes, XpJudged, XpUnderWay,
           XpIssueReadToken \/ XpWriteTxByte \/ XpWriteRegister \/ XpEmitStop
    PROVE  xpSteps' # <<>> /\ XpUnderWay'
  <1>1. /\ XpLen \in Nat /\ xpTx \in Nat /\ xpBus \in XpBuses /\ xpSteps # <<>>
        /\ xpBus.tar = XpTarget
    BY XpAssumption DEF XpTypes, XpJudged
  <1>2. XpGoesOn
    BY DEF XpIssueReadToken, XpWriteTxByte, XpWriteRegister, XpEmitStop
  <1>3. XpAtStep(xpCall, XpDone, Head(xpSteps)) /\ xpCall' = xpCall
    BY <1>2, XpMoves DEF XpUnderWay, XpGoesOn
  <1>4. XpOneWrite
    BY DEF XpUnderWay
  <1>5. /\ Head(xpSteps) \in {"write", "ask", "reg", "askNow", "stop"}
        /\ xpBus'.rx = xpBus.rx /\ xpBus'.raw = xpBus.raw /\ xpBus'.next = xpBus.next
        /\ xpGot' = xpGot
        /\ XpRaised("abort") => xpBus'.tx = xpBus.tx
        /\ ~XpRaised("abort") => XpSending' /\ XpComing' /\ XpOneWrite'
    <2>1. CASE XpIssueReadToken
      <3>1. XpPut(DwCommand(xpBus, "read", 0), XpLen) /\ xpTx' = xpTx
        BY <2>1, XpTokenPut DEF XpIssueReadToken
      <3>2. /\ xpBus'.rx = xpBus.rx /\ xpBus'.raw = xpBus.raw /\ xpBus'.next = xpBus.next
            /\ xpGot' = xpGot
            /\ ~XpTakes => xpBus' = xpBus
        BY <1>1, <3>1, XpPutTypes
      <3>3. /\ Head(xpSteps) \in {"ask", "askNow"}
            /\ Head(xpSteps) = "ask" => Len(xpBus.tx) < XpDepth
        <4>1. Head(xpSteps) # "askEmpty"
          BY <1>3 DEF XpAtStep
        <4> QED
          BY <2>1, <4>1 DEF XpIssueReadToken, XpAsks, XpAt, XpRoom
      <3>4. ASSUME ~XpRaised("abort") PROVE XpSending' /\ XpComing' /\ XpOneWrite'
        <4>1. CASE Head(xpSteps) = "ask"
          BY <1>2, <3>1, <3>3, <3>4, <4>1, XpSendsDue
        <4>2. CASE Head(xpSteps) = "askNow"
          BY <1>2, <3>1, <3>4, <4>2, XpSendsToken
        <4> QED
          BY <3>3, <4>1, <4>2
      <3> QED
        BY <3>2, <3>3, <3>4 DEF XpTakes
    <2>2. CASE XpWriteTxByte
      <3>1. XpPut(DwCommand(xpBus, "data", 0), xpTx) /\ xpTx' = xpTx + 1
        BY <2>2 DEF XpWriteTxByte
      <3>2. /\ xpBus'.rx = xpBus.rx /\ xpBus'.raw = xpBus.raw /\ xpBus'.next = xpBus.next
            /\ xpGot' = xpGot
            /\ ~XpTakes => xpBus' = xpBus
        BY <1>1, <3>1, XpPutTypes
      <3>3. Head(xpSteps) = "write" /\ Len(xpBus.tx) < XpDepth
        <4>1. Head(xpSteps) # "writeEmpty"
          BY <1>3 DEF XpAtStep
        <4> QED
          BY <2>2, <4>1 DEF XpWriteTxByte, XpAt, XpRoom
      <3>4. ASSUME ~XpRaised("abort") PROVE XpSending' /\ XpComing' /\ XpOneWrite'
        BY <1>2, <3>1, <3>3, <3>4, XpSendsDue
      <3> QED
        BY <3>2, <3>3, <3>4 DEF XpTakes
    <2>3. CASE XpWriteRegister
      <3>1. XpPut(DwCommand(xpBus, "write", 1), 0) /\ xpTx' = xpTx
        BY <2>3 DEF XpWriteRegister, XpPut, DwIssueWriteByte
      <3>2. /\ xpBus'.rx = xpBus.rx /\ xpBus'.raw = xpBus.raw /\ xpBus'.next = xpBus.next
            /\ xpGot' = xpGot
            /\ ~XpTakes => xpBus' = xpBus
        BY <1>1, <3>1, XpPutTypes
      <3>3. Head(xpSteps) = "reg"
        <4>1. Head(xpSteps) # "regWait"
          BY <1>3 DEF XpAtStep
        <4> QED
          BY <2>3, <4>1 DEF XpWriteRegister, XpAt
      <3>4. ASSUME ~XpRaised("abort") PROVE XpSending' /\ XpComing' /\ XpOneWrite'
        BY <1>2, <3>1, <3>3, <3>4, XpSendsRegister
      <3> QED
        BY <3>2, <3>3, <3>4 DEF XpTakes
    <2>4. CASE XpEmitStop
      <3>1. Head(xpSteps) = "stop" /\ xpGot' = xpGot
        BY <2>4 DEF XpEmitStop, XpAt
      <3>2. /\ xpBus'.rx = xpBus.rx /\ xpBus'.raw = xpBus.raw /\ xpBus'.next = xpBus.next
            /\ ~XpTakes => xpBus' = xpBus
        <4>1. XpCommanded(DwCommand(xpBus, "stop", 0), xpBus, "stop", 0)
          BY <1>1, XpCommandBus
        <4> QED
          BY <2>4, <4>1 DEF XpEmitStop, DwEmitStop, XpCommanded
      <3>3. ASSUME ~XpRaised("abort") PROVE XpSending' /\ XpComing' /\ XpOneWrite'
        BY <1>2, <2>4, <3>1, <3>3, XpSendsStop
      <3> QED
        BY <3>1, <3>2, <3>3 DEF XpTakes
    <2> QED
      BY <2>1, <2>2, <2>3, <2>4
  <1>6. XpOneWrite'
    <2>1. CASE XpRaised("abort")
      BY <1>3, <1>4, <1>5, <2>1 DEF XpOneWrite, XpWritePending
    <2> QED
      BY <1>5, <2>1
  <1> QED
    BY <1>2, <1>5, <1>6, XpSendKeeps

-----------------------------------------------------------------------------
(* A byte read is the next register of the device.                         *)
LEMMA XpTakesInOrder ==
    ASSUME XpTypes, XpInOrder, xpBus.rx # <<>>, xpBus'.rx = Tail(xpBus.rx),
           xpGot' = Append(xpGot, Head(xpBus.rx)), xpBus'.next = xpBus.next
    PROVE  /\ XpInOrder' /\ Len(xpBus'.rx) = Len(xpBus.rx) - 1 /\ Len(xpGot') = Len(xpGot) + 1
           /\ Len(xpBus.rx) \in Nat /\ Len(xpBus.rx) >= 1 /\ Len(xpGot) \in Nat
  <1> DEFINE n == xpBus.next[XpTarget]
             r == Len(xpBus.rx)
             g == Len(xpGot)
  <1>1. /\ xpBus.rx \in Seq({XpTarget} \X Nat) /\ n \in Nat
        /\ xpGot \in Seq({0, XpTarget} \X Nat)
    BY DEF XpTypes, XpBuses
  <1>2. r \in Nat /\ r >= 1 /\ g \in Nat
    BY <1>1, EmptySeq
  <1>3. /\ Len(xpBus'.rx) = r - 1 /\ xpBus'.rx \in Seq({XpTarget} \X Nat)
        /\ \A k \in 1 .. r - 1 : xpBus'.rx[k] = xpBus.rx[k + 1]
        /\ Head(xpBus.rx) = xpBus.rx[1]
    BY <1>1, HeadTailProperties
  <1>4. Head(xpBus.rx) \in {0, XpTarget} \X Nat
    BY <1>1
  <1>5. /\ xpGot' \in Seq({0, XpTarget} \X Nat) /\ Len(xpGot') = g + 1
        /\ \A k \in 1 .. g : xpGot'[k] = xpGot[k]
        /\ xpGot'[g + 1] = Head(xpBus.rx)
    BY <1>1, <1>4, AppendProperties
  <1>6. /\ DOMAIN xpBus.rx = 1 .. r /\ DOMAIN xpGot = 1 .. g
        /\ DOMAIN xpBus'.rx = 1 .. r - 1 /\ DOMAIN xpGot' = 1 .. g + 1
    BY <1>1, <1>3, <1>5
  <1>7. /\ r + g <= n
        /\ \A k \in 1 .. r : xpBus.rx[k] = <<XpTarget, n - r + k - 1>>
        /\ \A k \in 1 .. g : xpGot[k] = <<XpTarget, n - r - g + k - 1>>
    BY <1>6 DEF XpInOrder
  <1> HIDE DEF n, r, g
  <1>8. ASSUME NEW k \in 1 .. r - 1 PROVE xpBus'.rx[k] = <<XpTarget, n - (r - 1) + k - 1>>
    <2>1. k + 1 \in 1 .. r /\ n - r + (k + 1) - 1 = n - (r - 1) + k - 1
      BY <1>1, <1>2, <1>8
    <2>2. xpBus.rx[k + 1] = <<XpTarget, n - r + (k + 1) - 1>>
      BY <1>7, <2>1
    <2> QED
      BY <1>3, <1>8, <2>1, <2>2
  <1>9. ASSUME NEW k \in 1 .. g + 1
        PROVE  xpGot'[k] = <<XpTarget, n - (r - 1) - (g + 1) + k - 1>>
    <2>1. n - (r - 1) - (g + 1) + k - 1 = n - r - g + k - 1
      BY <1>1, <1>2, <1>9
    <2>2. CASE k = g + 1
      <3>1. 1 \in 1 .. r /\ n - r + 1 - 1 = n - r - g + k - 1
        BY <1>1, <1>2, <2>2
      <3>2. xpBus.rx[1] = <<XpTarget, n - r + 1 - 1>>
        BY <1>7, <3>1
      <3> QED
        BY <1>3, <1>5, <2>1, <2>2, <3>1, <3>2
    <2>3. CASE k # g + 1
      <3>1. k \in 1 .. g
        BY <1>2, <1>9, <2>3
      <3> QED
        BY <1>5, <1>7, <2>1, <3>1
    <2> QED
      BY <2>2, <2>3
  <1>10. (r - 1) + (g + 1) <= n
    BY <1>1, <1>2, <1>7
  <1>11. XpInOrder'
    <2>1. xpBus'.next[XpTarget] = n
      BY DEF n
    <2> QED
      BY <2>1, <1>3, <1>5, <1>6, <1>8, <1>9, <1>10 DEF XpInOrder
  <1> QED
    BY <1>2, <1>3, <1>5, <1>11 DEF r, g

(* A read of a judged call; the last one of a block completes it.          *)
LEMMA XpReceiveSteps ==
    ASSUME XpTypes, XpTypes', XpJudged, XpUnderWay, XpReadRxByte
    PROVE  /\ xpSteps' # <<>> => XpUnderWay'
           /\ xpSteps' = <<>> => XpOkIsWhole'
  <1>1. XpLen \in Nat /\ XpLen >= 1 /\ xpSent \in Seq(Nat) /\ xpBus \in XpBuses
        /\ xpCall \in XpJudgedCalls
    BY XpAssumption DEF XpTypes, XpJudged
  <1>2. XpGoesOn /\ xpCall' = xpCall /\ xpTx' = xpTx /\ xpSent' = xpSent
    BY DEF XpReadRxByte, XpGoesOn
  <1>3. /\ XpDone \in Nat /\ XpDone < XpSteps(xpCall) /\ XpAtStep(xpCall, XpDone, Head(xpSteps))
        /\ xpSteps' # <<>> => XpPlace' /\ XpDone' = XpDone + 1
        /\ xpSteps' = <<>> => XpDone + 1 = XpSteps(xpCall)
    BY <1>2, XpMoves DEF XpUnderWay
  <1>4. Head(xpSteps) = "get"
    <2>1. Head(xpSteps) # "getBurst"
      BY <1>3 DEF XpAtStep
    <2> QED
      BY <2>1 DEF XpReadRxByte, XpAt
  <1>5. /\ xpCall \in {"phased", "readBlock"} /\ XpDone >= XpItems(xpCall) /\ XpDone >= XpLen
        /\ xpCall = "phased" => XpDone > 2 * XpLen
        /\ xpCall = "readBlock" => XpDone > XpLen /\ XpDone <= 2 * XpLen
        /\ XpItems(xpCall) \in Nat
    <2>1. \/ xpCall = "phased" /\ XpDone > 2 * XpLen /\ XpDone <= 3 * XpLen
          \/ xpCall = "readBlock" /\ XpDone > XpLen /\ XpDone <= 2 * XpLen
      BY <1>3, <1>4 DEF XpAtStep
    <2>3. CASE xpCall = "phased" /\ XpDone > 2 * XpLen
      BY <1>1, <1>3, <2>3 DEF XpItems
    <2>4. CASE xpCall = "readBlock" /\ XpDone > XpLen /\ XpDone <= 2 * XpLen
      BY <1>1, <1>3, <2>4 DEF XpItems
    <2> QED
      BY <2>1, <2>3, <2>4
  <1>6. xpBus.rx # <<>>
    BY DEF XpReadRxByte, XpArrived, DwGetStatus
  <1>7. /\ xpBus'.rx = Tail(xpBus.rx) /\ xpGot' = Append(xpGot, Head(xpBus.rx))
        /\ xpBus'.tx = xpBus.tx /\ xpBus'.raw = xpBus.raw /\ xpBus'.next = xpBus.next
        /\ xpBus'.on = xpBus.on
    <2>1. xpBus' = DwReadRxByte(xpBus).bus /\ xpGot' = Append(xpGot, DwReadRxByte(xpBus).byte)
      BY DEF XpReadRxByte
    <2> QED
      BY <1>1, <1>6, <2>1, XpReadBus
  <1>8. XpOneWrite /\ XpInOrder
    BY DEF XpUnderWay
  <1>9. /\ XpInOrder' /\ Len(xpBus'.rx) = Len(xpBus.rx) - 1 /\ Len(xpGot') = Len(xpGot) + 1
        /\ Len(xpBus.rx) \in Nat /\ Len(xpBus.rx) >= 1 /\ Len(xpGot) \in Nat
    BY <1>6, <1>7, <1>8, XpTakesInOrder
  <1>10. Len(xpBus'.rx) + Len(xpGot') = Len(xpBus.rx) + Len(xpGot)
    <2>1. \A a, b \in Nat : (a - 1) + (b + 1) = a + b
      OBVIOUS
    <2> QED
      BY <1>9, <2>1
  <1>11. ~XpWritePending /\ XpWritePending' = XpWritePending
    BY <1>6, <1>7, <1>8 DEF XpOneWrite, XpWritePending
  <1>12. XpOneWrite'
    BY <1>7, <1>8, <1>11 DEF XpOneWrite
  <1>13. xpCall = "readBlock" => Len(xpGot) = IF XpDone <= XpLen + 1 THEN 0 ELSE XpDone - XpLen - 1
    BY DEF XpUnderWay
  <1>14. xpCall = "readBlock" => Len(xpGot) = XpDone - XpLen - 1
    BY <1>1, <1>3, <1>5, <1>13
  <1>15. XpDue = XpItems(xpCall)
    BY <1>3, <1>5 DEF XpDue
  <1>16. XpRaised("abort")' = XpRaised("abort")
    BY <1>7 DEF XpRaised
  <1>17. ASSUME xpSteps' # <<>> PROVE XpUnderWay'
    <2>1. XpPlace' /\ XpDone' = XpDone + 1 /\ XpDone' # 0
      BY <1>3, <1>17
    <2>2. xpCall' = "readBlock" => Len(xpGot') = IF XpDone' <= XpLen + 1 THEN 0 ELSE XpDone' - XpLen - 1
      <3>1. ASSUME xpCall = "readBlock" PROVE Len(xpGot') = XpDone - XpLen
        <4>1. Len(xpGot') = (XpDone - XpLen - 1) + 1
          BY <1>9, <1>14, <3>1
        <4> QED
          BY <1>1, <1>3, <4>1
      <3>2. ASSUME xpCall = "readBlock" PROVE ~(XpDone' <= XpLen + 1) /\ XpDone' - XpLen - 1 = XpDone - XpLen
        BY <1>1, <1>3, <1>5, <2>1, <3>2
      <3> QED
        BY <1>2, <3>1, <3>2
    <2>3. CASE XpRaised("abort")
      <3>1. XpAborted
        BY <2>3 DEF XpUnderWay
      <3>2. XpAborted'
        BY <1>2, <1>7, <1>10, <3>1 DEF XpAborted
      <3> QED
        BY <1>9, <1>12, <1>16, <2>1, <2>2, <2>3, <3>2 DEF XpUnderWay
    <2>4. CASE ~XpRaised("abort")
      <3>1. XpSending /\ XpComing
        BY <2>4 DEF XpUnderWay
      <3>2. XpDue' = XpDue
        <4>1. XpDue' = IF XpDone' <= XpItems(xpCall') THEN XpDone' ELSE XpItems(xpCall')
          BY DEF XpDue
        <4> QED
          BY <1>2, <1>3, <1>5, <1>15, <2>1, <4>1
      <3>3. XpSending'
        <4>1. xpCall \in {"write", "phased"} => xpTx = IF XpDone' <= XpLen THEN XpDone' ELSE XpLen
          BY <1>1, <1>3, <1>5, <2>1, <3>1 DEF XpSending
        <4> QED
          BY <1>2, <1>7, <3>1, <3>2, <4>1 DEF XpSending
      <3>4. XpComing'
        <4>1. ASSUME xpCall = "readBlock"
              PROVE  /\ Len(xpSent) >= 1
                     /\ Len(xpBus'.tx) + Len(xpBus'.rx) + Len(xpGot') + 1 <= Len(xpSent)
          <5>1. Len(xpSent) >= 1 /\ Len(xpBus.tx) + Len(xpBus.rx) + Len(xpGot) + 1 <= Len(xpSent)
            <6>1. XpDone >= 1
              BY <1>1, <1>3, <1>5
            <6> QED
              BY <6>1, <1>11, <3>1, <4>1 DEF XpComing
          <5>2. Len(xpBus.tx) \in Nat
            BY <1>1 DEF XpBuses
          <5> DEFINE t == Len(xpBus.tx)
                     r == Len(xpBus.rx)
                     g == Len(xpGot)
          <5>3. t \in Nat /\ r \in Nat /\ g \in Nat
            BY <1>9, <5>2
          <5>4. /\ Len(xpBus'.tx) = t /\ Len(xpBus'.rx) = r - 1 /\ Len(xpGot') = g + 1
                /\ t + r + g + 1 <= Len(xpSent)
            BY <1>7, <1>9, <5>1
          <5> HIDE DEF t, r, g
          <5>5. t + (r - 1) + (g + 1) + 1 = t + r + g + 1
            BY ONLY <5>3
          <5> QED
            BY <5>1, <5>4, <5>5
        <4> QED
          BY <1>2, <1>11, <2>1, <4>1 DEF XpComing
      <3> QED
        BY <1>9, <1>12, <1>16, <2>1, <2>2, <2>4, <3>3, <3>4 DEF XpUnderWay
    <2> QED
      BY <2>3, <2>4
  <1>18. ASSUME xpSteps' = <<>> PROVE XpOkIsWhole'
    <2>1. xpCall = "readBlock" /\ XpDone = 2 * XpLen
      BY <1>1, <1>3, <1>4, <1>18 DEF XpAtStep, XpSteps
    <2>2. Len(xpGot) = XpLen - 1
      BY <1>1, <1>14, <2>1
    <2>3. ~XpRaised("abort")
      <3>1. SUFFICES ASSUME XpRaised("abort") PROVE FALSE
        OBVIOUS
      <3>2. Len(xpBus.rx) + Len(xpGot) < XpLen
        BY <2>1, <3>1 DEF XpUnderWay, XpAborted
      <3> QED
        BY <1>1, <1>9, <2>2, <3>2
    <2>4. XpSending /\ XpComing
      BY <2>3 DEF XpUnderWay
    <2>5. Len(xpBus.tx) + Len(xpBus.rx) + Len(xpGot) + 1 <= Len(xpSent)
      <3>1. XpDone >= 1
        BY <1>1, <2>1
      <3> QED
        BY <3>1, <1>11, <2>1, <2>4 DEF XpComing
    <2>6. Len(xpSent) = XpItems(xpCall)
      <3>1. Len(xpSent) <= XpItems(xpCall) /\ XpItems(xpCall) = XpLen + 1
        BY <1>15, <2>1, <2>4 DEF XpSending, XpItems
      <3>2. Len(xpBus.tx) \in Nat /\ Len(xpSent) \in Nat
        BY <1>1 DEF XpBuses
      <3> QED
        <4> DEFINE t == Len(xpBus.tx)
                   r == Len(xpBus.rx)
                   g == Len(xpGot)
                   s == Len(xpSent)
        <4>1. /\ t \in Nat /\ r \in Nat /\ r >= 1 /\ s \in Nat /\ g = XpLen - 1
              /\ t + r + g + 1 <= s /\ s <= XpLen + 1
          BY <1>9, <2>2, <2>5, <3>1, <3>2
        <4> HIDE DEF t, r, g, s
        <4>2. s = XpLen + 1
          BY ONLY <1>1, <4>1
        <4> QED
          BY <3>1, <4>2 DEF s
    <2>7. /\ Len(xpSent') = XpItems(xpCall')
          /\ \A k \in DOMAIN xpSent' : xpSent'[k] = XpItem(xpCall', k)
      BY <1>2, <2>4, <2>6 DEF XpSending
    <2>8. XpTypes' /\ XpInOrder' /\ XpSentAll' => XpOkIsWhole'
      BY XpWholeCall, PTL
    <2> QED
      BY <1>9, <2>7, <2>8 DEF XpSentAll
  <1> QED
    BY <1>17, <1>18

(* A stop seen completes the other calls.                                  *)
LEMMA XpStopSteps ==
    ASSUME XpTypes, XpTypes', XpJudged, XpUnderWay, XpSeesStop
    PROVE  xpSteps' = <<>> /\ XpOkIsWhole'
  <1>1. XpLen \in Nat /\ XpLen >= 1 /\ xpBus \in XpBuses /\ xpCall \in XpJudgedCalls
    BY XpAssumption DEF XpTypes, XpJudged
  <1>2. XpGoesOn /\ xpCall' = xpCall /\ xpGot' = xpGot /\ xpSent' = xpSent
    BY DEF XpSeesStop, XpGoesOn
  <1>3. /\ XpDone \in Nat /\ XpDone < XpSteps(xpCall) /\ XpAtStep(xpCall, XpDone, Head(xpSteps))
        /\ xpSteps' # <<>> => XpPlace' /\ XpDone' = XpDone + 1
    BY <1>2, XpMoves DEF XpUnderWay
  <1>4. Head(xpSteps) \in {"stopSeen", "stopAck"} /\ ~XpRaised("abort")
    BY DEF XpSeesStop, XpAt, XpStopSeen
  <1>5. /\ XpDone + 1 = XpSteps(xpCall) /\ xpCall # "readBlock"
        /\ XpItems(xpCall) \in Nat /\ XpDone >= XpItems(xpCall)
    <2>1. CASE Head(xpSteps) = "stopSeen"
      BY <1>1, <1>3, <2>1 DEF XpAtStep, XpSteps, XpItems
    <2>2. CASE Head(xpSteps) = "stopAck"
      BY <1>1, <1>3, <2>2 DEF XpAtStep, XpSteps, XpItems
    <2> QED
      BY <1>4, <2>1, <2>2
  <1>6. xpSteps' = <<>>
    <2>1. SUFFICES ASSUME xpSteps' # <<>> PROVE FALSE
      OBVIOUS
    <2>2. XpDone' \in 0 .. XpSteps(xpCall) - 1 /\ XpDone' = XpDone + 1
      BY <1>2, <1>3, <2>1 DEF XpPlace
    <2> QED
      BY <1>3, <1>5, <2>2
  <1>7. XpSending /\ XpInOrder
    BY <1>4 DEF XpUnderWay
  <1>8. XpDue = XpItems(xpCall)
    BY <1>3, <1>5 DEF XpDue
  <1>9. /\ Len(xpSent') = XpItems(xpCall')
        /\ \A k \in DOMAIN xpSent' : xpSent'[k] = XpItem(xpCall', k)
    BY <1>2, <1>5, <1>7, <1>8 DEF XpSending
  <1>10. XpInOrder'
    <2>1. xpBus' = xpBus \/ xpBus' = DwAckInterrupts(xpBus)
      BY DEF XpSeesStop
    <2>2. xpBus'.rx = xpBus.rx /\ xpBus'.next = xpBus.next
      BY <1>1, <2>1, XpAckBus
    <2> QED
      BY <1>2, <1>7, <2>2 DEF XpInOrder
  <1> QED
    <2>1. XpTypes' /\ XpInOrder' /\ XpSentAll' => XpOkIsWhole'
      BY XpWholeCall, PTL
    <2> QED
      BY <1>6, <1>9, <1>10, <2>1 DEF XpSentAll

(* The interrupt finds no abort, if the call is still judged.              *)
LEMMA XpIsrSteps ==
    ASSUME XpTypes, XpJudged, XpUnderWay, XpIsr, xpClean'
    PROVE  XpUnderWay'
  <1>1. /\ UNCHANGED <<xpCall, xpSteps, xpTx, xpGot, xpSent>> /\ ~XpRaised("abort")
    BY DEF XpIsr
  <1>2. /\ xpBus'.tx = xpBus.tx /\ xpBus'.rx = xpBus.rx /\ xpBus'.next = xpBus.next
        /\ xpBus'.on = xpBus.on /\ xpBus'.raw = {}
    BY XpAckBus DEF XpIsr, XpTypes
  <1>3. ~XpRaised("abort")'
    BY <1>2 DEF XpRaised
  <1>4. XpDone' = XpDone /\ XpDue' = XpDue /\ XpWritePending' = XpWritePending
    BY <1>1, <1>2 DEF XpDone, XpDue, XpWritePending
  <1>5. XpPlace' /\ XpOneWrite' /\ XpInOrder'
    BY <1>1, <1>2, <1>4 DEF XpUnderWay, XpPlace, XpOneWrite, XpInOrder
  <1>6. XpSending' /\ XpComing'
    BY <1>1, <1>2, <1>4 DEF XpUnderWay, XpSending, XpComing
  <1> QED
    BY <1>1, <1>2, <1>3, <1>4, <1>5, <1>6 DEF XpUnderWay

(* A judged call begins with nothing left over.                            *)
LEMMA XpBeginSteps ==
    ASSUME XpTypes, NEW call \in DOMAIN XpProgram, XpBegin(call), XpJudged'
    PROVE  XpUnderWay'
  <1>1. XpLen \in Nat /\ XpLen >= 1 /\ call \in XpJudgedCalls /\ xpCall' = call
        /\ XpSteps(call) \in Nat /\ XpItems(call) \in Nat /\ XpItems(call) < XpSteps(call)
    BY XpAssumption, XpCounts DEF XpBegin, XpJudged
  <1>2. xpBus.tx = <<>> /\ xpBus.rx = <<>> /\ xpBus.raw = {} /\ xpBus.on
    BY DEF XpBegin, XpJudged
  <1>3. /\ xpBus'.tx = <<>> /\ xpBus'.rx = <<>> /\ xpBus'.raw = {} /\ xpBus'.on
        /\ xpBus'.next = xpBus.next /\ xpBus.next[XpTarget] \in Nat
    BY <1>2, XpSetBus DEF XpBegin, XpTypes, XpBuses
  <1>4. /\ xpSteps' \in Seq(XpNames) /\ Len(xpSteps') = XpSteps(call)
        /\ \A k \in 1 .. XpSteps(call) : xpSteps'[k] = XpStepOf(call, k)
    BY <1>1, XpJudgedProgramsAre DEF XpBegin
  <1>5. xpTx' = 0 /\ xpGot' = <<>> /\ xpSent' = <<>>
    BY DEF XpBegin
  <1>6. XpDone' = 0
    <2>1. XpDone' = XpSteps(call) - Len(xpSteps')
      BY <1>1 DEF XpDone
    <2> QED
      BY <1>1, <1>4, <2>1
  <1>7. XpPlace'
    <2>1. XpDone' \in 0 .. XpSteps(xpCall') - 1
      BY <1>1, <1>6
    <2>2. \A k \in 1 .. Len(xpSteps') : xpSteps'[k] = XpStepOf(xpCall', XpDone' + k)
      <3>1. \A k \in 1 .. XpSteps(call) : XpDone' + k = k
        BY <1>6
      <3> QED
        BY <1>1, <1>4, <3>1
    <2> QED
      BY <2>1, <2>2 DEF XpPlace
  <1>8. /\ Len(xpBus'.tx) = 0 /\ Len(xpBus'.rx) = 0 /\ Len(xpGot') = 0 /\ Len(xpSent') = 0
        /\ DOMAIN xpBus'.tx = {} /\ DOMAIN xpBus'.rx = {} /\ DOMAIN xpGot' = {} /\ DOMAIN xpSent' = {}
    BY <1>3, <1>5
  <1>9. XpOneWrite'
    BY <1>3, <1>8 DEF XpOneWrite, XpWritePending
  <1>10. XpInOrder'
    BY <1>3, <1>8 DEF XpInOrder
  <1>11. ~XpRaised("abort")'
    BY <1>3 DEF XpRaised
  <1>12. XpDue' = 0
    <2>1. XpDue' = IF XpDone' <= XpItems(xpCall') THEN XpDone' ELSE XpItems(xpCall')
      BY DEF XpDue
    <2> QED
      BY <1>1, <1>6, <2>1
  <1>13. XpSending'
    BY <1>1, <1>3, <1>5, <1>6, <1>8, <1>12 DEF XpSending
  <1>14. XpComing'
    BY <1>3, <1>5, <1>6 DEF XpComing
  <1>15. xpCall' = "readBlock" => Len(xpGot') = IF XpDone' <= XpLen + 1 THEN 0 ELSE XpDone' - XpLen - 1
    BY <1>1, <1>6, <1>8
  <1> QED
    BY <1>3, <1>7, <1>9, <1>10, <1>11, <1>13, <1>14, <1>15 DEF XpUnderWay

-----------------------------------------------------------------------------
(* What a served command leaves.                                           *)
LEMMA XpTailIs ==
    ASSUME XpTypes, xpBus.tx # <<>>, XpOneWrite, xpBus'.tx = Tail(xpBus.tx)
    PROVE  /\ Len(xpBus'.tx) = Len(xpBus.tx) - 1 /\ Len(xpBus.tx) \in Nat /\ Len(xpBus.tx) >= 1
           /\ \A k \in DOMAIN xpBus'.tx : xpBus'.tx[k].do # "write"
           /\ ~XpWritePending'
  <1>1. xpBus.tx \in Seq(XpCommands)
    BY DEF XpTypes, XpBuses
  <1>2. /\ Tail(xpBus.tx) \in Seq(XpCommands) /\ Len(Tail(xpBus.tx)) = Len(xpBus.tx) - 1
        /\ \A k \in 1 .. Len(Tail(xpBus.tx)) : Tail(xpBus.tx)[k] = xpBus.tx[k + 1]
    BY <1>1, HeadTailProperties
  <1>3. Len(xpBus.tx) \in Nat /\ Len(xpBus.tx) >= 1 /\ DOMAIN xpBus.tx = 1 .. Len(xpBus.tx)
    BY <1>1, EmptySeq
  <1> DEFINE t == xpBus'.tx
             n == Len(xpBus.tx)
  <1>4. /\ t \in Seq(XpCommands) /\ Len(t) = n - 1 /\ DOMAIN t = 1 .. n - 1
        /\ \A k \in 1 .. n - 1 : t[k] = xpBus.tx[k + 1]
    BY <1>2
  <1>5. \A k \in 1 .. n : xpBus.tx[k].do = "write" => k = 1
    BY <1>3 DEF XpOneWrite
  <1>w. XpWritePending' = (t # <<>> /\ Head(t).do = "write")
    BY DEF XpWritePending
  <1>n. n \in Nat /\ n >= 1
    BY <1>3
  <1> HIDE DEF t, n
  <1>6. ASSUME NEW k \in 1 .. n - 1 PROVE t[k].do # "write"
    <2>1. k + 1 \in 1 .. n /\ k + 1 # 1
      BY <1>n, <1>6
    <2> QED
      BY <1>4, <1>5, <2>1
  <1>7. ~(t # <<>> /\ Head(t).do = "write")
    <2>1. SUFFICES ASSUME t # <<>>, Head(t).do = "write" PROVE FALSE
      OBVIOUS
    <2>2. Head(t) = t[1] /\ Len(t) \in Nat /\ Len(t) # 0
      BY <1>4, <2>1, EmptySeq
    <2>3. 1 \in 1 .. n - 1
      BY <1>n, <1>4, <2>2
    <2> QED
      BY <1>6, <2>1, <2>2, <2>3
  <1> QED
    BY <1>3, <1>4, <1>6, <1>7, <1>w DEF t, n

(* A register that was read goes behind what the FIFO holds.               *)
LEMMA XpPutsInOrder ==
    ASSUME XpTypes, XpInOrder, xpBus'.rx = Append(xpBus.rx, <<XpTarget, xpBus.next[XpTarget]>>),
           xpBus'.next[XpTarget] = xpBus.next[XpTarget] + 1, xpGot' = xpGot
    PROVE  XpInOrder' /\ Len(xpBus'.rx) = Len(xpBus.rx) + 1
  <1> DEFINE n == xpBus.next[XpTarget]
             r == Len(xpBus.rx)
             g == Len(xpGot)
             item == <<XpTarget, n>>
  <1>1. /\ xpBus.rx \in Seq({XpTarget} \X Nat) /\ n \in Nat
        /\ xpGot \in Seq({0, XpTarget} \X Nat)
    BY DEF XpTypes, XpBuses
  <1>2. r \in Nat /\ g \in Nat /\ item \in {XpTarget} \X Nat
    BY <1>1
  <1>3. /\ xpBus'.rx \in Seq({XpTarget} \X Nat) /\ Len(xpBus'.rx) = r + 1
        /\ \A k \in 1 .. r : xpBus'.rx[k] = xpBus.rx[k]
        /\ xpBus'.rx[r + 1] = item
    BY <1>1, <1>2, AppendProperties
  <1>4. DOMAIN xpBus.rx = 1 .. r /\ DOMAIN xpGot = 1 .. g /\ DOMAIN xpBus'.rx = 1 .. r + 1
    BY <1>1, <1>3
  <1>5. /\ r + g <= n
        /\ \A k \in 1 .. r : xpBus.rx[k] = <<XpTarget, n - r + k - 1>>
        /\ \A k \in 1 .. g : xpGot[k] = <<XpTarget, n - r - g + k - 1>>
    BY <1>4 DEF XpInOrder
  <1> HIDE DEF n, r, g
  <1>6. ASSUME NEW k \in 1 .. r + 1 PROVE xpBus'.rx[k] = <<XpTarget, n + 1 - (r + 1) + k - 1>>
    <2>1. n + 1 - (r + 1) + k - 1 = n - r + k - 1
      BY <1>1, <1>2, <1>6
    <2>2. CASE k = r + 1
      <3>1. n - r + k - 1 = n
        BY <1>1, <1>2, <2>2
      <3> QED
        BY <1>3, <2>1, <2>2, <3>1
    <2>3. CASE k # r + 1
      <3>1. k \in 1 .. r
        BY <1>2, <1>6, <2>3
      <3> QED
        BY <1>3, <1>5, <2>1, <3>1
    <2> QED
      BY <2>2, <2>3
  <1>7. ASSUME NEW k \in 1 .. g PROVE xpGot[k] = <<XpTarget, n + 1 - (r + 1) - g + k - 1>>
    <2>1. n + 1 - (r + 1) - g + k - 1 = n - r - g + k - 1
      BY <1>1, <1>2, <1>7
    <2> QED
      BY <1>5, <2>1
  <1>8. (r + 1) + g <= n + 1
    BY <1>1, <1>2, <1>5
  <1>9. xpBus'.next[XpTarget] = n + 1
    BY DEF n
  <1>10. XpInOrder'
    <2>1. Len(xpGot') = g /\ DOMAIN xpGot' = 1 .. g
      BY <1>4 DEF g
    <2>2. Len(xpBus'.rx) + Len(xpGot') <= xpBus'.next[XpTarget]
      BY <1>3, <1>8, <1>9, <2>1
    <2>3. \A k \in DOMAIN xpBus'.rx :
             xpBus'.rx[k] = <<XpTarget, xpBus'.next[XpTarget] - Len(xpBus'.rx) + k - 1>>
      <3>1. ASSUME NEW k \in 1 .. r + 1
            PROVE  xpBus'.next[XpTarget] - Len(xpBus'.rx) + k - 1 = n + 1 - (r + 1) + k - 1
        <4>1. Len(xpBus'.rx) = r + 1
          BY <1>3
        <4> QED
          BY <4>1, <1>1, <1>2, <1>9
      <3> QED
        BY <3>1, <1>4, <1>6
    <2>4. \A k \in DOMAIN xpGot' :
             xpGot'[k] = <<XpTarget, xpBus'.next[XpTarget] - Len(xpBus'.rx) - Len(xpGot') + k - 1>>
      <3>1. ASSUME NEW k \in 1 .. g
            PROVE  xpBus'.next[XpTarget] - Len(xpBus'.rx) - Len(xpGot') + k - 1
                       = n + 1 - (r + 1) - g + k - 1
        <4>1. Len(xpBus'.rx) = r + 1 /\ Len(xpGot') = g
          BY <1>3, <2>1
        <4> QED
          BY <4>1, <1>1, <1>2, <1>9
      <3>2. \A k \in 1 .. g : xpGot'[k] = xpGot[k]
        OBVIOUS
      <3> QED
        BY <3>1, <3>2, <1>7, <2>1
    <2> QED
      BY <2>2, <2>3, <2>4 DEF XpInOrder
  <1> QED
    BY <1>3, <1>10 DEF r

(* The bus serves a command of a judged call, or refuses it.               *)
LEMMA XpServeSteps ==
    ASSUME XpTypes, XpJudged, XpUnderWay, XpServe
    PROVE  XpUnderWay'
  <1>1. /\ xpBus \in XpBuses /\ xpBus.tx # <<>> /\ xpSent \in Seq(Nat) /\ xpSteps # <<>>
        /\ UNCHANGED <<xpCall, xpSteps, xpTx, xpGot>> /\ XpLen \in Nat /\ XpLen >= 1
    BY XpAssumption DEF XpTypes, XpJudged, XpServe
  <1>2. PICK present \in {{}, {XpTarget}} :
           /\ xpBus' = DwServe(xpBus, present)
           /\ xpSent' = IF present = {} /\ xpSteps # <<>> THEN <<>> ELSE xpSent
    BY DEF XpServe
  <1> DEFINE head == Head(xpBus.tx)
  <1>3. "abort" \notin xpBus.raw
    BY <1>1 DEF XpUnderWay, XpRaised, XpAborted
  <1>4. /\ xpBus'.on = xpBus.on
        /\ \/ /\ present = {} /\ xpBus'.tx = <<>> /\ xpBus'.rx = xpBus.rx
              /\ xpBus'.next = xpBus.next /\ "abort" \in xpBus'.raw
           \/ /\ "abort" \notin xpBus'.raw /\ present # {} /\ xpBus'.tx = Tail(xpBus.tx)
              /\ \/ head.do = "write" /\ xpBus'.rx = xpBus.rx /\ xpBus'.next[XpTarget] \in Nat
                 \/ head.do = "read" /\ xpBus'.rx = Append(xpBus.rx, <<XpTarget, xpBus.next[XpTarget]>>)
                    /\ xpBus'.next[XpTarget] = xpBus.next[XpTarget] + 1
                 \/ head.do \in {"data", "stop"} /\ xpBus'.rx = xpBus.rx /\ xpBus'.next = xpBus.next
    <2>1. XpServed(xpBus', xpBus, present)
      BY <1>1, <1>2, XpServeBus
    <2> QED
      BY <1>3, <2>1 DEF XpServed
  <1>5. XpDone' = XpDone /\ XpDue' = XpDue
    BY <1>1 DEF XpDone, XpDue
  <1>6. XpPlace' /\ XpOneWrite /\ XpInOrder /\ XpSending /\ XpComing
    BY <1>1, <1>3, <1>5 DEF XpUnderWay, XpPlace, XpRaised
  <1>7. /\ xpCall' = "readBlock" =>
              Len(xpGot') = IF XpDone' <= XpLen + 1 THEN 0 ELSE XpDone' - XpLen - 1
        /\ xpCall = "readBlock" => XpDone # 0
    BY <1>1, <1>5, <1>6 DEF XpUnderWay, XpComing
  <1>8. /\ Len(xpBus.tx) \in Nat /\ Len(xpBus.tx) >= 1 /\ Len(xpBus.rx) \in Nat
        /\ Len(xpGot) \in Nat /\ Len(xpSent) \in Nat
    BY <1>1, EmptySeq DEF XpBuses, XpTypes
  <1>9. XpDone \in Nat /\ XpItems(xpCall) \in Nat /\ Len(xpSent) <= XpItems(xpCall)
    <2>1. XpDone \in Nat /\ XpItems(xpCall) \in Nat
      BY XpCounts DEF XpUnderWay, XpPlace, XpJudged
    <2>2. Len(xpSent) <= XpDue
      BY <1>6 DEF XpSending
    <2> QED
      BY <1>8, <2>1, <2>2 DEF XpDue
  <1>10. ASSUME xpCall = "readBlock"
         PROVE  /\ Len(xpSent) >= 1
                /\ Len(xpBus.tx) + Len(xpBus.rx) + Len(xpGot) + (IF XpWritePending THEN 0 ELSE 1)
                       <= Len(xpSent)
    <2>1. XpDone >= 1
      BY <1>7, <1>9, <1>10
    <2> QED
      BY <1>6, <1>10, <2>1 DEF XpComing
  <1>11. CASE /\ present = {} /\ xpBus'.tx = <<>> /\ xpBus'.rx = xpBus.rx
              /\ xpBus'.next = xpBus.next /\ "abort" \in xpBus'.raw
    <2>1. XpOneWrite' /\ XpInOrder'
      <3>1. DOMAIN xpBus'.tx = {}
        BY <1>11
      <3> QED
        BY <1>1, <1>6, <1>11, <3>1 DEF XpOneWrite, XpWritePending, XpInOrder
    <2>2. ASSUME xpCall = "readBlock" PROVE Len(xpBus.rx) + Len(xpGot) < XpLen
      <3>1. XpItems(xpCall) = XpLen + 1
        BY <2>2 DEF XpItems
      <3>2. CASE XpWritePending
        <4>1. Len(xpBus.rx) = 0 /\ Len(xpGot) = 0
          BY <1>6, <3>2 DEF XpOneWrite
        <4> QED
          BY <1>1, <4>1
      <3>3. CASE ~XpWritePending
        <4> DEFINE t == Len(xpBus.tx)
                   r == Len(xpBus.rx)
                   g == Len(xpGot)
                   s == Len(xpSent)
        <4>1. /\ t \in Nat /\ t >= 1 /\ r \in Nat /\ g \in Nat /\ s \in Nat
              /\ t + r + g + 1 <= s /\ s <= XpLen + 1
          BY <1>8, <1>9, <1>10, <2>2, <3>1, <3>3
        <4> HIDE DEF t, r, g, s
        <4>2. r + g < XpLen
          BY ONLY <1>1, <4>1
        <4> QED
          BY <4>2 DEF r, g
      <3> QED
        BY <3>2, <3>3
    <2>3. XpAborted' /\ XpRaised("abort")'
      BY <1>1, <1>11, <2>2 DEF XpAborted, XpRaised
    <2> QED
      BY <1>1, <1>5, <1>6, <1>7, <2>1, <2>3 DEF XpUnderWay
  <1>12. CASE "abort" \notin xpBus'.raw /\ present # {} /\ xpBus'.tx = Tail(xpBus.tx)
    <2>1. /\ Len(xpBus'.tx) = Len(xpBus.tx) - 1
          /\ \A k \in DOMAIN xpBus'.tx : xpBus'.tx[k].do # "write"
          /\ ~XpWritePending' /\ xpSent' = xpSent
      BY <1>1, <1>2, <1>6, <1>12, XpTailIs
    <2>2. XpOneWrite' /\ XpSending' /\ ~XpRaised("abort")'
      <3>1. XpSending'
        BY <1>1, <1>4, <1>5, <1>6, <2>1 DEF XpSending
      <3>2. ~XpRaised("abort")'
        BY <1>12 DEF XpRaised
      <3> QED
        BY <2>1, <3>1, <3>2 DEF XpOneWrite
    <2> DEFINE t == Len(xpBus.tx)
               r == Len(xpBus.rx)
               g == Len(xpGot)
               s == Len(xpSent)
    <2>n. t \in Nat /\ t >= 1 /\ r \in Nat /\ g \in Nat /\ s \in Nat
      BY <1>8
    <2>w. XpWritePending <=> head.do = "write"
      BY <1>1 DEF XpWritePending
    <2>3. /\ XpInOrder'
          /\ xpCall = "readBlock" => Len(xpBus'.tx) + Len(xpBus'.rx) + Len(xpGot') + 1 <= s
      <3>1. CASE head.do = "write" /\ xpBus'.rx = xpBus.rx /\ xpBus'.next[XpTarget] \in Nat
        <4>1. xpBus.rx = <<>> /\ xpGot = <<>> /\ r = 0 /\ g = 0
          BY <1>6, <2>w, <3>1 DEF XpOneWrite
        <4>2. XpInOrder'
          <5>1. DOMAIN xpBus'.rx = {} /\ DOMAIN xpGot' = {} /\ Len(xpBus'.rx) = 0 /\ Len(xpGot') = 0
            BY <1>1, <3>1, <4>1
          <5> QED
            BY <3>1, <5>1 DEF XpInOrder
        <4>3. ASSUME xpCall = "readBlock" PROVE t + r + g <= s
          <5>1. t + r + g + 0 <= s
            BY <1>10, <2>w, <3>1, <4>3
          <5>2. t + r + g + 0 = t + r + g
            BY <2>n
          <5> QED
            BY <5>1, <5>2
        <4>4. Len(xpBus'.tx) = t - 1 /\ Len(xpBus'.rx) = r /\ Len(xpGot') = g
          BY <1>1, <2>1, <3>1
        <4> HIDE DEF t, r, g, s
        <4>5. (t - 1) + r + g + 1 = t + r + g
          BY ONLY <2>n
        <4> QED
          BY <4>2, <4>3, <4>4, <4>5
      <3>2. CASE head.do = "read" /\ xpBus'.rx = Append(xpBus.rx, <<XpTarget, xpBus.next[XpTarget]>>)
                 /\ xpBus'.next[XpTarget] = xpBus.next[XpTarget] + 1
        <4>1. XpInOrder' /\ Len(xpBus'.rx) = r + 1
          BY <1>1, <1>6, <3>2, XpPutsInOrder
        <4>2. ASSUME xpCall = "readBlock" PROVE t + r + g + 1 <= s
          BY <1>10, <2>w, <3>2, <4>2
        <4>3. Len(xpBus'.tx) = t - 1 /\ Len(xpGot') = g
          BY <1>1, <2>1
        <4> HIDE DEF t, r, g, s
        <4>4. (t - 1) + (r + 1) + g + 1 = t + r + g + 1
          BY ONLY <2>n
        <4> QED
          BY <4>1, <4>2, <4>3, <4>4
      <3>3. CASE head.do \in {"data", "stop"} /\ xpBus'.rx = xpBus.rx /\ xpBus'.next = xpBus.next
        <4>1. XpInOrder'
          BY <1>1, <1>6, <3>3 DEF XpInOrder
        <4>2. ASSUME xpCall = "readBlock" PROVE t + r + g + 1 <= s
          <5>1. ~XpWritePending
            BY <2>w, <3>3
          <5> QED
            BY <1>10, <4>2, <5>1
        <4>3. Len(xpBus'.tx) = t - 1 /\ Len(xpBus'.rx) = r /\ Len(xpGot') = g
          BY <1>1, <2>1, <3>3
        <4> HIDE DEF t, r, g, s
        <4>4. t + r + g + 1 <= s => (t - 1) + r + g + 1 <= s
          BY ONLY <2>n
        <4> QED
          BY <4>1, <4>2, <4>3, <4>4
      <3> QED
        BY <1>4, <1>12, <3>1, <3>2, <3>3
    <2>4. XpComing'
      BY <1>1, <1>5, <1>7, <1>10, <2>1, <2>3 DEF XpComing
    <2> QED
      BY <1>1, <1>5, <1>6, <1>7, <2>2, <2>3, <2>4 DEF XpUnderWay
  <1> QED
    BY <1>4, <1>11, <1>12

-----------------------------------------------------------------------------
(* A step of the program of a judged call: the call stays as it should be  *)
(* or ends whole.                                                          *)
LEMMA XpProgramSteps ==
    ASSUME XpTypes, XpTypes', XpJudged => XpUnderWay, xpClean', xpCall' \in XpJudgedCalls,
           \/ XpIssueReadToken \/ XpWriteTxByte \/ XpWriteRegister \/ XpEmitStop
           \/ XpReadRxByte \/ XpBurstRunsOut \/ XpSeesStop \/ XpWaitRoom
    PROVE  /\ xpSteps' # <<>> => XpUnderWay'
           /\ xpSteps' = <<>> => XpOkIsWhole'
  <1>1. XpGoesOn /\ xpSteps # <<>>
    BY DEF XpIssueReadToken, XpWriteTxByte, XpWriteRegister, XpEmitStop, XpReadRxByte,
           XpBurstRunsOut,
           XpSeesStop, XpWaitRoom, XpAsks, XpAt
  <1>2. XpJudged
    BY <1>1 DEF XpJudged, XpGoesOn
  <1>3. CASE XpIssueReadToken \/ XpWriteTxByte \/ XpWriteRegister \/ XpEmitStop
    BY <1>2, <1>3, XpSendSteps
  <1>4. CASE XpReadRxByte
    BY <1>2, <1>4, XpReceiveSteps
  <1>5. CASE XpSeesStop
    BY <1>2, <1>5, XpStopSteps
  <1>6. CASE XpBurstRunsOut \/ XpWaitRoom
    <2>1. XpAtStep(xpCall, XpDone, Head(xpSteps))
      BY <1>1, <1>2, XpMoves DEF XpUnderWay
    <2>2. Head(xpSteps) \in {"getBurst", "askEmpty", "room"}
      BY <1>6 DEF XpBurstRunsOut, XpWaitRoom, XpAt
    <2> QED
      BY <2>1, <2>2 DEF XpAtStep
  <1> QED
    BY <1>3, <1>4, <1>5, <1>6

(* The invariant is inductive.                                             *)
LEMMA XpInvInit == XpInit => XpInv
  <1> SUFFICES ASSUME XpInit PROVE XpInv
    OBVIOUS
  <1>1. xpBus \in XpBuses
    <2>1. <<>> \in Seq(XpCommands) /\ <<>> \in Seq({XpTarget} \X Nat)
      OBVIOUS
    <2> QED
      BY <2>1 DEF XpInit, HalIdle, XpBuses
  <1>2. /\ xpCall = "none" /\ xpSteps = <<>> /\ xpEnd = "ok" /\ xpTx = 0 /\ xpGot = <<>>
        /\ xpSent = <<>> /\ xpTries = 0 /\ xpMaxRetries = 0 /\ xpMade = 0 /\ xpClean = FALSE
    BY DEF XpInit
  <1>3. XpTypes
    <2>1. /\ <<>> \in Seq(XpNames) /\ <<>> \in Seq(Nat) /\ <<>> \in Seq({0, XpTarget} \X Nat)
          /\ 0 \in Nat /\ FALSE \in BOOLEAN
      OBVIOUS
    <2>2. /\ xpCall \in DOMAIN XpProgram \cup {"none"} /\ xpEnd \in {"running", "ok", "failed"}
          /\ xpEnd # "running"
      BY <1>2
    <2> QED
      BY <1>1, <1>2, <2>1, <2>2, Zenon DEF XpTypes
  <1> QED
    BY <1>2, <1>3 DEF XpInv, XpJudged, XpOkIsWhole

(* Every step keeps it.                                                    *)
LEMMA XpInvNext == XpInv /\ [XpNext]_xpVars => XpInv'
  <1> SUFFICES ASSUME XpTypes, XpJudged => XpUnderWay, XpOkIsWhole, [XpNext]_xpVars PROVE XpInv'
    BY DEF XpInv
  <1>1. XpTypes'
    BY XpNextTypes
  <1>2. (XpJudged => XpUnderWay)' /\ XpOkIsWhole'
    <2>1. CASE UNCHANGED xpVars
      BY <2>1 DEF xpVars, XpJudged, XpUnderWay, XpPlace, XpDone, XpOneWrite, XpWritePending,
                  XpInOrder,
             XpAborted, XpSending, XpDue, XpComing, XpRaised, XpOkIsWhole, XpWhole
    <2>2. CASE LoadRegistryPolicy \/ XpBetween
      <3>1. /\ xpSteps = <<>> /\ xpSteps' = xpSteps /\ xpEnd' = xpEnd /\ xpClean' = xpClean
            /\ xpCall' = xpCall /\ xpSent' = xpSent /\ xpGot' = xpGot
        BY <2>2 DEF LoadRegistryPolicy, XpBetween
      <3> QED
        BY <3>1 DEF XpJudged, XpOkIsWhole, XpWhole
    <2>3. ASSUME NEW call \in DOMAIN XpProgram, XpBegin(call)
          PROVE  (XpJudged => XpUnderWay)' /\ XpOkIsWhole'
      <3>1. xpEnd' = "running"
        BY <2>3 DEF XpBegin
      <3>2. (XpJudged => XpUnderWay)' = (XpJudged' => XpUnderWay')
        OBVIOUS
      <3> QED
        BY <2>3, <3>1, <3>2, XpBeginSteps DEF XpOkIsWhole
    <2>4. CASE \/ XpIssueReadToken \/ XpWriteTxByte \/ XpWriteRegister \/ XpEmitStop
               \/ XpReadRxByte \/ XpBurstRunsOut \/ XpSeesStop \/ XpWaitRoom
      <3>1. CASE xpClean' /\ xpCall' \in XpJudgedCalls
        <4>1. /\ xpSteps' # <<>> => XpUnderWay'
              /\ xpSteps' = <<>> => XpOkIsWhole'
          BY <1>1, <2>4, <3>1, XpProgramSteps
        <4>2. xpSteps' # <<>> => xpEnd' = "running"
          BY <1>1 DEF XpTypes
        <4> QED
          BY <4>1, <4>2 DEF XpJudged, XpOkIsWhole
      <3>2. CASE ~(xpClean' /\ xpCall' \in XpJudgedCalls)
        BY <3>2 DEF XpJudged, XpOkIsWhole, XpJudgedCalls
      <3> QED
        BY <3>1, <3>2
    <2>5. CASE XpTimeout \/ XpAborts
      <3>1. ~xpClean'
        BY <2>5, XpFailTypes
      <3> QED
        BY <3>1 DEF XpJudged, XpOkIsWhole
    <2>6. CASE XpServe
      <3>1. XpJudged' => XpUnderWay'
        <4>1. XpJudged' => XpJudged
          BY <2>6 DEF XpServe, XpJudged
        <4> QED
          BY <2>6, <4>1, XpServeSteps
      <3>2. XpOkIsWhole'
        <4>1. CASE xpSteps = <<>>
          BY <2>6, <4>1 DEF XpServe, XpOkIsWhole, XpWhole
        <4>2. CASE xpSteps # <<>>
          BY <2>6, <4>2 DEF XpServe, XpOkIsWhole, XpTypes
        <4> QED
          BY <4>1, <4>2
      <3> QED
        BY <3>1, <3>2
    <2>7. CASE XpIsr
      <3>1. XpJudged' => XpUnderWay'
        <4>1. XpJudged' => XpJudged /\ xpClean'
          BY <2>7 DEF XpIsr, XpJudged
        <4> QED
          BY <2>7, <4>1, XpIsrSteps
      <3>2. XpOkIsWhole'
        BY <2>7 DEF XpIsr, XpOkIsWhole, XpWhole
      <3> QED
        BY <3>1, <3>2
    <2> QED
      BY <2>1, <2>2, <2>3, <2>4, <2>5, <2>6, <2>7 DEF XpNext
  <1> QED
    BY <1>1, <1>2 DEF XpInv

(* A transfer that found the controller clean, retried nothing and saw its *)
(* abort itself succeeds only with every command sent, in order, and the   *)
(* device's bytes read in order, however long it is and however deep the   *)
(* FIFO: a lost token of the block read leaves too few bytes to end it.    *)
THEOREM XpSuccessIsWhole == XpSpec => []XpOkIsWhole
  <1>1. XpInv => XpOkIsWhole
    BY DEF XpInv
  <1> QED
    BY <1>1, XpInvInit, XpInvNext, PTL DEF XpSpec

-----------------------------------------------------------------------------
(***************************************************************************)
(* BusProtocols: which calls are bound to fail, and what is in the FIFOs   *)
(* during the others.                                                      *)
(***************************************************************************)
BpCommands ==
    [to : BpAddresses, do : {"write", "data", "read", "stop"}, reg : {0, 1}]
BpBytes == BpAddresses \X Nat
BpBuses ==
    [tar : Nat, tx : Seq(BpCommands), rx : Seq(BpBytes), raw : SUBSET {"stop", "abort"},
     next : [BpAddresses -> Nat], on : BOOLEAN, ok : BOOLEAN]

BpMoves ==
    {"cmd", "data", "token", "byte", "count", "finish", "check", "putCmd", "put", "ask",
     "askNow", "stop", "off", "target", "on", "drained", "stopped"}

BpTypes ==
    /\ bpBus \in BpBuses /\ bpSteps \in Seq(BpMoves) /\ bpGot \in Seq(BpBytes)
    /\ bpGaveUp \in BOOLEAN /\ bpEnd \in {"running", "ok", "failed"}
    /\ bpSteps # <<>> => bpEnd = "running" /\ bpBus.tar \in BpAddresses

(* Where a program has a move of a kind, and the FIFO a command of one.    *)
BpAt(steps, moves) == {k \in DOMAIN steps : steps[k] \in moves}
BpOf(tx, kind) == {k \in DOMAIN tx : tx[k].do = kind}

(* Nothing is left that could answer a later call.                         *)
BpClean(b) == BpOf(b.tx, "read") = {} /\ b.rx = <<>>

(* A call that comes to a step which always gives up cannot succeed.       *)
BpDoomed(call, steps) ==
    \/ \E k \in DOMAIN steps : steps[k] = "finish"
    \/ \E k \in DOMAIN steps : steps[k] = "count" /\ k = Len(steps)
    \/ call = "enableReadN" /\ \E k \in DOMAIN steps : steps[k] = "stopped"

(* A call that reads nothing, or asks for nothing that it could read.      *)
BpWriter(steps) ==
    /\ \A k \in DOMAIN steps : steps[k] \in {"putCmd", "put", "stop", "off", "target", "on",
                                             "data", "byte", "drained", "stopped"}
    /\ \A j, k \in DOMAIN steps : steps[j] = "byte" /\ steps[k] = "off" => k < j

BpWriterBus(b, steps, got, gaveUp) ==
    /\ (\E k \in DOMAIN steps : steps[k] = "off") => got = <<>>
    /\ ~gaveUp => BpClean(b) /\ got = <<>>

(* A call that reads: its writes come first, and it takes a byte for each  *)
(* that it asks for.                                                       *)
BpReader(steps) ==
    /\ \A k \in DOMAIN steps : steps[k] \in {"cmd", "token", "ask", "stop", "byte", "check"}
    /\ \A k \in DOMAIN steps : steps[k] = "cmd" => k = 1

(* Bytes read, bytes waiting and the next to be read follow one another.   *)
BpRow(b, got, base) ==
    /\ \A k \in DOMAIN got : got[k] = <<b.tar, base + k>>
    /\ \A k \in DOMAIN b.rx : b.rx[k] = <<b.tar, base + Len(got) + k>>
    /\ b.next[b.tar] = base + Len(got) + Len(b.rx) + 1

(* What was asked for is asked of the target, behind every write; no more  *)
(* comes than the call will take.                                          *)
BpAsked(b) ==
    /\ \A k \in BpOf(b.tx, "read") : b.tx[k].to = b.tar
    /\ \A j \in BpOf(b.tx, "read"), k \in BpOf(b.tx, "write") : k < j

BpComing(b, steps) ==
    Cardinality(BpOf(b.tx, "read")) + Len(b.rx) + Cardinality(BpAt(steps, {"token", "ask"}))
        <= Cardinality(BpAt(steps, {"byte"}))

BpReaderBus(b, steps, got) ==
    /\ \E base \in Int : BpRow(b, got, base)
    /\ BpAsked(b) /\ BpComing(b, steps)
    /\ got # <<>> \/ b.rx # <<>> => BpOf(b.tx, "write") = {}
    /\ (\E k \in DOMAIN steps : steps[k] = "cmd") => BpClean(b) /\ got = <<>>

(* A call of one of the three kinds.                                       *)
BpRunning(call, steps, b, got, gaveUp) ==
    \/ BpDoomed(call, steps)
    \/ BpWriter(steps) /\ BpWriterBus(b, steps, got, gaveUp)
    \/ BpReader(steps) /\ (~gaveUp => BpReaderBus(b, steps, got))

BpRuns == bpSteps # <<>> => BpRunning(bpCall, bpSteps, bpBus, bpGot, bpGaveUp)

(* Between calls, unless one has given up.                                 *)
BpRests == bpSteps = <<>> /\ ~bpGaveUp => BpClean(bpBus)

BpInv == BpTypes /\ BpRuns /\ BpRests /\ BpOwnAnswers

-----------------------------------------------------------------------------
(* What is left of a set of places when the first is gone.                 *)
LEMMA BpFewer ==
    ASSUME NEW n \in Nat, NEW S \in SUBSET (1 .. n), NEW T,
           T = {k \in 1 .. n - 1 : k + 1 \in S}
    PROVE  /\ IsFiniteSet(S) /\ IsFiniteSet(T) /\ Cardinality(S) \in Nat /\ Cardinality(T) \in Nat
           /\ 1 \in S => Cardinality(T) = Cardinality(S) - 1
           /\ 1 \notin S => Cardinality(T) = Cardinality(S)
  <1> DEFINE R == S \ {1}
             f == [k \in T |-> k + 1]
  <1>1. IsFiniteSet(1 .. n)
    BY FS_Interval
  <1>2. IsFiniteSet(S)
    BY <1>1, FS_Subset
  <1>3. /\ IsFiniteSet(R)
        /\ 1 \in S => Cardinality(R) = Cardinality(S) - 1
    BY <1>2, FS_RemoveElement
  <1>4. 1 \notin S => R = S
    OBVIOUS
  <1>5. \A k \in T : k \in Nat /\ k >= 1 /\ k + 1 \in R
    OBVIOUS
  <1>6. \A x \in R : x \in Nat /\ x - 1 \in T /\ (x - 1) + 1 = x
    <2>1. ASSUME NEW x \in R PROVE x \in Nat /\ x - 1 \in T /\ (x - 1) + 1 = x
      <3>1. x \in 1 .. n /\ x # 1 /\ x \in S
        OBVIOUS
      <3>2. x \in Nat /\ x - 1 \in 1 .. n - 1 /\ (x - 1) + 1 = x
        BY <3>1
      <3> QED
        BY <3>1, <3>2
    <2> QED
      BY <2>1
  <1> HIDE DEF R
  <1>7. f \in [T -> R]
    BY <1>5
  <1>8. \A x, y \in T : f[x] = f[y] => x = y
    BY <1>5
  <1>9. \A y \in R : \E x \in T : f[x] = y
    BY <1>6
  <1> HIDE DEF f
  <1>10. IsInjective(f)
    BY <1>7, <1>8 DEF IsInjective
  <1>11. f \in Injection(T, R) /\ f \in Surjection(T, R)
    BY <1>7, <1>9, <1>10 DEF Injection, Surjection
  <1>12. IsFiniteSet(T) /\ Cardinality(T) = Cardinality(R)
    BY <1>3, <1>11, FS_Injection
  <1>13. Cardinality(S) \in Nat /\ Cardinality(T) \in Nat
    BY <1>2, <1>12, FS_CardinalityType
  <1> QED
    BY <1>2, <1>3, <1>4, <1>12, <1>13

(* What is left of a program, and the places of a kind in it.              *)
BpLeft(t, s, m) ==
    /\ t \in Seq(BpMoves) /\ Len(t) = Len(s) - 1 /\ DOMAIN t = 1 .. Len(s) - 1
    /\ Len(s) \in Nat /\ Len(s) >= 1
    /\ Head(s) = s[1] /\ 1 \in DOMAIN s /\ DOMAIN s = 1 .. Len(s)
    /\ \A k \in DOMAIN t : k \in Nat /\ k >= 1 /\ k + 1 \in DOMAIN s /\ t[k] = s[k + 1]
    /\ \A k \in DOMAIN s : k = 1 \/ (k - 1 \in DOMAIN t /\ t[k - 1] = s[k])
    /\ Cardinality(BpAt(s, m)) \in Nat /\ Cardinality(BpAt(t, m)) \in Nat
    /\ Head(s) \in m => Cardinality(BpAt(t, m)) = Cardinality(BpAt(s, m)) - 1
    /\ Head(s) \notin m => Cardinality(BpAt(t, m)) = Cardinality(BpAt(s, m))

(* That is what Tail gives.                                                *)
LEMMA BpTailAt ==
    ASSUME NEW s \in Seq(BpMoves), s # <<>>, NEW m
    PROVE  BpLeft(Tail(s), s, m)
  <1> DEFINE t == Tail(s)
  <1>1. /\ t \in Seq(BpMoves) /\ Len(t) = Len(s) - 1
        /\ \A k \in 1 .. Len(t) : t[k] = s[k + 1]
        /\ Head(s) = s[1]
    BY HeadTailProperties
  <1>2. Len(s) \in Nat /\ Len(s) >= 1 /\ DOMAIN s = 1 .. Len(s)
    BY EmptySeq
  <1> HIDE DEF t
  <1> DEFINE n == Len(s)
             S == BpAt(s, m)
             T == BpAt(t, m)
  <1>3. DOMAIN t = 1 .. n - 1 /\ n \in Nat /\ n >= 1
    BY <1>1, <1>2
  <1> HIDE DEF n
  <1>4. \A k \in 1 .. n - 1 : k \in Nat /\ k >= 1 /\ k + 1 \in 1 .. n
    BY <1>3
  <1>5. \A k \in 1 .. n : k = 1 \/ (k - 1 \in 1 .. n - 1 /\ (k - 1) + 1 = k)
    BY <1>3
  <1>6. \A k \in DOMAIN t : k \in Nat /\ k >= 1 /\ k + 1 \in DOMAIN s /\ t[k] = s[k + 1]
    BY <1>1, <1>2, <1>3, <1>4 DEF n
  <1>7. 1 \in 1 .. n
    BY <1>3
  <1>8. 1 \in DOMAIN s
    BY <1>2, <1>7 DEF n
  <1>9. S \in SUBSET (1 .. n)
    BY <1>2 DEF BpAt, n
  <1>10. T = {k \in 1 .. n - 1 : k + 1 \in S}
    BY <1>3, <1>6 DEF BpAt
  <1>11. 1 \in S <=> Head(s) \in m
    BY <1>1, <1>8 DEF BpAt
  <1> HIDE DEF S, T
  <1>12. /\ Cardinality(S) \in Nat /\ Cardinality(T) \in Nat
         /\ 1 \in S => Cardinality(T) = Cardinality(S) - 1
         /\ 1 \notin S => Cardinality(T) = Cardinality(S)
    BY <1>3, <1>9, <1>10, BpFewer
  <1>13. \A k \in DOMAIN s : k = 1 \/ (k - 1 \in DOMAIN t /\ t[k - 1] = s[k])
    <2>1. ASSUME NEW k \in DOMAIN s, k # 1 PROVE k - 1 \in DOMAIN t /\ t[k - 1] = s[k]
      <3>1. k - 1 \in DOMAIN t /\ (k - 1) + 1 = k
        BY <1>2, <1>3, <1>5, <2>1 DEF n
      <3> QED
        BY <1>6, <3>1
    <2> QED
      BY <2>1
  <1>14. BpLeft(t, s, m)
    BY <1>1, <1>2, <1>3, <1>6, <1>8, <1>11, <1>12, <1>13 DEF S, T, n, BpLeft
  <1> QED
    BY <1>14 DEF t

(* What is left of the FIFO, and the places of a kind in it.               *)
BpLess(t, s, kind) ==
    /\ Head(s) \in BpCommands /\ Head(s) = s[1] /\ 1 \in DOMAIN s
    /\ \A k \in DOMAIN s : k \in Nat /\ k >= 1
    /\ \A k \in DOMAIN t : k \in Nat /\ k >= 1 /\ k + 1 \in DOMAIN s /\ t[k] = s[k + 1]
    /\ \A k \in BpOf(t, kind) : k + 1 \in BpOf(s, kind)
    /\ (1 \in BpOf(s, kind) <=> Head(s).do = kind)
    /\ Cardinality(BpOf(s, kind)) \in Nat /\ Cardinality(BpOf(t, kind)) \in Nat
    /\ Head(s).do = kind => Cardinality(BpOf(t, kind)) = Cardinality(BpOf(s, kind)) - 1
    /\ Head(s).do # kind => Cardinality(BpOf(t, kind)) = Cardinality(BpOf(s, kind))

(* That is what Tail gives.                                                *)
LEMMA BpTailOf ==
    ASSUME NEW s \in Seq(BpCommands), s # <<>>, NEW kind
    PROVE  BpLess(Tail(s), s, kind)
  <1> DEFINE t == Tail(s)
  <1>1. /\ t \in Seq(BpCommands) /\ Len(t) = Len(s) - 1
        /\ \A k \in 1 .. Len(t) : t[k] = s[k + 1]
        /\ Head(s) = s[1] /\ Head(s) \in BpCommands
    BY HeadTailProperties
  <1>2. Len(s) \in Nat /\ Len(s) >= 1 /\ DOMAIN s = 1 .. Len(s)
    BY EmptySeq
  <1> HIDE DEF t
  <1> DEFINE n == Len(s)
             S == BpOf(s, kind)
             T == BpOf(t, kind)
  <1>3. DOMAIN t = 1 .. n - 1 /\ n \in Nat /\ n >= 1
    BY <1>1, <1>2
  <1> HIDE DEF n
  <1>4. \A k \in 1 .. n - 1 : k \in Nat /\ k >= 1 /\ k + 1 \in 1 .. n
    BY <1>3
  <1>5. \A k \in 1 .. n : k \in Nat /\ k >= 1
    BY <1>3
  <1>6. \A k \in DOMAIN t : k \in Nat /\ k >= 1 /\ k + 1 \in DOMAIN s /\ t[k] = s[k + 1]
    BY <1>1, <1>2, <1>3, <1>4 DEF n
  <1>7. 1 \in 1 .. n
    BY <1>3
  <1>8. 1 \in DOMAIN s /\ \A k \in DOMAIN s : k \in Nat /\ k >= 1
    BY <1>2, <1>5, <1>7 DEF n
  <1>9. S \in SUBSET (1 .. n)
    BY <1>2 DEF BpOf, n
  <1>10. T = {k \in 1 .. n - 1 : k + 1 \in S}
    BY <1>3, <1>6 DEF BpOf
  <1>11. (1 \in S <=> Head(s).do = kind)
    BY <1>1, <1>8 DEF BpOf
  <1>12. \A k \in T : k + 1 \in S
    BY <1>10
  <1> HIDE DEF S, T
  <1>13. /\ Cardinality(S) \in Nat /\ Cardinality(T) \in Nat
         /\ 1 \in S => Cardinality(T) = Cardinality(S) - 1
         /\ 1 \notin S => Cardinality(T) = Cardinality(S)
    BY <1>3, <1>9, <1>10, BpFewer
  <1>14. BpLess(t, s, kind)
    BY <1>1, <1>6, <1>8, <1>11, <1>12, <1>13 DEF S, T, BpLess
  <1> QED
    BY <1>14 DEF t

(* The FIFO with one command more, and the places of a kind in it.         *)
BpMore(t, s, c, kind) ==
    /\ t \in Seq(BpCommands) /\ Len(s) \in Nat /\ DOMAIN s = 1 .. Len(s)
    /\ \A k \in DOMAIN s : k < Len(s) + 1 /\ k \in DOMAIN t /\ t[k] = s[k]
    /\ t[Len(s) + 1] = c
    /\ c.do = kind => BpOf(t, kind) = BpOf(s, kind) \cup {Len(s) + 1}
    /\ c.do # kind => BpOf(t, kind) = BpOf(s, kind)
    /\ Cardinality(BpOf(s, kind)) \in Nat
    /\ c.do = kind => Cardinality(BpOf(t, kind)) = Cardinality(BpOf(s, kind)) + 1

(* That is what Append gives.                                              *)
LEMMA BpMoreOf ==
    ASSUME NEW s \in Seq(BpCommands), NEW c \in BpCommands, NEW kind
    PROVE  BpMore(Append(s, c), s, c, kind)
  <1> DEFINE t == Append(s, c)
  <1> DEFINE n == Len(s)
  <1>1. /\ t \in Seq(BpCommands) /\ Len(t) = n + 1 /\ t[n + 1] = c
        /\ \A k \in 1 .. n : t[k] = s[k]
    BY AppendProperties
  <1>2. n \in Nat /\ DOMAIN s = 1 .. n /\ DOMAIN t = 1 .. n + 1
    BY <1>1
  <1> HIDE DEF n, t
  <1>3. /\ \A k \in 1 .. n : k < n + 1 /\ k \in 1 .. n + 1
        /\ \A k \in 1 .. n + 1 : k \in 1 .. n \/ k = n + 1
        /\ n + 1 \in 1 .. n + 1 /\ n + 1 \notin 1 .. n
    BY <1>2
  <1>4. /\ \A k \in DOMAIN s : k < n + 1 /\ k \in DOMAIN t /\ t[k] = s[k]
        /\ \A k \in DOMAIN t : (k \in DOMAIN s /\ t[k] = s[k]) \/ (k = n + 1 /\ t[k] = c)
        /\ n + 1 \in DOMAIN t /\ n + 1 \notin DOMAIN s
    BY <1>1, <1>2, <1>3
  <1>5. c.do = kind => BpOf(t, kind) = BpOf(s, kind) \cup {n + 1}
    BY <1>1, <1>4 DEF BpOf
  <1>6. c.do # kind => BpOf(t, kind) = BpOf(s, kind)
    BY <1>4 DEF BpOf
  <1>7. IsFiniteSet(BpOf(s, kind)) /\ Cardinality(BpOf(s, kind)) \in Nat
    <2>1. IsFiniteSet(1 .. n)
      BY <1>2, FS_Interval
    <2>2. BpOf(s, kind) \in SUBSET (1 .. n)
      BY <1>2 DEF BpOf
    <2>3. IsFiniteSet(BpOf(s, kind))
      BY <2>1, <2>2, FS_Subset
    <2> QED
      BY <2>3, FS_CardinalityType
  <1>8. n + 1 \notin BpOf(s, kind)
    BY <1>4 DEF BpOf
  <1>9. Cardinality(BpOf(s, kind) \cup {n + 1}) = Cardinality(BpOf(s, kind)) + 1
    BY <1>7, <1>8, FS_AddElement
  <1>10. BpMore(t, s, c, kind)
    BY <1>1, <1>2, <1>4, <1>5, <1>6, <1>7, <1>9 DEF n, BpMore
  <1> QED
    BY <1>10 DEF t

-----------------------------------------------------------------------------
(* A command is put behind the others; a disabled controller takes none.   *)
BpPut(c, b, kind) ==
    /\ c \in BpBuses /\ c.tar = b.tar /\ c.rx = b.rx /\ c.next = b.next
    /\ c.tx = b.tx \/ \E x \in BpCommands : /\ x.to = b.tar /\ x.do = kind
                                            /\ c.tx = Append(b.tx, x)

(* DwCommand does that, on an enabled controller.                          *)
LEMMA BpPutBus ==
    ASSUME NEW b \in BpBuses, b.tar \in BpAddresses, NEW reg \in {0, 1},
           NEW kind \in {"write", "data", "read", "stop"}
    PROVE  BpPut(DwCommand(b, kind, reg), b, kind)
  <1> DEFINE x == [to |-> b.tar, do |-> kind, reg |-> reg]
             one == [k \in 1 .. 1 |-> x]
             t == b.tx \o one
             c == DwCommand(b, kind, reg)
             d == [b EXCEPT !.tx = t]
  <1>1. CASE ~b.on
    BY <1>1 DEF DwCommand, DwCommands, BpPut
  <1>2. CASE b.on
    <2>1. c = d
      BY <1>2 DEF DwCommand, DwCommands
    <2>2. x \in BpCommands /\ x.to = b.tar /\ x.do = kind
      BY DEF BpCommands
    <2>3. b.tx \in Seq(BpCommands)
      BY DEF BpBuses
    <2>4. one = <<x>>
      OBVIOUS
    <2>5. t = Append(b.tx, x)
      BY <2>2, <2>3, <2>4, AppendIsConcat
    <2> HIDE DEF x, t
    <2>6. t \in Seq(BpCommands)
      BY <2>2, <2>3, <2>5, AppendProperties
    <2>7. d \in BpBuses /\ d.tar = b.tar /\ d.rx = b.rx /\ d.next = b.next /\ d.tx = t
      BY <2>6 DEF BpBuses
    <2> HIDE DEF c, d
    <2>8. BpPut(c, b, kind)
      BY <2>1, <2>2, <2>5, <2>7 DEF BpPut
    <2> QED
      BY <2>8 DEF c
  <1> QED
    BY <1>1, <1>2 DEF BpBuses

(* A command is dropped with all others, or served.                        *)
BpServed(c, b) ==
    /\ c \in BpBuses /\ c.tar = b.tar
    /\ \/ c.tx = <<>> /\ c.rx = b.rx /\ c.next = b.next
       \/ /\ c.tx = Tail(b.tx)
          /\ \/ /\ Head(b.tx).do = "write" /\ c.rx = b.rx
                /\ c.next = [b.next EXCEPT ![Head(b.tx).to] = Head(b.tx).reg]
             \/ /\ Head(b.tx).do = "read"
                /\ c.rx = Append(b.rx, <<Head(b.tx).to, b.next[Head(b.tx).to]>>)
                /\ c.next = [b.next EXCEPT ![Head(b.tx).to] = b.next[Head(b.tx).to] + 1]
             \/ Head(b.tx).do \in {"data", "stop"} /\ c.rx = b.rx /\ c.next = b.next

(* DwServe does that.                                                      *)
LEMMA BpServeBus ==
    ASSUME NEW b \in BpBuses, b.tx # <<>>
    PROVE  BpServed(DwServe(b, BpPresent), b)
  <1> DEFINE head == Head(b.tx)
             raw == IF Len(b.tx) = 1 THEN b.raw \cup {"stop"} ELSE b.raw
             rest == [b EXCEPT !.tx = Tail(b.tx), !.raw = raw]
  <1>1. /\ b.tx \in Seq(BpCommands) /\ b.rx \in Seq(BpBytes) /\ b.tar \in Nat
        /\ b.next \in [BpAddresses -> Nat] /\ b.raw \subseteq {"stop", "abort"}
    BY DEF BpBuses
  <1>2. head \in BpCommands /\ Tail(b.tx) \in Seq(BpCommands) /\ <<>> \in Seq(BpCommands)
    BY <1>1
  <1>3. /\ head.to \in BpAddresses /\ head.do \in {"write", "data", "read", "stop"}
        /\ head.reg \in Nat
    BY <1>2 DEF BpCommands
  <1>4. /\ rest \in BpBuses /\ rest.rx = b.rx /\ rest.next = b.next /\ rest.tx = Tail(b.tx)
        /\ rest.raw = raw /\ rest.tar = b.tar /\ raw \subseteq {"stop", "abort"}
    BY <1>1, <1>2 DEF BpBuses
  <1>5. CASE "abort" \in b.raw
    <2> DEFINE c == [b EXCEPT !.tx = <<>>]
    <2>1. DwServe(b, BpPresent) = c
      BY <1>5 DEF DwServe
    <2>2. c \in BpBuses /\ c.tx = <<>> /\ c.rx = b.rx /\ c.next = b.next /\ c.tar = b.tar
      BY <1>2 DEF BpBuses
    <2> HIDE DEF c
    <2> QED
      BY <2>1, <2>2 DEF BpServed
  <1>6. CASE "abort" \notin b.raw /\ head.to \notin BpPresent
    <2> DEFINE c == [b EXCEPT !.tx = <<>>, !.raw = b.raw \cup {"abort"}]
    <2>1. DwServe(b, BpPresent) = c
      BY <1>6 DEF DwServe
    <2>2. c \in BpBuses /\ c.tx = <<>> /\ c.rx = b.rx /\ c.next = b.next /\ c.tar = b.tar
      BY <1>1, <1>2 DEF BpBuses
    <2> HIDE DEF c
    <2> QED
      BY <2>1, <2>2 DEF BpServed
  <1>7. CASE "abort" \notin b.raw /\ head.to \in BpPresent
    <2>1. DwServe(b, BpPresent) =
             CASE head.do = "write" -> [rest EXCEPT !.next[head.to] = head.reg]
               [] head.do = "read" -> [rest EXCEPT !.rx = Append(@, <<head.to, b.next[head.to]>>),
                                                   !.next[head.to] = @ + 1]
               [] head.do = "data" -> rest
               [] head.do = "stop" -> [rest EXCEPT !.raw = @ \cup {"stop"}]
      BY <1>3, <1>7 DEF DwServe
    <2> HIDE DEF rest, raw, head
    <2>2. CASE head.do = "write"
      <3> DEFINE n == [b.next EXCEPT ![head.to] = head.reg]
                 c == [rest EXCEPT !.next = n]
      <3>1. DwServe(b, BpPresent) = c
        BY <2>1, <2>2, <1>3, <1>4
      <3>2. n \in [BpAddresses -> Nat]
        BY <1>1, <1>3
      <3> HIDE DEF n
      <3>3. c \in BpBuses /\ c.tx = Tail(b.tx) /\ c.rx = b.rx /\ c.next = n /\ c.tar = b.tar
        BY <1>4, <3>2 DEF BpBuses
      <3> HIDE DEF c
      <3> QED
        BY <3>1, <3>3, <2>2 DEF head, n, BpServed
    <2>3. CASE head.do = "read"
      <3> DEFINE item == <<head.to, b.next[head.to]>>
                 r == Append(b.rx, item)
                 n == [b.next EXCEPT ![head.to] = b.next[head.to] + 1]
                 c == [rest EXCEPT !.rx = r, !.next = n]
      <3>1. DwServe(b, BpPresent) = c
        BY <2>1, <2>3, <1>3, <1>4
      <3>2. item \in BpBytes
        BY <1>1, <1>3 DEF BpBytes
      <3>3. n \in [BpAddresses -> Nat]
        BY <1>1, <1>3
      <3> HIDE DEF item
      <3>4. r \in Seq(BpBytes)
        BY <1>1, <3>2, AppendProperties
      <3> HIDE DEF n, r
      <3>5. c \in BpBuses /\ c.tx = Tail(b.tx) /\ c.rx = r /\ c.next = n /\ c.tar = b.tar
        BY <1>4, <3>3, <3>4 DEF BpBuses
      <3> HIDE DEF c
      <3> QED
        BY <3>1, <3>5, <2>3 DEF head, n, r, item, BpServed
    <2>4. CASE head.do = "data"
      <3>1. DwServe(b, BpPresent) = rest
        BY <2>1, <2>4
      <3> QED
        BY <3>1, <1>4, <2>4 DEF head, BpServed
    <2>5. CASE head.do = "stop"
      <3> DEFINE c == [rest EXCEPT !.raw = rest.raw \cup {"stop"}]
      <3>1. DwServe(b, BpPresent) = c
        BY <2>1, <2>5
      <3>2. rest.raw \cup {"stop"} \subseteq {"stop", "abort"}
        BY <1>4
      <3>3. c \in BpBuses /\ c.tx = Tail(b.tx) /\ c.rx = b.rx /\ c.next = b.next /\ c.tar = b.tar
        BY <1>4, <3>2 DEF BpBuses
      <3> HIDE DEF c
      <3> QED
        BY <3>1, <3>3, <2>5 DEF head, BpServed
    <2> QED
      BY <2>2, <2>3, <2>4, <2>5, <1>3
  <1> QED
    BY <1>5, <1>6, <1>7

(* A byte is taken off the head of the receive FIFO.                       *)
LEMMA BpReadBus ==
    ASSUME NEW b \in BpBuses, b.rx # <<>>, NEW c, c = DwReadRxByte(b).bus
    PROVE  /\ DwReadRxByte(b).byte = Head(b.rx) /\ c \in BpBuses /\ c.rx = Tail(b.rx)
           /\ c.tx = b.tx /\ c.tar = b.tar /\ c.next = b.next
           /\ Head(b.rx) \in BpBytes
  <1>1. b.rx \in Seq(BpBytes)
    BY DEF BpBuses
  <1>2. Tail(b.rx) \in Seq(BpBytes) /\ Head(b.rx) \in BpBytes
    BY <1>1
  <1>3. DwReadRxByte(b) = [byte |-> Head(b.rx), bus |-> [b EXCEPT !.rx = Tail(b.rx)]]
    BY DEF DwReadRxByte
  <1> DEFINE d == [b EXCEPT !.rx = Tail(b.rx)]
  <1>4. d \in BpBuses /\ d.rx = Tail(b.rx) /\ d.tx = b.tx /\ d.tar = b.tar /\ d.next = b.next
    BY <1>2 DEF BpBuses
  <1>5. DwReadRxByte(b).byte = Head(b.rx) /\ DwReadRxByte(b).bus = d
    BY <1>3
  <1> QED
    BY <1>2, <1>4, <1>5

(* Disabling the controller empties the FIFOs; the rest leaves them alone. *)
LEMMA BpSwitchBus ==
    ASSUME NEW b \in BpBuses
    PROVE  /\ DwEnable(b, FALSE) \in BpBuses /\ DwEnable(b, FALSE).tx = <<>>
           /\ DwEnable(b, FALSE).rx = <<>> /\ DwEnable(b, FALSE).tar = b.tar
           /\ DwEnable(b, TRUE) \in BpBuses /\ DwEnable(b, TRUE).tx = b.tx
           /\ DwEnable(b, TRUE).rx = b.rx /\ DwEnable(b, TRUE).tar = b.tar
           /\ DwEnable(b, TRUE).next = b.next
           /\ DwAckInterrupts(b) \in BpBuses /\ DwAckInterrupts(b).tx = b.tx
           /\ DwAckInterrupts(b).rx = b.rx /\ DwAckInterrupts(b).tar = b.tar
           /\ DwAckInterrupts(b).next = b.next
  <1>0. <<>> \in Seq(BpCommands) /\ <<>> \in Seq(BpBytes) /\ FALSE \in BOOLEAN /\ TRUE \in BOOLEAN
    OBVIOUS
  <1>1. /\ DwEnable(b, FALSE) \in BpBuses /\ DwEnable(b, FALSE).tx = <<>>
        /\ DwEnable(b, FALSE).rx = <<>> /\ DwEnable(b, FALSE).tar = b.tar
    BY <1>0 DEF DwEnable, BpBuses
  <1>2. /\ DwEnable(b, TRUE) \in BpBuses /\ DwEnable(b, TRUE).tx = b.tx
        /\ DwEnable(b, TRUE).rx = b.rx /\ DwEnable(b, TRUE).tar = b.tar
        /\ DwEnable(b, TRUE).next = b.next
    BY <1>0 DEF DwEnable, BpBuses
  <1>3. /\ DwAckInterrupts(b) \in BpBuses /\ DwAckInterrupts(b).tx = b.tx
        /\ DwAckInterrupts(b).rx = b.rx /\ DwAckInterrupts(b).tar = b.tar
        /\ DwAckInterrupts(b).next = b.next
    BY DEF DwAckInterrupts, BpBuses
  <1> QED
    BY <1>1, <1>2, <1>3

(* No FIFO that is clean becomes less so, unless a read is put in it.      *)
LEMMA BpServeClean ==
    ASSUME NEW b \in BpBuses, b.tx # <<>>, NEW c, BpServed(c, b), BpClean(b)
    PROVE  BpClean(c)
  <1> DEFINE t == Tail(b.tx)
  <1>1. b.tx \in Seq(BpCommands)
    BY DEF BpBuses
  <1>2. /\ \A k \in BpOf(t, "read") : k + 1 \in BpOf(b.tx, "read")
        /\ (1 \in BpOf(b.tx, "read") <=> Head(b.tx).do = "read")
    BY <1>1, BpTailOf DEF BpLess
  <1>3. BpOf(<<>>, "read") = {}
    BY DEF BpOf
  <1> QED
    BY <1>2, <1>3 DEF BpServed, BpClean

(* Nor when another command is put in it.                                  *)
LEMMA BpPutClean ==
    ASSUME NEW b \in BpBuses, NEW c, NEW kind, kind # "read", BpPut(c, b, kind), BpClean(b)
    PROVE  BpClean(c)
  <1>1. b.tx \in Seq(BpCommands)
    BY DEF BpBuses
  <1>2. CASE c.tx = b.tx
    BY <1>2 DEF BpPut, BpClean
  <1>3. CASE \E x \in BpCommands : x.do = kind /\ c.tx = Append(b.tx, x)
    <2>1. PICK x \in BpCommands : x.do = kind /\ c.tx = Append(b.tx, x)
      BY <1>3
    <2>2. BpMore(c.tx, b.tx, x, "read")
      BY <1>1, <2>1, BpMoreOf
    <2>3. BpOf(c.tx, "read") = BpOf(b.tx, "read")
      BY <2>1, <2>2 DEF BpMore
    <2> QED
      BY <2>3 DEF BpPut, BpClean
  <1> QED
    BY <1>2, <1>3 DEF BpPut

-----------------------------------------------------------------------------
(* Commands and moves of a kind can be counted.                            *)
LEMMA BpCounted ==
    ASSUME NEW s \in Seq(BpMoves), NEW x \in Seq(BpCommands), NEW m, NEW kind
    PROVE  /\ Cardinality(BpAt(s, m)) \in Nat
           /\ IsFiniteSet(BpOf(x, kind)) /\ Cardinality(BpOf(x, kind)) \in Nat
  <1>1. /\ DOMAIN s = 1 .. Len(s) /\ Len(s) \in Nat
        /\ DOMAIN x = 1 .. Len(x) /\ Len(x) \in Nat
    OBVIOUS
  <1>2. IsFiniteSet(DOMAIN s) /\ IsFiniteSet(DOMAIN x)
    BY <1>1, FS_Interval
  <1>3. BpAt(s, m) \in SUBSET DOMAIN s /\ BpOf(x, kind) \in SUBSET DOMAIN x
    BY DEF BpAt, BpOf
  <1>4. IsFiniteSet(BpAt(s, m)) /\ IsFiniteSet(BpOf(x, kind))
    BY <1>2, <1>3, FS_Subset
  <1> QED
    BY <1>4, FS_CardinalityType

(* An empty FIFO has no commands of a kind, and a finished program no      *)
(* moves.                                                                  *)
LEMMA BpNothing ==
    ASSUME NEW kind, NEW m
    PROVE  /\ BpOf(<<>>, kind) = {} /\ BpAt(<<>>, m) = {}
           /\ Cardinality(BpOf(<<>>, kind)) = 0 /\ Cardinality(BpAt(<<>>, m)) = 0
  <1>1. BpOf(<<>>, kind) = {} /\ BpAt(<<>>, m) = {}
    BY DEF BpOf, BpAt
  <1> QED
    BY <1>1, FS_EmptySet

(* What is asked stays in its order when the head of the FIFO is gone.     *)
LEMMA BpAskedTail ==
    ASSUME NEW b \in BpBuses, b.tx # <<>>, BpAsked(b), NEW c, c.tx = Tail(b.tx), c.tar = b.tar
    PROVE  /\ BpAsked(c)
           /\ Head(b.tx).do = "read" => Head(b.tx).to = b.tar /\ BpOf(c.tx, "write") = {}
           /\ BpOf(b.tx, "write") = {} => BpOf(c.tx, "write") = {}
           /\ Head(b.tx).do = "write" => BpOf(b.tx, "write") # {}
  <1> DEFINE t == Tail(b.tx)
  <1>1. b.tx \in Seq(BpCommands)
    BY DEF BpBuses
  <1>2. /\ Head(b.tx) = b.tx[1]
        /\ \A k \in DOMAIN b.tx : k \in Nat /\ k >= 1
        /\ \A k \in DOMAIN t : k \in Nat /\ k >= 1 /\ k + 1 \in DOMAIN b.tx /\ t[k] = b.tx[k + 1]
        /\ \A k \in BpOf(t, "read") : k + 1 \in BpOf(b.tx, "read")
        /\ (1 \in BpOf(b.tx, "read") <=> Head(b.tx).do = "read")
    BY <1>1, BpTailOf DEF BpLess
  <1>3. /\ \A k \in BpOf(t, "write") : k + 1 \in BpOf(b.tx, "write")
        /\ (1 \in BpOf(b.tx, "write") <=> Head(b.tx).do = "write")
    BY <1>1, BpTailOf DEF BpLess
  <1> HIDE DEF t
  <1>4. \A k \in BpOf(t, "read") : t[k].to = b.tar
    <2>1. ASSUME NEW k \in BpOf(t, "read") PROVE t[k].to = b.tar
      <3>1. k \in DOMAIN t /\ k + 1 \in BpOf(b.tx, "read")
        BY <1>2 DEF BpOf
      <3>2. b.tx[k + 1].to = b.tar
        BY <3>1 DEF BpAsked
      <3> QED
        BY <1>2, <3>1, <3>2
    <2> QED
      BY <2>1
  <1>5. ASSUME NEW j \in BpOf(t, "read"), NEW k \in BpOf(t, "write") PROVE k < j
    <2>1. k + 1 < j + 1
      BY <1>2, <1>3 DEF BpAsked
    <2>2. j \in Nat /\ k \in Nat
      BY <1>2 DEF BpOf
    <2> QED
      BY <2>1, <2>2
  <1>6. BpAsked(c)
    BY <1>4, <1>5 DEF BpAsked, t
  <1>7. ASSUME Head(b.tx).do = "read" PROVE Head(b.tx).to = b.tar /\ BpOf(t, "write") = {}
    <2>1. 1 \in BpOf(b.tx, "read")
      BY <1>2, <1>7
    <2>2. Head(b.tx).to = b.tar
      BY <1>2, <2>1 DEF BpAsked
    <2>3. ASSUME NEW k \in BpOf(t, "write") PROVE FALSE
      <3>1. k + 1 < 1
        BY <1>3, <2>1 DEF BpAsked
      <3>2. k \in Nat
        BY <1>2 DEF BpOf
      <3> QED
        BY <3>1, <3>2
    <2> QED
      BY <2>2, <2>3
  <1>8. BpOf(b.tx, "write") = {} => BpOf(t, "write") = {}
    BY <1>3
  <1>9. Head(b.tx).do = "write" => BpOf(b.tx, "write") # {}
    BY <1>3
  <1> QED
    BY <1>6, <1>7, <1>8, <1>9 DEF t

(* Serving a command keeps what a reader knows of the bus.                 *)
LEMMA BpServeReader ==
    ASSUME NEW b \in BpBuses, b.tx # <<>>, b.tar \in BpAddresses, NEW c, BpServed(c, b),
           NEW s \in Seq(BpMoves), NEW got \in Seq(BpBytes), BpReaderBus(b, s, got)
    PROVE  BpReaderBus(c, s, got)
  <1> DEFINE head == Head(b.tx)
             t == Tail(b.tx)
             asks == Cardinality(BpAt(s, {"token", "ask"}))
             takes == Cardinality(BpAt(s, {"byte"}))
             reads == Cardinality(BpOf(b.tx, "read"))
             lg == Len(got)
             lr == Len(b.rx)
  <1>1. /\ b.tx \in Seq(BpCommands) /\ b.rx \in Seq(BpBytes) /\ b.next \in [BpAddresses -> Nat]
        /\ c.tar = b.tar
    BY DEF BpBuses, BpServed
  <1>2. /\ asks \in Nat /\ takes \in Nat /\ reads \in Nat /\ lg \in Nat /\ lr \in Nat
    <2>1. \A m : Cardinality(BpAt(s, m)) \in Nat
      BY <1>1, BpCounted, Zenon
    <2>2. Cardinality(BpOf(b.tx, "read")) \in Nat
      BY <1>1, BpCounted, Zenon
    <2>3. lg \in Nat /\ lr \in Nat
      BY <1>1
    <2> QED
      BY <2>1, <2>2, <2>3
  <1>3. reads + lr + asks <= takes
    BY DEF BpReaderBus, BpComing
  <1>4. PICK base \in Int : BpRow(b, got, base)
    BY DEF BpReaderBus
  <1>5. (\E k \in DOMAIN s : s[k] = "cmd") => BpClean(c) /\ got = <<>>
    BY BpServeClean DEF BpReaderBus
  <1>6. BpAsked(b) /\ (got # <<>> \/ b.rx # <<>> => BpOf(b.tx, "write") = {})
    BY DEF BpReaderBus
  <1> HIDE DEF asks, takes, reads, lg, lr
  <1>7. CASE c.tx = <<>> /\ c.rx = b.rx /\ c.next = b.next
    <2>1. /\ BpOf(c.tx, "read") = {} /\ BpOf(c.tx, "write") = {}
          /\ Cardinality(BpOf(c.tx, "read")) = 0
      BY <1>7, BpNothing
    <2>2. BpRow(c, got, base)
      BY <1>1, <1>4, <1>7 DEF BpRow
    <2>3. BpAsked(c)
      BY <2>1 DEF BpAsked
    <2>4. BpComing(c, s)
      <3>1. 0 + lr + asks <= takes
        BY <1>2, <1>3
      <3> QED
        BY <1>7, <2>1, <3>1 DEF BpComing, lr, asks, takes
    <2> QED
      BY <1>5, <2>1, <2>2, <2>3, <2>4 DEF BpReaderBus
  <1>8. CASE c.tx = t
    <2>1. /\ BpAsked(c)
          /\ head.do = "read" => head.to = b.tar /\ BpOf(c.tx, "write") = {}
          /\ BpOf(b.tx, "write") = {} => BpOf(c.tx, "write") = {}
          /\ head.do = "write" => BpOf(b.tx, "write") # {}
      BY <1>1, <1>6, <1>8, BpAskedTail
    <2>2. /\ head.do = "read" => Cardinality(BpOf(t, "read")) = reads - 1
          /\ head.do # "read" => Cardinality(BpOf(t, "read")) = reads
          /\ head \in BpCommands
      <3>1. BpLess(t, b.tx, "read")
        BY <1>1, BpTailOf
      <3> QED
        BY <3>1 DEF BpLess, reads
    <2> HIDE DEF head, t
    <2>3. CASE head.do # "read" /\ c.rx = b.rx
      <3>1. BpComing(c, s)
        BY <1>3, <1>8, <2>2, <2>3 DEF BpComing, reads, lr, asks, takes
      <3>2. got # <<>> \/ c.rx # <<>> => BpOf(c.tx, "write") = {}
        BY <1>6, <2>1, <2>3
      <3>3. CASE c.next[b.tar] = b.next[b.tar]
        <4>1. BpRow(c, got, base)
          BY <1>1, <1>4, <2>3, <3>3 DEF BpRow
        <4> QED
          BY <1>5, <2>1, <3>1, <3>2, <4>1 DEF BpReaderBus
      <3>4. CASE head.do = "write" /\ c.next[b.tar] # b.next[b.tar]
        <4>1. got = <<>> /\ c.rx = <<>>
          BY <1>6, <2>1, <2>3, <3>4
        <4>2. c.next[b.tar] \in Nat
          <5>1. c \in BpBuses
            BY DEF BpServed
          <5> QED
            BY <5>1 DEF BpBuses
        <4> DEFINE n == c.next[b.tar]
                   first == n - 1
        <4>3. first \in Int /\ n = first + 0 + 0 + 1
          BY <4>2
        <4>4. BpRow(c, got, first)
          BY <1>1, <4>1, <4>3 DEF BpRow
        <4> HIDE DEF first
        <4> QED
          BY <1>5, <2>1, <3>1, <3>2, <4>3, <4>4 DEF BpReaderBus
      <3>5. head.do = "write" \/ c.next[b.tar] = b.next[b.tar]
        BY <1>8, <2>3 DEF BpServed, head
      <3> QED
        BY <3>3, <3>4, <3>5
    <2>4. CASE /\ head.do = "read" /\ c.rx = Append(b.rx, <<head.to, b.next[head.to]>>)
               /\ c.next = [b.next EXCEPT ![head.to] = b.next[head.to] + 1]
      <3> DEFINE n == b.next[b.tar]
                 item == <<b.tar, n>>
      <3>1. head.to = b.tar /\ c.rx = Append(b.rx, item) /\ c.next[b.tar] = n + 1
        BY <1>1, <2>1, <2>4
      <3>2. n = base + lg + lr + 1 /\ n \in Nat
        BY <1>1, <1>4 DEF BpRow, lg, lr
      <3>3. item \in BpBytes
        BY <3>2 DEF BpBytes
      <3> HIDE DEF n, item
      <3>4. /\ Len(c.rx) = lr + 1 /\ c.rx[lr + 1] = item /\ c.rx \in Seq(BpBytes)
            /\ \A k \in 1 .. lr : c.rx[k] = b.rx[k]
        BY <1>1, <3>1, <3>3, AppendProperties DEF lr
      <3>5. BpRow(c, got, base)
        <4>1. c.next[c.tar] = base + lg + Len(c.rx) + 1
          BY <1>1, <1>2, <3>1, <3>2, <3>4
        <4>2. ASSUME NEW k \in DOMAIN c.rx PROVE c.rx[k] = <<c.tar, base + lg + k>>
          <5>1. k \in 1 .. lr + 1
            BY <3>4
          <5>2. CASE k \in 1 .. lr
            <6>1. b.rx[k] = <<b.tar, base + lg + k>>
              BY <1>1, <1>4, <5>2 DEF BpRow, lg, lr
            <6> QED
              BY <1>1, <3>4, <5>2, <6>1
          <5>3. CASE k = lr + 1
            <6>1. n = base + lg + k
              BY <1>2, <3>2, <5>3
            <6> QED
              BY <1>1, <3>4, <5>3, <6>1 DEF item
          <5> QED
            BY <1>2, <5>1, <5>2, <5>3
        <4> QED
          BY <1>1, <1>4, <4>1, <4>2 DEF BpRow, lg
      <3>6. BpComing(c, s)
        <4>1. (reads - 1) + (lr + 1) + asks <= takes
          BY <1>2, <1>3
        <4> QED
          BY <1>8, <2>2, <2>4, <3>4, <4>1 DEF BpComing, asks, takes
      <3> QED
        BY <1>5, <2>1, <2>4, <3>5, <3>6 DEF BpReaderBus
    <2>5. \/ head.do # "read" /\ c.rx = b.rx
          \/ /\ head.do = "read" /\ c.rx = Append(b.rx, <<head.to, b.next[head.to]>>)
             /\ c.next = [b.next EXCEPT ![head.to] = b.next[head.to] + 1]
          \/ c.tx = <<>> /\ c.rx = b.rx /\ c.next = b.next
      BY DEF BpServed, head
    <2> QED
      BY <1>7, <2>3, <2>4, <2>5
  <1> QED
    BY <1>7, <1>8 DEF BpServed

-----------------------------------------------------------------------------
(* A move is made: the writes of a reader are its first.                   *)
LEMMA BpMoved ==
    ASSUME NEW s \in Seq(BpMoves), s # <<>>, BpReader(s), NEW t, t = Tail(s)
    PROVE  /\ BpReader(t) /\ Head(s) \in {"cmd", "token", "ask", "stop", "byte", "check"}
           /\ ~\E k \in DOMAIN t : t[k] = "cmd"
           /\ Head(s) = "cmd" => \E k \in DOMAIN s : s[k] = "cmd"
  <1>1. BpLeft(t, s, {})
    BY BpTailAt
  <1>2. /\ \A k \in DOMAIN t : k \in Nat /\ k >= 1 /\ k + 1 \in DOMAIN s /\ t[k] = s[k + 1]
        /\ Head(s) = s[1] /\ 1 \in DOMAIN s
    BY <1>1 DEF BpLeft
  <1>3. \A k \in DOMAIN t : k + 1 # 1
    BY <1>2
  <1>4. \A k \in DOMAIN t : t[k] # "cmd"
    BY <1>2, <1>3 DEF BpReader
  <1>5. \A k \in DOMAIN t : t[k] \in {"cmd", "token", "ask", "stop", "byte", "check"}
    BY <1>2 DEF BpReader
  <1>6. Head(s) \in {"cmd", "token", "ask", "stop", "byte", "check"}
    BY <1>2 DEF BpReader
  <1> QED
    BY <1>2, <1>4, <1>5, <1>6 DEF BpReader

(* Moves that put a command in the FIFO.                                   *)
LEMMA BpPutReader ==
    ASSUME NEW b \in BpBuses, NEW c, NEW kind, BpPut(c, b, kind),
           NEW s \in Seq(BpMoves), s # <<>>, BpReader(s), NEW got, BpReaderBus(b, s, got),
           \/ kind = "write" /\ Head(s) = "cmd"
           \/ kind = "read" /\ Head(s) \in {"token", "ask"}
           \/ kind = "stop" /\ Head(s) = "stop"
    PROVE  BpReaderBus(c, Tail(s), got)
  <1> DEFINE t == Tail(s)
             asks == Cardinality(BpAt(s, {"token", "ask"}))
             takes == Cardinality(BpAt(s, {"byte"}))
             reads == Cardinality(BpOf(b.tx, "read"))
             n == Len(b.tx)
             lr == Len(b.rx)
  <1>1. BpLeft(t, s, {"token", "ask"}) /\ BpLeft(t, s, {"byte"})
    BY BpTailAt
  <1>2. b.tx \in Seq(BpCommands) /\ lr \in Nat
    BY DEF BpBuses
  <1>3. c.tar = b.tar /\ c.rx = b.rx /\ c.next = b.next
    BY DEF BpPut
  <1>4. /\ asks \in Nat /\ takes \in Nat
        /\ Head(s) \in {"token", "ask"} => Cardinality(BpAt(t, {"token", "ask"})) = asks - 1
        /\ Head(s) \notin {"token", "ask"} => Cardinality(BpAt(t, {"token", "ask"})) = asks
        /\ Head(s) # "byte" => Cardinality(BpAt(t, {"byte"})) = takes
    BY <1>1 DEF BpLeft
  <1>5. /\ ~\E k \in DOMAIN t : t[k] = "cmd"
        /\ Head(s) = "cmd" => \E k \in DOMAIN s : s[k] = "cmd"
    BY BpMoved
  <1>6. reads + lr + asks <= takes /\ BpAsked(b)
    BY DEF BpReaderBus, BpComing
  <1>7. \E base \in Int : BpRow(c, got, base)
    <2>1. PICK base \in Int : BpRow(b, got, base)
      BY DEF BpReaderBus
    <2>2. BpRow(c, got, base)
      BY <1>3, <2>1 DEF BpRow
    <2> QED
      BY <2>2
  <1>8. Head(s) = "cmd" => BpOf(b.tx, "read") = {} /\ got = <<>> /\ b.rx = <<>>
    BY <1>5 DEF BpReaderBus, BpClean
  <1>9. got # <<>> \/ b.rx # <<>> => BpOf(b.tx, "write") = {}
    BY DEF BpReaderBus
  <1> HIDE DEF t, asks, takes, lr
  <1>10. CASE c.tx = b.tx
    <2>1. reads \in Nat
      BY <1>2, BpMoved, BpCounted
    <2> HIDE DEF reads
    <2>2. reads + lr + Cardinality(BpAt(t, {"token", "ask"})) <= Cardinality(BpAt(t, {"byte"}))
      BY <1>2, <1>4, <1>6, <2>1
    <2>3. BpComing(c, t)
      BY <1>3, <1>10, <2>2 DEF BpComing, reads, lr
    <2>4. BpAsked(c)
      BY <1>3, <1>6, <1>10 DEF BpAsked
    <2> QED
      BY <1>3, <1>5, <1>7, <1>9, <1>10, <2>3, <2>4 DEF BpReaderBus, t
  <1>11. CASE \E x \in BpCommands : x.to = b.tar /\ x.do = kind /\ c.tx = Append(b.tx, x)
    <2>1. PICK x \in BpCommands : x.to = b.tar /\ x.do = kind /\ c.tx = Append(b.tx, x)
      BY <1>11
    <2>2. BpMore(c.tx, b.tx, x, "read")
      BY <1>2, <2>1, BpMoreOf
    <2>3. BpMore(c.tx, b.tx, x, "write")
      BY <1>2, <2>1, BpMoreOf
    <2>4. /\ n \in Nat /\ reads \in Nat /\ DOMAIN b.tx = 1 .. n
          /\ \A k \in DOMAIN b.tx : k < n + 1 /\ k \in DOMAIN c.tx /\ c.tx[k] = b.tx[k]
          /\ c.tx[n + 1].to = b.tar
          /\ kind = "read" => /\ BpOf(c.tx, "read") = BpOf(b.tx, "read") \cup {n + 1}
                              /\ Cardinality(BpOf(c.tx, "read")) = reads + 1
          /\ kind # "read" => BpOf(c.tx, "read") = BpOf(b.tx, "read")
      BY <2>1, <2>2 DEF BpMore
    <2>5. kind # "write" => BpOf(c.tx, "write") = BpOf(b.tx, "write")
      BY <2>1, <2>3 DEF BpMore
    <2> HIDE DEF n, reads
    <2>6. \A k \in BpOf(b.tx, "read") : c.tx[k].to = c.tar
      BY <1>3, <1>6, <2>4 DEF BpAsked, BpOf
    <2>7. CASE kind = "read" /\ Head(s) \in {"token", "ask"}
      <3>1. (reads + 1) + lr + (asks - 1) <= takes /\ Head(s) # "byte"
        BY <1>2, <1>4, <1>6, <2>4, <2>7
      <3>2. BpComing(c, t)
        BY <1>3, <1>4, <2>4, <2>7, <3>1 DEF BpComing, lr
      <3>3. \A k \in BpOf(b.tx, "write") : k < n + 1
        BY <2>4 DEF BpOf
      <3>4. BpAsked(c)
        BY <1>3, <1>6, <2>4, <2>5, <2>6, <2>7, <3>3 DEF BpAsked
      <3> QED
        BY <1>3, <1>5, <1>7, <1>9, <2>5, <2>7, <3>2, <3>4 DEF BpReaderBus, t
    <2>8. CASE kind # "read" /\ Head(s) \in {"cmd", "stop"}
      <3>1. BpComing(c, t)
        BY <1>3, <1>4, <1>6, <2>4, <2>8 DEF BpComing, lr, reads
      <3>2. CASE kind = "write" /\ Head(s) = "cmd"
        <4>1. BpAsked(c)
          BY <1>8, <2>4, <3>2 DEF BpAsked
        <4> QED
          BY <1>3, <1>5, <1>7, <1>8, <3>1, <3>2, <4>1 DEF BpReaderBus, t
      <3>3. CASE kind = "stop"
        <4>1. BpAsked(c)
          BY <1>6, <2>4, <2>5, <2>6, <3>3 DEF BpAsked
        <4> QED
          BY <1>3, <1>5, <1>7, <1>9, <2>5, <3>1, <3>3, <4>1 DEF BpReaderBus, t
      <3> QED
        BY <3>2, <3>3, <2>8
    <2> QED
      BY <2>7, <2>8
  <1> QED
    BY <1>10, <1>11 DEF BpPut

(* The move that takes a byte.                                             *)
LEMMA BpByteReader ==
    ASSUME NEW b \in BpBuses, b.rx # <<>>,
           NEW c, c.tx = b.tx, c.rx = Tail(b.rx), c.tar = b.tar, c.next = b.next,
           NEW s \in Seq(BpMoves), s # <<>>, BpReader(s), Head(s) = "byte",
           NEW got \in Seq(BpBytes), BpReaderBus(b, s, got)
    PROVE  BpReaderBus(c, Tail(s), Append(got, Head(b.rx)))
  <1> DEFINE t == Tail(s)
             item == Head(b.rx)
             new == Append(got, item)
             lg == Len(got)
             lr == Len(b.rx)
             reads == Cardinality(BpOf(b.tx, "read"))
             asks == Cardinality(BpAt(s, {"token", "ask"}))
             takes == Cardinality(BpAt(s, {"byte"}))
  <1>1. BpLeft(t, s, {"token", "ask"}) /\ BpLeft(t, s, {"byte"})
    BY BpTailAt
  <1>2. /\ asks \in Nat /\ takes \in Nat
        /\ Cardinality(BpAt(t, {"token", "ask"})) = asks
        /\ Cardinality(BpAt(t, {"byte"})) = takes - 1
    BY <1>1 DEF BpLeft
  <1>3. b.rx \in Seq(BpBytes) /\ lr \in Nat /\ lg \in Nat /\ b.tx \in Seq(BpCommands)
    BY DEF BpBuses
  <1>4. reads \in Nat
    BY <1>3, BpCounted, Zenon
  <1>5. /\ item \in BpBytes /\ item = b.rx[1] /\ Len(c.rx) = lr - 1
        /\ \A k \in 1 .. Len(c.rx) : c.rx[k] = b.rx[k + 1]
        /\ c.rx \in Seq(BpBytes)
    BY <1>3, HeadTailProperties
  <1>6. lr >= 1 /\ DOMAIN b.rx = 1 .. lr
    BY <1>3, EmptySeq
  <1> HIDE DEF item, lr, lg
  <1>7. /\ Len(new) = lg + 1 /\ new[lg + 1] = item /\ new \in Seq(BpBytes)
        /\ \A k \in 1 .. lg : new[k] = got[k]
    BY <1>5, AppendProperties DEF lg
  <1>8. DOMAIN got = 1 .. lg /\ DOMAIN new = 1 .. lg + 1 /\ DOMAIN c.rx = 1 .. lr - 1
    BY <1>5, <1>7 DEF lg
  <1>9. ~\E k \in DOMAIN t : t[k] = "cmd"
    BY BpMoved
  <1>10. reads + lr + asks <= takes /\ BpAsked(b) /\ BpOf(b.tx, "write") = {}
    BY DEF BpReaderBus, BpComing, lr
  <1> HIDE DEF new, t, reads, asks, takes
  <1>11. PICK base \in Int : BpRow(b, got, base)
    BY DEF BpReaderBus
  <1>12. /\ \A k \in 1 .. lg : got[k] = <<b.tar, base + k>>
         /\ \A k \in 1 .. lr : b.rx[k] = <<b.tar, base + lg + k>>
         /\ b.next[b.tar] = base + lg + lr + 1
    BY <1>6, <1>8, <1>11 DEF BpRow, lr, lg
  <1>13. BpRow(c, new, base)
    <2>1. ASSUME NEW k \in DOMAIN new PROVE new[k] = <<b.tar, base + k>>
      <3>1. k \in 1 .. lg \/ k = lg + 1
        BY <1>3, <1>8, <2>1
      <3>2. CASE k \in 1 .. lg
        BY <1>7, <1>12, <3>2
      <3>3. CASE k = lg + 1
        <4>1. 1 \in 1 .. lr /\ base + lg + 1 = base + (lg + 1)
          BY <1>3, <1>6
        <4>2. item = <<b.tar, base + lg + 1>>
          BY <1>5, <1>12, <4>1
        <4> QED
          BY <1>7, <3>3, <4>1, <4>2
      <3> QED
        BY <3>1, <3>2, <3>3
    <2>2. ASSUME NEW k \in DOMAIN c.rx PROVE c.rx[k] = <<b.tar, base + Len(new) + k>>
      <3>1. k \in 1 .. lr - 1
        BY <1>8, <2>2
      <3>2. k + 1 \in 1 .. lr /\ base + lg + (k + 1) = base + (lg + 1) + k
        <4>1. lr \in Nat /\ lg \in Nat /\ lr >= 1 /\ k \in Nat /\ k >= 1 /\ k <= lr - 1
          BY <1>3, <1>6, <3>1
        <4>2. k + 1 \in 1 .. lr
          BY <4>1
        <4>3. base + lg + (k + 1) = base + (lg + 1) + k
          BY <1>11, <4>1
        <4> QED
          BY <4>2, <4>3
      <3>3. c.rx[k] = b.rx[k + 1]
        BY <1>5, <3>1
      <3>4. b.rx[k + 1] = <<b.tar, base + lg + (k + 1)>>
        BY <1>12, <3>2
      <3> QED
        BY <1>7, <3>2, <3>3, <3>4
    <2>3. b.next[b.tar] = base + (lg + 1) + (lr - 1) + 1
      BY <1>3, <1>12
    <2>4. b.next[b.tar] = base + Len(new) + Len(c.rx) + 1
      BY <1>5, <1>7, <2>3
    <2> QED
      BY <2>1, <2>2, <2>4 DEF BpRow
  <1>14. BpComing(c, t)
    <2>1. reads + (lr - 1) + asks <= takes - 1
      BY <1>2, <1>3, <1>4, <1>10
    <2> QED
      BY <1>2, <1>5, <2>1 DEF BpComing, reads
  <1>15. BpAsked(c)
    BY <1>10 DEF BpAsked
  <1>16. BpReaderBus(c, t, new)
    BY <1>9, <1>10, <1>13, <1>14, <1>15 DEF BpReaderBus
  <1> QED
    BY <1>16 DEF t, new, item

(* The move that only checks.                                              *)
LEMMA BpCheckReader ==
    ASSUME NEW b \in BpBuses, NEW s \in Seq(BpMoves), s # <<>>, BpReader(s), Head(s) = "check",
           NEW got, BpReaderBus(b, s, got)
    PROVE  BpReaderBus(b, Tail(s), got)
  <1> DEFINE t == Tail(s)
  <1>1. BpLeft(t, s, {"token", "ask"}) /\ BpLeft(t, s, {"byte"})
    BY BpTailAt
  <1>2. /\ Cardinality(BpAt(t, {"token", "ask"})) = Cardinality(BpAt(s, {"token", "ask"}))
        /\ Cardinality(BpAt(t, {"byte"})) = Cardinality(BpAt(s, {"byte"}))
    BY <1>1 DEF BpLeft
  <1>3. ~\E k \in DOMAIN t : t[k] = "cmd"
    BY BpMoved
  <1> HIDE DEF t
  <1>4. BpComing(b, t)
    BY <1>2 DEF BpReaderBus, BpComing
  <1>5. BpReaderBus(b, t, got)
    BY <1>3, <1>4 DEF BpReaderBus
  <1> QED
    BY <1>5 DEF t

(* A reader that is through has nothing left in the FIFOs, and the bytes   *)
(* it was to have.                                                         *)
LEMMA BpEndReader ==
    ASSUME NEW b \in BpBuses, NEW got \in Seq(BpBytes), BpReaderBus(b, <<>>, got)
    PROVE  /\ BpClean(b)
           /\ got # <<>> => \A k \in 1 .. Len(got) : got[k] = <<b.tar, got[1][2] + k - 1>>
  <1> DEFINE reads == Cardinality(BpOf(b.tx, "read"))
             lr == Len(b.rx)
  <1>1. b.tx \in Seq(BpCommands) /\ b.rx \in Seq(BpBytes) /\ lr \in Nat
    BY DEF BpBuses
  <1>2. IsFiniteSet(BpOf(b.tx, "read")) /\ reads \in Nat
    <2>1. <<>> \in Seq(BpMoves)
      OBVIOUS
    <2> QED
      BY <1>1, <2>1, BpCounted
  <1>3. reads + lr + 0 <= 0
    BY BpNothing DEF BpReaderBus, BpComing
  <1> HIDE DEF reads, lr
  <1>4. reads = 0 /\ lr = 0
    BY <1>1, <1>2, <1>3
  <1>5. b.rx = <<>>
    BY <1>1, <1>4, EmptySeq DEF lr
  <1>6. BpOf(b.tx, "read") = {}
    BY <1>2, <1>4, FS_EmptySet DEF reads
  <1>7. ASSUME got # <<>>, NEW k \in 1 .. Len(got)
        PROVE  got[k] = <<b.tar, got[1][2] + k - 1>>
    <2>1. PICK base \in Int : BpRow(b, got, base)
      BY DEF BpReaderBus
    <2>2. 1 \in DOMAIN got /\ k \in DOMAIN got /\ k \in Nat
      BY <1>7, EmptySeq
    <2>3. got[k] = <<b.tar, base + k>> /\ got[1] = <<b.tar, base + 1>>
      BY <2>1, <2>2 DEF BpRow
    <2>4. (base + 1) + k - 1 = base + k
      BY <2>2
    <2> QED
      BY <2>3, <2>4
  <1> QED
    BY <1>5, <1>6, <1>7 DEF BpClean

(* A reader that begins, with as many bytes to take as to ask for.         *)
LEMMA BpBeginReader ==
    ASSUME NEW b \in BpBuses, b.tar \in BpAddresses, BpClean(b), NEW s \in Seq(BpMoves),
           Cardinality(BpAt(s, {"token", "ask"})) = Cardinality(BpAt(s, {"byte"}))
    PROVE  BpReaderBus(b, s, <<>>)
  <1> DEFINE n == b.next[b.tar]
             first == n - 1
  <1>1. n \in Nat /\ b.tx \in Seq(BpCommands)
    BY DEF BpBuses
  <1>2. first \in Int /\ n = first + 0 + 0 + 1
    BY <1>1
  <1>3. b.rx = <<>> /\ BpOf(b.tx, "read") = {}
    BY DEF BpClean
  <1>4. BpRow(b, <<>>, first)
    BY <1>2, <1>3 DEF BpRow
  <1> HIDE DEF first
  <1>5. BpAsked(b)
    BY <1>3 DEF BpAsked
  <1>6. BpComing(b, s)
    <2> DEFINE asks == Cardinality(BpAt(s, {"token", "ask"}))
               takes == Cardinality(BpAt(s, {"byte"}))
    <2>1. asks \in Nat /\ asks = takes
      BY <1>1, BpCounted
    <2>2. Cardinality(BpOf(b.tx, "read")) = 0 /\ Len(b.rx) = 0
      BY <1>3, FS_EmptySet
    <2> HIDE DEF asks, takes
    <2>3. 0 + 0 + asks <= takes
      BY <2>1
    <2> QED
      BY <2>2, <2>3 DEF BpComing, asks, takes
  <1> QED
    BY <1>2, <1>3, <1>4, <1>5, <1>6 DEF BpReaderBus

-----------------------------------------------------------------------------
(* What the tail of a program keeps of its kind.                           *)
LEMMA BpDoomedTail ==
    ASSUME NEW s \in Seq(BpMoves), s # <<>>, NEW t, t = Tail(s), NEW call, BpDoomed(call, s),
           Head(s) \notin {"finish", "count"}, call = "enableReadN" => Head(s) # "stopped"
    PROVE  BpDoomed(call, t)
  <1>1. BpLeft(t, s, {})
    BY BpTailAt
  <1>2. /\ t \in Seq(BpMoves) /\ Len(t) = Len(s) - 1 /\ Len(s) \in Nat /\ Head(s) = s[1]
        /\ \A k \in DOMAIN s : k = 1 \/ (k - 1 \in DOMAIN t /\ t[k - 1] = s[k])
    BY <1>1 DEF BpLeft
  <1>3. CASE \E k \in DOMAIN s : s[k] = "finish"
    BY <1>2, <1>3 DEF BpDoomed
  <1>4. CASE \E k \in DOMAIN s : s[k] = "count" /\ k = Len(s)
    BY <1>2, <1>4 DEF BpDoomed
  <1>5. CASE call = "enableReadN" /\ \E k \in DOMAIN s : s[k] = "stopped"
    BY <1>2, <1>5 DEF BpDoomed
  <1> QED
    BY <1>3, <1>4, <1>5 DEF BpDoomed

(* A call that only writes stays one, and forgets what it read first.      *)
LEMMA BpWriterTail ==
    ASSUME NEW s \in Seq(BpMoves), s # <<>>, NEW t, t = Tail(s), BpWriter(s)
    PROVE  /\ BpWriter(t)
           /\ Head(s) \in {"putCmd", "put", "stop", "off", "target", "on", "data", "byte",
                           "drained", "stopped"}
           /\ (\E k \in DOMAIN t : t[k] = "off") => Head(s) # "byte" /\ \E k \in DOMAIN s : s[k] = "off"
           /\ Head(s) = "off" => \E k \in DOMAIN s : s[k] = "off"
  <1>1. BpLeft(t, s, {})
    BY BpTailAt
  <1>2. /\ Head(s) = s[1] /\ 1 \in DOMAIN s /\ DOMAIN s = 1 .. Len(s)
        /\ \A k \in DOMAIN t : k \in Nat /\ k >= 1 /\ k + 1 \in DOMAIN s /\ t[k] = s[k + 1]
    BY <1>1 DEF BpLeft
  <1>3. /\ \A k \in DOMAIN s : s[k] \in {"putCmd", "put", "stop", "off", "target", "on",
                                         "data", "byte", "drained", "stopped"}
        /\ \A j, k \in DOMAIN s : s[j] = "byte" /\ s[k] = "off" => k < j
    BY DEF BpWriter
  <1>4. ASSUME NEW j \in DOMAIN t, NEW k \in DOMAIN t, t[j] = "byte", t[k] = "off" PROVE k < j
    <2>1. k + 1 < j + 1
      BY <1>2, <1>3, <1>4
    <2> QED
      BY <1>2, <2>1
  <1>5. ASSUME NEW k \in DOMAIN t, t[k] = "off" PROVE Head(s) # "byte"
    <2>1. k + 1 \in DOMAIN s /\ s[k + 1] = "off" /\ ~(k + 1 < 1)
      BY <1>2, <1>5
    <2> QED
      BY <1>2, <1>3, <2>1
  <1>6. BpWriter(t)
    BY <1>2, <1>3, <1>4 DEF BpWriter
  <1> QED
    BY <1>2, <1>3, <1>5, <1>6

(* A call that is through without having given up has left nothing behind. *)
LEMMA BpEnds ==
    ASSUME NEW b \in BpBuses, NEW got \in Seq(BpBytes), NEW call, NEW gaveUp \in BOOLEAN,
           BpRunning(call, <<>>, b, got, gaveUp), ~gaveUp
    PROVE  /\ BpClean(b)
           /\ got # <<>> => \A k \in 1 .. Len(got) : got[k] = <<b.tar, got[1][2] + k - 1>>
  <1>1. ~BpDoomed(call, <<>>)
    BY DEF BpDoomed
  <1>2. CASE BpWriterBus(b, <<>>, got, gaveUp)
    BY <1>2 DEF BpWriterBus
  <1>3. CASE BpReaderBus(b, <<>>, got)
    BY <1>3, BpEndReader
  <1> QED
    BY <1>1, <1>2, <1>3 DEF BpRunning

(* It is all the same to a call where the bus differs in what it raises.   *)
LEMMA BpSameBus ==
    ASSUME NEW b, NEW c, c.tx = b.tx, c.rx = b.rx, c.tar = b.tar, c.next = b.next,
           NEW s, NEW got, NEW gaveUp
    PROVE  /\ BpClean(b) => BpClean(c)
           /\ BpReaderBus(b, s, got) => BpReaderBus(c, s, got)
           /\ BpWriterBus(b, s, got, gaveUp) => BpWriterBus(c, s, got, gaveUp)
  <1>1. BpClean(b) => BpClean(c)
    BY DEF BpClean
  <1>2. ASSUME BpReaderBus(b, s, got) PROVE BpReaderBus(c, s, got)
    <2>1. PICK base \in Int : BpRow(b, got, base)
      BY <1>2 DEF BpReaderBus
    <2>2. BpRow(c, got, base)
      BY <2>1 DEF BpRow
    <2>3. BpAsked(c) /\ BpComing(c, s)
      BY <1>2 DEF BpReaderBus, BpAsked, BpComing
    <2> QED
      BY <1>1, <1>2, <2>2, <2>3 DEF BpReaderBus
  <1>3. BpWriterBus(b, s, got, gaveUp) => BpWriterBus(c, s, got, gaveUp)
    BY <1>1 DEF BpWriterBus
  <1> QED
    BY <1>1, <1>2, <1>3

-----------------------------------------------------------------------------
(* A program that comes to wait for the stop cannot succeed.               *)
LEMMA BpFinishes ==
    ASSUME NEW x \in Seq(BpMoves), NEW call
    PROVE  x \o BpStop \in Seq(BpMoves) /\ x \o BpStop # <<>> /\ BpDoomed(call, x \o BpStop)
  <1> DEFINE stop == BpStop
             s == x \o stop
             n == Len(x)
  <1>1. stop \in Seq(BpMoves) /\ Len(stop) = 2 /\ stop[1] = "finish"
    BY DEF BpStop, BpMoves
  <1> HIDE DEF stop
  <1>2. s \in Seq(BpMoves) /\ Len(s) = n + Len(stop) /\ n \in Nat
    <2>1. s \in Seq(BpMoves) /\ n \in Nat
      BY <1>1
    <2>2. Len(s) = Len(x) + Len(stop)
      BY <1>1, ConcatProperties, Zenon
    <2> QED
      BY <2>1, <2>2
  <1>3. \A k \in 1 .. n + Len(stop) : s[k] = IF k <= n THEN x[k] ELSE stop[k - n]
    BY <1>1, ConcatProperties, Zenon
  <1> HIDE DEF n, s
  <1>4. n + 1 \in 1 .. n + 2 /\ ~(n + 1 <= n) /\ (n + 1) - n = 1
    BY <1>2
  <1>5. n + 1 \in DOMAIN s /\ s[n + 1] = "finish"
    BY <1>1, <1>2, <1>3, <1>4
  <1>6. s \in Seq(BpMoves) /\ s # <<>> /\ BpDoomed(call, s)
    BY <1>2, <1>5 DEF BpDoomed
  <1> QED
    BY <1>6 DEF s, stop

(* So does one that ends with the count of a block.                        *)
LEMMA BpCounts ==
    ASSUME NEW x \in Seq(BpMoves), NEW call
    PROVE  /\ x \o <<"token", "count">> \in Seq(BpMoves) /\ x \o <<"token", "count">> # <<>>
           /\ BpDoomed(call, x \o <<"token", "count">>)
  <1> DEFINE stop == <<"token", "count">>
             s == x \o stop
             n == Len(x)
  <1>1. stop \in Seq(BpMoves) /\ Len(stop) = 2 /\ stop[2] = "count"
    BY DEF BpMoves
  <1> HIDE DEF stop
  <1>2. s \in Seq(BpMoves) /\ Len(s) = n + Len(stop) /\ n \in Nat
    <2>1. s \in Seq(BpMoves) /\ n \in Nat
      BY <1>1
    <2>2. Len(s) = Len(x) + Len(stop)
      BY <1>1, ConcatProperties, Zenon
    <2> QED
      BY <2>1, <2>2
  <1>3. \A k \in 1 .. n + Len(stop) : s[k] = IF k <= n THEN x[k] ELSE stop[k - n]
    BY <1>1, ConcatProperties, Zenon
  <1> HIDE DEF n, s
  <1>4. n + 2 \in 1 .. n + 2 /\ ~(n + 2 <= n) /\ (n + 2) - n = 2
    BY <1>2
  <1>5. n + 2 \in DOMAIN s /\ s[n + 2] = "count" /\ n + 2 = Len(s)
    BY <1>1, <1>2, <1>3, <1>4
  <1>6. s \in Seq(BpMoves) /\ s # <<>> /\ BpDoomed(call, s)
    BY <1>2, <1>5 DEF BpDoomed
  <1> QED
    BY <1>6 DEF s, stop

(* A move repeated is a program.                                           *)
LEMMA BpTimesProgram ==
    ASSUME NEW n \in Nat, NEW move \in BpMoves
    PROVE  BpTimes(n, move) \in Seq(BpMoves)
  <1> DEFINE s == [k \in 1 .. n |-> move]
  <1>1. s \in [1 .. n -> BpMoves]
    OBVIOUS
  <1> HIDE DEF s
  <1>2. s \in Seq(BpMoves)
    BY <1>1, SeqDef, Zenon
  <1> QED
    BY <1>2 DEF s, BpTimes

(* What follows the count of a block is bound to fail.                     *)
LEMMA BpBlockRestProgram ==
    ASSUME NEW n \in Nat, NEW pec \in {0, 1}, NEW call
    PROVE  /\ BpBlockRest(n, pec) \in Seq(BpMoves) /\ BpBlockRest(n, pec) # <<>>
           /\ BpDoomed(call, BpBlockRest(n, pec))
  <1> DEFINE x == BpTimes(n + pec, "token")
             y == BpTimes(n + pec, "byte")
             z == x \o y
  <1>1. n + pec \in Nat
    OBVIOUS
  <1>2. "token" \in BpMoves /\ "byte" \in BpMoves
    BY DEF BpMoves
  <1>3. x \in Seq(BpMoves) /\ y \in Seq(BpMoves)
    BY <1>1, <1>2, BpTimesProgram
  <1> HIDE DEF x, y
  <1>4. z \in Seq(BpMoves)
    BY <1>3, ConcatProperties
  <1>5. BpBlockRest(n, pec) = z \o BpStop
    BY DEF BpBlockRest, x, y
  <1> HIDE DEF z
  <1> QED
    BY <1>4, <1>5, BpFinishes

(* Two places are as many as two others.                                   *)
LEMMA BpPairs ==
    ASSUME NEW i, NEW j, i # j
    PROVE  Cardinality({i, j}) = 2
  <1> DEFINE S == {i}
  <1>1. IsFiniteSet(S) /\ Cardinality(S) = 1
    BY FS_Singleton
  <1>2. j \notin S /\ {i, j} = S \cup {j}
    OBVIOUS
  <1> HIDE DEF S
  <1>3. Cardinality(S \cup {j}) = Cardinality(S) + 1
    BY <1>1, <1>2, FS_AddElement
  <1> QED
    BY <1>1, <1>2, <1>3

(* What a call begins with: its program, of one of the three kinds.        *)
BpBegins(call, s) ==
    /\ s \in Seq(BpMoves) /\ s # <<>>
    /\ \/ BpDoomed(call, s)
       \/ BpWriter(s)
       \/ /\ BpReader(s)
          /\ Cardinality(BpAt(s, {"token", "ask"})) = Cardinality(BpAt(s, {"byte"}))

(* The calls that read nothing that they asked for.                        *)
LEMMA BpWriters ==
    /\ BpBegins("hwWrite", I2cHwWrite) /\ BpBegins("enableWrite1", EnableAndWrite1)
    /\ BpBegins("enableWriteN", EnableAndWriteN) /\ BpBegins("enableRead1", EnableAndRead1)
  <1>1. BpBegins("hwWrite", I2cHwWrite)
    BY DEF BpBegins, I2cHwWrite, BpMoves, BpWriter
  <1>2. BpBegins("enableWrite1", EnableAndWrite1)
    BY DEF BpBegins, EnableAndWrite1, BpMoves, BpWriter
  <1>3. BpBegins("enableWriteN", EnableAndWriteN)
    BY DEF BpBegins, EnableAndWriteN, BpMoves, BpWriter
  <1>4. BpBegins("enableRead1", EnableAndRead1)
    BY DEF BpBegins, EnableAndRead1, BpMoves, BpWriter
  <1> QED
    BY <1>1, <1>2, <1>3, <1>4

(* The calls that take what they ask for.                                  *)
LEMMA BpReaders ==
    /\ BpBegins("receiveByte", BpReceiveByte) /\ BpBegins("readByte", BpSmbusReadByte)
    /\ BpBegins("readWord", BpReadWord) /\ BpBegins("hwRead", I2cHwRead)
  <1>1. BpBegins("receiveByte", BpReceiveByte)
    <2> DEFINE s == BpReceiveByte
    <2>1. s \in Seq(BpMoves) /\ s # <<>> /\ BpReader(s)
      BY DEF BpReceiveByte, BpMoves, BpReader
    <2>2. BpAt(s, {"token", "ask"}) = {1} /\ BpAt(s, {"byte"}) = {2}
      BY DEF BpReceiveByte, BpAt
    <2> QED
      BY <2>1, <2>2, FS_Singleton DEF BpBegins
  <1>2. BpBegins("readByte", BpSmbusReadByte)
    <2> DEFINE s == BpSmbusReadByte
    <2>1. s \in Seq(BpMoves) /\ s # <<>> /\ BpReader(s)
      BY DEF BpSmbusReadByte, BpMoves, BpReader
    <2>2. BpAt(s, {"token", "ask"}) = {2} /\ BpAt(s, {"byte"}) = {3}
      BY DEF BpSmbusReadByte, BpAt
    <2> QED
      BY <2>1, <2>2, FS_Singleton DEF BpBegins
  <1>3. BpBegins("readWord", BpReadWord)
    <2> DEFINE s == BpReadWord
    <2>1. s \in Seq(BpMoves) /\ s # <<>> /\ BpReader(s)
      BY DEF BpReadWord, BpMoves, BpReader
    <2>2. BpAt(s, {"token", "ask"}) = {2, 3} /\ BpAt(s, {"byte"}) = {4, 5}
      BY DEF BpReadWord, BpAt
    <2>3. 2 # 3 /\ 4 # 5
      OBVIOUS
    <2>4. Cardinality({2, 3}) = 2 /\ Cardinality({4, 5}) = 2
      BY <2>3, BpPairs
    <2> QED
      BY <2>1, <2>2, <2>4 DEF BpBegins
  <1>4. BpBegins("hwRead", I2cHwRead)
    <2> DEFINE s == I2cHwRead
    <2>1. s \in Seq(BpMoves) /\ s # <<>> /\ BpReader(s)
      BY DEF I2cHwRead, BpMoves, BpReader
    <2>2. BpAt(s, {"token", "ask"}) = {1, 2} /\ BpAt(s, {"byte"}) = {4, 5}
      BY DEF I2cHwRead, BpAt
    <2>3. 1 # 2 /\ 4 # 5
      OBVIOUS
    <2>4. Cardinality({1, 2}) = 2 /\ Cardinality({4, 5}) = 2
      BY <2>3, BpPairs
    <2> QED
      BY <2>1, <2>2, <2>4 DEF BpBegins
  <1> QED
    BY <1>1, <1>2, <1>3, <1>4

-----------------------------------------------------------------------------
(* Every program is of one of the three kinds.                             *)
LEMMA BpProgramBegins ==
    ASSUME NEW call \in BpCalls
    PROVE  BpBegins(call, BpProgram[call])
  <1> DEFINE s == BpProgram[call]
  <1>1. call \in {"quickRead", "quickWrite", "sendByte", "receiveByte", "writeByte", "readByte",
                  "writeWord", "readWord", "blockRead", "blockWrite", "blockProcessCall",
                  "alertResponse", "hwWrite", "hwRead", "enableRead1", "enableWrite1",
                  "enableReadN", "enableWriteN"}
    BY DEF BpCalls, BpProgram
  <1>2. \A x : x \in Seq(BpMoves) => BpBegins(call, x \o BpStop)
    BY BpFinishes DEF BpBegins
  <1>3. /\ <<>> \in Seq(BpMoves) /\ <<"token">> \in Seq(BpMoves) /\ <<"cmd">> \in Seq(BpMoves)
        /\ <<"cmd", "data">> \in Seq(BpMoves) /\ <<"cmd", "data", "data">> \in Seq(BpMoves)
        /\ <<"token", "byte">> \in Seq(BpMoves) /\ "data" \in BpMoves
    BY DEF BpMoves
  <1>4. CASE call \in {"quickRead", "quickWrite"}
    <2>1. /\ call = "quickRead" => s = <<"token">> \o BpStop
          /\ call = "quickWrite" => s = <<>> \o BpStop
      BY DEF BpProgram, BpQuick
    <2> HIDE DEF s
    <2>2. BpBegins(call, s)
      BY <1>2, <1>3, <1>4, <2>1, Zenon
    <2> QED
      BY <2>2 DEF s
  <1>5. CASE call \in {"sendByte", "writeByte", "writeWord", "alertResponse"}
    <2>1. /\ call = "sendByte" => s = BpSendByte
          /\ call = "writeByte" => s = BpWriteByte
          /\ call = "writeWord" => s = BpWriteWord
          /\ call = "alertResponse" => s = BpAlertResponse
      BY DEF BpProgram
    <2>2. /\ BpSendByte = <<"cmd">> \o BpStop
          /\ BpWriteByte = <<"cmd", "data">> \o BpStop
          /\ BpWriteWord = <<"cmd", "data", "data">> \o BpStop
          /\ BpAlertResponse = <<"token", "byte">> \o BpStop
      BY DEF BpSendByte, BpWriteByte, BpWriteWord, BpAlertResponse
    <2> HIDE DEF s
    <2>3. BpBegins(call, s)
      BY <1>2, <1>3, <1>5, <2>1, <2>2, Zenon
    <2> QED
      BY <2>3 DEF s
  <1>6. CASE call \in {"blockWrite", "blockProcessCall"}
    <2> DEFINE x == BpTimes(BpMaxCount, "data")
               y == <<"cmd", "data">> \o x
    <2>1. x \in Seq(BpMoves)
      BY <1>3, BpAssumption, BpTimesProgram
    <2> HIDE DEF x
    <2>2. y \in Seq(BpMoves)
      BY <1>3, <2>1, ConcatProperties
    <2>3. /\ call = "blockWrite" => s = y \o BpStop
          /\ call = "blockProcessCall" => s = y \o <<"token", "count">>
      BY DEF BpProgram, BpBlockWrite, BpBlockProcessCall, x
    <2> HIDE DEF y, s
    <2>4. BpBegins(call, y \o <<"token", "count">>)
      BY <2>2, BpCounts DEF BpBegins
    <2>5. BpBegins(call, s)
      BY <1>2, <1>6, <2>2, <2>3, <2>4, Zenon
    <2> QED
      BY <2>5 DEF s
  <1>7. CASE call = "blockRead"
    <2>1. s = <<"cmd", "token", "count">>
      BY <1>7 DEF BpProgram, BpBlockRead
    <2>2. BpBegins(call, <<"cmd", "token", "count">>)
      BY DEF BpBegins, BpDoomed, BpMoves
    <2> QED
      BY <2>1, <2>2
  <1>8. CASE call = "enableReadN"
    <2>1. s = EnableAndReadN
      BY <1>8 DEF BpProgram
    <2>2. BpBegins(call, EnableAndReadN)
      BY <1>8 DEF BpBegins, BpDoomed, BpMoves, EnableAndReadN
    <2> QED
      BY <2>1, <2>2
  <1>9. CASE call \in {"receiveByte", "readByte", "readWord", "hwRead"}
    <2>1. /\ call = "receiveByte" => s = BpReceiveByte
          /\ call = "readByte" => s = BpSmbusReadByte
          /\ call = "readWord" => s = BpReadWord
          /\ call = "hwRead" => s = I2cHwRead
      BY DEF BpProgram
    <2> HIDE DEF s
    <2>2. BpBegins(call, s)
      BY <1>9, <2>1, BpReaders, Zenon
    <2> QED
      BY <2>2 DEF s
  <1>10. CASE call \in {"hwWrite", "enableWrite1", "enableWriteN", "enableRead1"}
    <2>1. /\ call = "hwWrite" => s = I2cHwWrite
          /\ call = "enableWrite1" => s = EnableAndWrite1
          /\ call = "enableWriteN" => s = EnableAndWriteN
          /\ call = "enableRead1" => s = EnableAndRead1
      BY DEF BpProgram
    <2> HIDE DEF s
    <2>2. BpBegins(call, s)
      BY <1>10, <2>1, BpWriters, Zenon
    <2> QED
      BY <2>2 DEF s
  <1> HIDE DEF s
  <1> QED
    BY <1>1, <1>4, <1>5, <1>6, <1>7, <1>8, <1>9, <1>10 DEF s

(* A call begins on a bus that is clean, unless one before it gave up.     *)
LEMMA BpBeginRuns ==
    ASSUME NEW b \in BpBuses, b.tar \in BpAddresses, NEW gaveUp, ~gaveUp => BpClean(b),
           NEW call, NEW s, BpBegins(call, s)
    PROVE  BpRunning(call, s, b, <<>>, gaveUp)
  <1>1. s \in Seq(BpMoves)
    BY DEF BpBegins
  <1>2. CASE BpDoomed(call, s)
    BY <1>2 DEF BpRunning
  <1>3. CASE BpWriter(s)
    BY <1>3 DEF BpRunning, BpWriterBus
  <1>4. CASE BpReader(s) /\ Cardinality(BpAt(s, {"token", "ask"})) = Cardinality(BpAt(s, {"byte"}))
    <2>1. ~gaveUp => BpReaderBus(b, s, <<>>)
      BY <1>1, <1>4, BpBeginReader
    <2> QED
      BY <1>4, <2>1 DEF BpRunning
  <1> QED
    BY <1>2, <1>3, <1>4 DEF BpBegins

(* A move that puts a command in the FIFO.                                 *)
LEMMA BpPutRuns ==
    ASSUME NEW b \in BpBuses, NEW c, NEW kind, BpPut(c, b, kind),
           NEW call, NEW s \in Seq(BpMoves), s # <<>>, NEW got, NEW gaveUp,
           BpRunning(call, s, b, got, gaveUp),
           \/ kind = "write" /\ Head(s) \in {"cmd", "putCmd"}
           \/ kind = "data" /\ Head(s) \in {"data", "put"}
           \/ kind = "read" /\ Head(s) \in {"token", "ask", "askNow"}
           \/ kind = "stop" /\ Head(s) = "stop"
    PROVE  BpRunning(call, Tail(s), c, got, gaveUp)
  <1> DEFINE t == Tail(s)
  <1> HIDE DEF t
  <1>1. t = Tail(s)
    BY DEF t
  <1>2. CASE BpDoomed(call, s)
    <2>1. BpDoomed(call, t)
      BY <1>1, <1>2, BpDoomedTail
    <2> QED
      BY <1>1, <2>1 DEF BpRunning
  <1>3. CASE BpWriter(s) /\ BpWriterBus(b, s, got, gaveUp)
    <2>1. /\ BpWriter(t) /\ Head(s) \notin {"token", "ask", "askNow", "cmd"}
          /\ (\E k \in DOMAIN t : t[k] = "off") => \E k \in DOMAIN s : s[k] = "off"
      BY <1>1, <1>3, BpWriterTail
    <2>2. kind # "read"
      BY <2>1
    <2>3. BpClean(b) => BpClean(c)
      BY <2>2, BpPutClean
    <2>4. BpWriterBus(c, t, got, gaveUp)
      BY <1>3, <2>1, <2>3 DEF BpWriterBus
    <2> QED
      BY <1>1, <2>1, <2>4 DEF BpRunning
  <1>4. CASE BpReader(s) /\ (~gaveUp => BpReaderBus(b, s, got))
    <2>1. BpReader(t) /\ Head(s) \in {"cmd", "token", "ask", "stop", "byte", "check"}
      BY <1>1, <1>4, BpMoved
    <2>2. \/ kind = "write" /\ Head(s) = "cmd"
          \/ kind = "read" /\ Head(s) \in {"token", "ask"}
          \/ kind = "stop" /\ Head(s) = "stop"
      BY <2>1
    <2>3. ~gaveUp => BpReaderBus(c, t, got)
      BY <1>1, <1>4, <2>2, BpPutReader
    <2> QED
      BY <1>1, <2>1, <2>3 DEF BpRunning
  <1> QED
    BY <1>2, <1>3, <1>4 DEF BpRunning

(* The move that takes a byte.                                             *)
LEMMA BpByteRuns ==
    ASSUME NEW b \in BpBuses, b.rx # <<>>,
           NEW c, c.tx = b.tx, c.rx = Tail(b.rx), c.tar = b.tar, c.next = b.next,
           NEW call, NEW s \in Seq(BpMoves), s # <<>>, Head(s) = "byte",
           NEW got \in Seq(BpBytes), NEW gaveUp, BpRunning(call, s, b, got, gaveUp)
    PROVE  BpRunning(call, Tail(s), c, Append(got, Head(b.rx)), gaveUp)
  <1> DEFINE t == Tail(s)
             new == Append(got, Head(b.rx))
  <1> HIDE DEF t, new
  <1>1. t = Tail(s) /\ new = Append(got, Head(b.rx))
    BY DEF t, new
  <1>2. CASE BpDoomed(call, s)
    <2>1. BpDoomed(call, t)
      BY <1>1, <1>2, BpDoomedTail
    <2> QED
      BY <1>1, <2>1 DEF BpRunning
  <1>3. CASE BpWriter(s) /\ BpWriterBus(b, s, got, gaveUp)
    <2>1. BpWriter(t) /\ ~\E k \in DOMAIN t : t[k] = "off"
      BY <1>1, <1>3, BpWriterTail
    <2>2. gaveUp
      BY <1>3 DEF BpWriterBus, BpClean
    <2>3. BpWriterBus(c, t, new, gaveUp)
      BY <2>1, <2>2 DEF BpWriterBus
    <2> QED
      BY <1>1, <2>1, <2>3 DEF BpRunning
  <1>4. CASE BpReader(s) /\ (~gaveUp => BpReaderBus(b, s, got))
    <2>1. BpReader(t)
      BY <1>1, <1>4, BpMoved
    <2>2. ~gaveUp => BpReaderBus(c, t, new)
      BY <1>1, <1>4, BpByteReader
    <2> QED
      BY <1>1, <2>1, <2>2 DEF BpRunning
  <1> QED
    BY <1>2, <1>3, <1>4 DEF BpRunning

(* A move that only waits or checks, or enables the controller.            *)
LEMMA BpWaitRuns ==
    ASSUME NEW b \in BpBuses, NEW c, c.tx = b.tx, c.rx = b.rx, c.tar = b.tar, c.next = b.next,
           NEW call, NEW s \in Seq(BpMoves), s # <<>>,
           Head(s) \in {"on", "target", "check", "drained", "stopped"},
           Head(s) = "stopped" => call # "enableReadN",
           NEW got, NEW gaveUp, BpRunning(call, s, b, got, gaveUp)
    PROVE  BpRunning(call, Tail(s), c, got, gaveUp)
  <1> DEFINE t == Tail(s)
  <1> HIDE DEF t
  <1>1. t = Tail(s)
    BY DEF t
  <1>2. CASE BpDoomed(call, s)
    <2>1. BpDoomed(call, t)
      BY <1>1, <1>2, BpDoomedTail
    <2> QED
      BY <1>1, <2>1 DEF BpRunning
  <1>3. CASE BpWriter(s) /\ BpWriterBus(b, s, got, gaveUp)
    <2>1. /\ BpWriter(t)
          /\ (\E k \in DOMAIN t : t[k] = "off") => \E k \in DOMAIN s : s[k] = "off"
      BY <1>1, <1>3, BpWriterTail
    <2>2. BpWriterBus(b, t, got, gaveUp)
      BY <1>3, <2>1 DEF BpWriterBus
    <2>3. BpWriterBus(c, t, got, gaveUp)
      BY <2>2, BpSameBus
    <2> QED
      BY <1>1, <2>1, <2>3 DEF BpRunning
  <1>4. CASE BpReader(s) /\ (~gaveUp => BpReaderBus(b, s, got))
    <2>1. BpReader(t) /\ Head(s) \in {"cmd", "token", "ask", "stop", "byte", "check"}
      BY <1>1, <1>4, BpMoved
    <2>2. Head(s) = "check"
      BY <2>1
    <2>3. ~gaveUp => BpReaderBus(b, t, got)
      BY <1>1, <1>4, <2>2, BpCheckReader
    <2>4. ~gaveUp => BpReaderBus(c, t, got)
      BY <2>3, BpSameBus
    <2> QED
      BY <1>1, <2>1, <2>4 DEF BpRunning
  <1> QED
    BY <1>2, <1>3, <1>4 DEF BpRunning

(* The move that disables the controller: what was left is forgotten.      *)
LEMMA BpOffRuns ==
    ASSUME NEW b, NEW c, c.tx = <<>>, c.rx = <<>>,
           NEW call, NEW s \in Seq(BpMoves), s # <<>>, Head(s) = "off",
           NEW got, NEW gaveUp, BpRunning(call, s, b, got, gaveUp)
    PROVE  BpRunning(call, Tail(s), c, got, FALSE)
  <1> DEFINE t == Tail(s)
  <1> HIDE DEF t
  <1>1. t = Tail(s)
    BY DEF t
  <1>2. CASE BpDoomed(call, s)
    <2>1. BpDoomed(call, t)
      BY <1>1, <1>2, BpDoomedTail
    <2> QED
      BY <1>1, <2>1 DEF BpRunning
  <1>3. CASE BpWriter(s) /\ BpWriterBus(b, s, got, gaveUp)
    <2>1. BpWriter(t) /\ \E k \in DOMAIN s : s[k] = "off"
      BY <1>1, <1>3, BpWriterTail
    <2>2. got = <<>> /\ BpClean(c)
      BY <1>3, <2>1 DEF BpWriterBus, BpClean, BpOf
    <2>3. BpWriterBus(c, t, got, FALSE)
      BY <2>2 DEF BpWriterBus
    <2> QED
      BY <1>1, <2>1, <2>3 DEF BpRunning
  <1>4. CASE BpReader(s)
    BY <1>1, <1>4, BpMoved
  <1> QED
    BY <1>2, <1>3, <1>4 DEF BpRunning

(* The controller serves a command meanwhile.                              *)
LEMMA BpServeRuns ==
    ASSUME NEW b \in BpBuses, b.tx # <<>>, b.tar \in BpAddresses, NEW c, BpServed(c, b),
           NEW call, NEW s \in Seq(BpMoves), NEW got \in Seq(BpBytes), NEW gaveUp,
           BpRunning(call, s, b, got, gaveUp)
    PROVE  BpRunning(call, s, c, got, gaveUp)
  <1>1. CASE BpDoomed(call, s)
    BY <1>1 DEF BpRunning
  <1>2. CASE BpWriter(s) /\ BpWriterBus(b, s, got, gaveUp)
    <2>1. BpClean(b) => BpClean(c)
      BY BpServeClean
    <2> QED
      BY <1>2, <2>1 DEF BpRunning, BpWriterBus
  <1>3. CASE BpReader(s) /\ (~gaveUp => BpReaderBus(b, s, got))
    <2>1. ~gaveUp => BpReaderBus(c, s, got)
      BY <1>3, BpServeReader
    <2> QED
      BY <1>3, <2>1 DEF BpRunning
  <1> QED
    BY <1>1, <1>2, <1>3 DEF BpRunning

-----------------------------------------------------------------------------
(* A move that keeps the call of its kind keeps the invariant.             *)
LEMMA BpGoesOnKeeps ==
    ASSUME BpInv, bpSteps # <<>>, BpGoesOn, bpBus' \in BpBuses, bpBus'.tar = bpBus.tar,
           bpGot' \in Seq(BpBytes), bpGaveUp' \in BOOLEAN,
           BpRunning(bpCall, Tail(bpSteps), bpBus', bpGot', bpGaveUp')
    PROVE  BpInv'
  <1>1. bpSteps \in Seq(BpMoves) /\ bpBus.tar \in BpAddresses
    BY DEF BpInv, BpTypes
  <1>2. Tail(bpSteps) \in Seq(BpMoves)
    BY <1>1
  <1>3. /\ bpSteps' = Tail(bpSteps) /\ bpCall' = bpCall
        /\ bpEnd' = IF Tail(bpSteps) = <<>> THEN "ok" ELSE "running"
    BY DEF BpGoesOn
  <1>4. BpTypes'
    BY <1>1, <1>2, <1>3 DEF BpTypes
  <1>5. BpRuns'
    BY <1>3 DEF BpRuns
  <1>6. CASE bpSteps' = <<>> /\ ~bpGaveUp'
    <2>1. BpRunning(bpCall, <<>>, bpBus', bpGot', bpGaveUp')
      BY <1>3, <1>6
    <2>2. /\ BpClean(bpBus')
          /\ bpGot' # <<>> =>
                \A k \in 1 .. Len(bpGot') : bpGot'[k] = <<bpBus'.tar, bpGot'[1][2] + k - 1>>
      BY <1>6, <2>1, BpEnds
    <2>3. BpRests' /\ BpOwnAnswers'
      BY <2>2 DEF BpRests, BpOwnAnswers
    <2> QED
      BY <1>4, <1>5, <2>3 DEF BpInv
  <1>7. CASE bpSteps' # <<>> \/ bpGaveUp'
    <2>1. BpRests' /\ BpOwnAnswers'
      BY <1>3, <1>7 DEF BpRests, BpOwnAnswers
    <2> QED
      BY <1>4, <1>5, <2>1 DEF BpInv
  <1> QED
    BY <1>6, <1>7

(* Each action keeps the invariant: a call begins,                         *)
LEMMA BpBeginKeeps ==
    ASSUME BpInv, NEW call \in BpCalls, NEW a \in BpAddresses, BpBegin(call, a)
    PROVE  BpInv'
  <1> DEFINE c == DwSetTarget7bit(bpBus, a)
             s == BpProgram[call]
  <1>1. /\ bpBus \in BpBuses /\ bpGaveUp \in BOOLEAN /\ bpSteps = <<>>
        /\ bpBus' = c /\ bpSteps' = s /\ bpCall' = call /\ bpGot' = <<>>
        /\ bpEnd' = "running" /\ bpGaveUp' = bpGaveUp
    BY DEF BpInv, BpTypes, BpBegin
  <1>2. a \in Nat
    BY BpAssumption DEF BpAddresses
  <1>3. c \in BpBuses /\ c.tx = bpBus.tx /\ c.rx = bpBus.rx /\ c.tar = a
    BY <1>1, <1>2 DEF DwSetTarget7bit, BpBuses
  <1>4. BpBegins(call, s)
    BY BpProgramBegins
  <1> HIDE DEF c, s
  <1>5. ~bpGaveUp => BpClean(c)
    BY <1>1, <1>3 DEF BpInv, BpRests, BpClean
  <1>6. BpRunning(call, s, c, <<>>, bpGaveUp)
    BY <1>3, <1>4, <1>5, BpBeginRuns
  <1>7. BpTypes'
    BY <1>1, <1>3, <1>4 DEF BpTypes, BpBegins
  <1>8. BpRuns' /\ BpRests' /\ BpOwnAnswers'
    BY <1>1, <1>4, <1>6 DEF BpRuns, BpRests, BpOwnAnswers, BpBegins
  <1> QED
    BY <1>7, <1>8 DEF BpInv

(* puts a command in the FIFO,                                             *)
LEMMA BpWriteKeeps ==
    ASSUME BpInv, BpWrite
    PROVE  BpInv'
  <1>1. /\ bpBus \in BpBuses /\ bpSteps \in Seq(BpMoves) /\ bpGot \in Seq(BpBytes)
        /\ bpGaveUp \in BOOLEAN /\ bpSteps # <<>> /\ bpBus.tar \in BpAddresses
        /\ BpRunning(bpCall, bpSteps, bpBus, bpGot, bpGaveUp)
        /\ BpGoesOn /\ bpGot' = bpGot /\ bpGaveUp' = bpGaveUp
    BY DEF BpInv, BpTypes, BpRuns, BpWrite, BpAtStep, BpQuiet
  <1>2. \A kind \in {"write", "data", "read", "stop"}, reg \in {0, 1} :
           BpPut(DwCommand(bpBus, kind, reg), bpBus, kind)
    BY <1>1, BpPutBus
  <1>3. BpPut(bpBus, bpBus, "read")
    BY <1>1 DEF BpPut
  <1>4. PICK kind : /\ BpPut(bpBus', bpBus, kind)
                    /\ \/ kind = "write" /\ Head(bpSteps) \in {"cmd", "putCmd"}
                       \/ kind = "data" /\ Head(bpSteps) \in {"data", "put"}
                       \/ kind = "read" /\ Head(bpSteps) \in {"token", "ask", "askNow"}
                       \/ kind = "stop" /\ Head(bpSteps) = "stop"
    <2>1. CASE BpAtStep({"cmd", "putCmd"}) /\ bpBus' = DwIssueWriteByte(bpBus, 1)
      <3>1. BpPut(bpBus', bpBus, "write") /\ Head(bpSteps) \in {"cmd", "putCmd"}
        BY <1>2, <2>1 DEF BpAtStep, DwIssueWriteByte
      <3> QED
        BY <3>1
    <2>2. CASE BpAtStep({"data", "put"}) /\ bpBus' = DwCommand(bpBus, "data", 0)
      <3>1. BpPut(bpBus', bpBus, "data") /\ Head(bpSteps) \in {"data", "put"}
        BY <1>2, <2>2 DEF BpAtStep
      <3> QED
        BY <3>1
    <2>3. CASE /\ BpAtStep({"token", "ask", "askNow"})
               /\ bpBus' = DwIssueReadToken(bpBus) \/ bpBus' = bpBus
      <3>1. BpPut(bpBus', bpBus, "read") /\ Head(bpSteps) \in {"token", "ask", "askNow"}
        BY <1>2, <1>3, <2>3 DEF BpAtStep, DwIssueReadToken
      <3> QED
        BY <3>1
    <2>4. CASE BpAtStep({"stop"}) /\ bpBus' = DwEmitStop(bpBus)
      <3>1. BpPut(bpBus', bpBus, "stop") /\ Head(bpSteps) = "stop"
        BY <1>2, <2>4 DEF BpAtStep, DwEmitStop
      <3> QED
        BY <3>1
    <2>5. \/ BpAtStep({"cmd", "putCmd"}) /\ bpBus' = DwIssueWriteByte(bpBus, 1)
          \/ BpAtStep({"data", "put"}) /\ bpBus' = DwCommand(bpBus, "data", 0)
          \/ /\ BpAtStep({"token", "ask", "askNow"})
             /\ bpBus' = DwIssueReadToken(bpBus) \/ bpBus' = bpBus
          \/ BpAtStep({"stop"}) /\ bpBus' = DwEmitStop(bpBus)
      BY DEF BpWrite, BpAtStep
    <2> QED
      BY <2>1, <2>2, <2>3, <2>4, <2>5
  <1>5. BpRunning(bpCall, Tail(bpSteps), bpBus', bpGot, bpGaveUp)
    BY <1>1, <1>4, BpPutRuns
  <1>6. bpBus' \in BpBuses /\ bpBus'.tar = bpBus.tar
    BY <1>4 DEF BpPut
  <1> QED
    BY <1>1, <1>5, <1>6, BpGoesOnKeeps

(* takes a byte,                                                           *)
LEMMA BpReadByteKeeps ==
    ASSUME BpInv, BpReadByte
    PROVE  BpInv'
  <1>1. /\ bpBus \in BpBuses /\ bpSteps \in Seq(BpMoves) /\ bpGot \in Seq(BpBytes)
        /\ bpGaveUp \in BOOLEAN /\ bpSteps # <<>> /\ Head(bpSteps) = "byte"
        /\ BpRunning(bpCall, bpSteps, bpBus, bpGot, bpGaveUp)
        /\ BpGoesOn /\ bpGaveUp' = bpGaveUp
        /\ bpBus' = DwReadRxByte(bpBus).bus /\ bpGot' = Append(bpGot, DwReadRxByte(bpBus).byte)
    BY DEF BpInv, BpTypes, BpRuns, BpReadByte, BpAtStep
  <1>2. bpBus.rx # <<>>
    BY DEF BpReadByte, BpWaitRxFifoNotEmpty, DwGetStatus
  <1>3. /\ DwReadRxByte(bpBus).byte = Head(bpBus.rx) /\ bpBus' \in BpBuses
        /\ bpBus'.rx = Tail(bpBus.rx) /\ bpBus'.tx = bpBus.tx /\ bpBus'.tar = bpBus.tar
        /\ bpBus'.next = bpBus.next /\ Head(bpBus.rx) \in BpBytes
    BY <1>1, <1>2, BpReadBus
  <1>4. bpGot' = Append(bpGot, Head(bpBus.rx)) /\ bpGot' \in Seq(BpBytes)
    BY <1>1, <1>3, AppendProperties
  <1>5. BpRunning(bpCall, Tail(bpSteps), bpBus', bpGot', bpGaveUp)
    BY <1>1, <1>2, <1>3, <1>4, BpByteRuns
  <1> QED
    BY <1>1, <1>3, <1>4, <1>5, BpGoesOnKeeps

(* enables or disables the controller, or waits,                           *)
LEMMA BpEnableKeeps ==
    ASSUME BpInv, BpEnable \/ BpWaitRaw
    PROVE  BpInv'
  <1>1. /\ bpBus \in BpBuses /\ bpSteps \in Seq(BpMoves) /\ bpGot \in Seq(BpBytes)
        /\ bpGaveUp \in BOOLEAN /\ bpSteps # <<>>
        /\ BpRunning(bpCall, bpSteps, bpBus, bpGot, bpGaveUp)
        /\ BpGoesOn /\ bpGot' = bpGot
    BY DEF BpInv, BpTypes, BpRuns, BpEnable, BpWaitRaw, BpQuiet, BpAtStep
  <1>2. CASE Head(bpSteps) = "off" /\ bpBus' = DwEnable(bpBus, FALSE) /\ bpGaveUp' = FALSE
    <2>1. /\ bpBus' \in BpBuses /\ bpBus'.tx = <<>> /\ bpBus'.rx = <<>>
          /\ bpBus'.tar = bpBus.tar
      BY <1>1, <1>2, BpSwitchBus
    <2>2. BpRunning(bpCall, Tail(bpSteps), bpBus', bpGot, FALSE)
      BY <1>1, <1>2, <2>1, BpOffRuns
    <2> QED
      BY <1>1, <1>2, <2>1, <2>2, BpGoesOnKeeps
  <1>3. CASE /\ Head(bpSteps) \in {"on", "target", "check", "drained", "stopped"}
             /\ Head(bpSteps) = "stopped" => bpCall # "enableReadN"
             /\ \/ bpBus' = bpBus \/ bpBus' = DwEnable(bpBus, TRUE)
                \/ bpBus' = DwAckInterrupts(bpBus)
             /\ bpGaveUp' = bpGaveUp
    <2>1. /\ bpBus' \in BpBuses /\ bpBus'.tx = bpBus.tx /\ bpBus'.rx = bpBus.rx
          /\ bpBus'.tar = bpBus.tar /\ bpBus'.next = bpBus.next
      <3>1. CASE bpBus' = bpBus
        BY <1>1, <3>1
      <3>2. CASE bpBus' = DwEnable(bpBus, TRUE)
        BY <1>1, <3>2, BpSwitchBus
      <3>3. CASE bpBus' = DwAckInterrupts(bpBus)
        BY <1>1, <3>3, BpSwitchBus
      <3> QED
        BY <1>3, <3>1, <3>2, <3>3
    <2>2. BpRunning(bpCall, Tail(bpSteps), bpBus', bpGot, bpGaveUp)
      BY <1>1, <1>3, <2>1, BpWaitRuns
    <2> QED
      BY <1>1, <1>3, <2>1, <2>2, BpGoesOnKeeps
  <1> QED
    BY <1>2, <1>3 DEF BpEnable, BpWaitRaw, BpAtStep, BpQuiet

(* or reads the count of a block.                                          *)
LEMMA BpReadCountKeeps ==
    ASSUME BpInv, BpReadCount
    PROVE  BpInv'
  <1>1. /\ bpBus \in BpBuses /\ bpGot \in Seq(BpBytes) /\ bpGaveUp \in BOOLEAN
        /\ bpSteps # <<>> /\ bpEnd = "running" /\ bpBus.tar \in BpAddresses
        /\ bpBus' = DwReadRxByte(bpBus).bus /\ bpGot' = Append(bpGot, DwReadRxByte(bpBus).byte)
        /\ bpEnd' = bpEnd /\ bpGaveUp' = bpGaveUp /\ bpCall' = bpCall
    BY DEF BpInv, BpTypes, BpReadCount, BpAtStep
  <1>2. bpBus.rx # <<>>
    BY DEF BpReadCount, BpWaitRxFifoNotEmpty, DwGetStatus
  <1>3. /\ DwReadRxByte(bpBus).byte = Head(bpBus.rx) /\ bpBus' \in BpBuses
        /\ bpBus'.tar = bpBus.tar /\ Head(bpBus.rx) \in BpBytes
    BY <1>1, <1>2, BpReadBus
  <1>4. bpGot' \in Seq(BpBytes)
    BY <1>1, <1>3, AppendProperties
  <1>5. PICK n \in Nat, pec \in {0, 1} : bpSteps' = BpBlockRest(n, pec)
    BY BpAssumption DEF BpReadCount
  <1>6. bpSteps' \in Seq(BpMoves) /\ bpSteps' # <<>> /\ BpDoomed(bpCall, bpSteps')
    BY <1>5, BpBlockRestProgram
  <1>7. BpTypes'
    BY <1>1, <1>3, <1>4, <1>6 DEF BpTypes
  <1>8. BpRuns' /\ BpRests' /\ BpOwnAnswers'
    BY <1>1, <1>6 DEF BpRuns, BpRunning, BpRests, BpOwnAnswers
  <1> QED
    BY <1>7, <1>8 DEF BpInv

(* A call that fails without having given up has emptied the FIFOs.        *)
LEMMA BpFailsKeeps ==
    ASSUME BpInv, NEW taken \in BpBuses, BpFails(taken)
    PROVE  BpInv'
  <1>1. /\ bpGot' \in Seq(BpBytes) /\ bpSteps' = <<>> /\ bpEnd' = "failed"
        /\ bpSteps' \in Seq(BpMoves)
    BY DEF BpInv, BpTypes, BpFails
  <1>2. bpGaveUp' \in BOOLEAN
    BY DEF BpFails
  <1>3. /\ DwEnable(taken, FALSE) \in BpBuses /\ DwEnable(taken, FALSE).tx = <<>>
        /\ DwEnable(taken, FALSE).rx = <<>> /\ DwAckInterrupts(taken) \in BpBuses
    BY BpSwitchBus
  <1>4. /\ BpReset(taken) \in BpBuses /\ BpReset(taken).tx = <<>> /\ BpReset(taken).rx = <<>>
    BY <1>3, BpSwitchBus DEF BpReset
  <1>5. CASE bpCall \in BpResets \/ BpAtStep({"finish"})
    <2>1. bpBus' = BpReset(taken)
      BY <1>5 DEF BpFails
    <2>2. bpBus' \in BpBuses /\ BpClean(bpBus')
      BY <1>4, <2>1, BpNothing DEF BpClean
    <2> QED
      BY <1>1, <1>2, <2>2 DEF BpInv, BpTypes, BpRuns, BpRests, BpOwnAnswers
  <1>6. CASE ~(bpCall \in BpResets \/ BpAtStep({"finish"})) /\ bpCall \in BpDisables
    <2>1. bpBus' = DwEnable(taken, FALSE)
      BY <1>6 DEF BpFails, BpDisables, BpAcks
    <2>2. bpBus' \in BpBuses /\ BpClean(bpBus')
      BY <1>3, <2>1, BpNothing DEF BpClean
    <2> QED
      BY <1>1, <1>2, <2>2 DEF BpInv, BpTypes, BpRuns, BpRests, BpOwnAnswers
  <1>7. CASE ~(bpCall \in BpResets \/ BpAtStep({"finish"})) /\ bpCall \notin BpDisables
    <2>1. bpBus' = DwAckInterrupts(taken) \/ bpBus' = taken
      BY <1>7 DEF BpFails
    <2>2. bpBus' \in BpBuses
      BY <1>3, <2>1
    <2>3. bpGaveUp'
      BY <1>7 DEF BpFails
    <2> QED
      BY <1>1, <1>2, <2>2, <2>3 DEF BpInv, BpTypes, BpRuns, BpRests, BpOwnAnswers
  <1> QED
    BY <1>5, <1>6, <1>7

(* The controller serves a command.                                        *)
LEMMA BpServeKeeps ==
    ASSUME BpInv, BpServe
    PROVE  BpInv'
  <1>1. /\ bpBus \in BpBuses /\ bpSteps \in Seq(BpMoves) /\ bpGot \in Seq(BpBytes)
        /\ bpBus.tx # <<>> /\ bpBus' = DwServe(bpBus, BpPresent)
        /\ bpCall' = bpCall /\ bpSteps' = bpSteps /\ bpGot' = bpGot /\ bpEnd' = bpEnd
        /\ bpGaveUp' = bpGaveUp
    BY DEF BpInv, BpTypes, BpServe
  <1>2. BpServed(bpBus', bpBus)
    BY <1>1, BpServeBus
  <1>3. bpBus' \in BpBuses /\ bpBus'.tar = bpBus.tar
    BY <1>2 DEF BpServed
  <1>4. BpTypes'
    BY <1>1, <1>3 DEF BpInv, BpTypes
  <1>5. BpOwnAnswers'
    BY <1>1, <1>3 DEF BpInv, BpOwnAnswers
  <1>6. BpRests'
    <2>1. BpClean(bpBus) => BpClean(bpBus')
      BY <1>1, <1>2, BpServeClean
    <2> QED
      BY <1>1, <2>1 DEF BpInv, BpRests
  <1>7. BpRuns'
    <2>1. ASSUME bpSteps # <<>> PROVE BpRunning(bpCall, bpSteps, bpBus', bpGot, bpGaveUp)
      <3>1. bpBus.tar \in BpAddresses /\ BpRunning(bpCall, bpSteps, bpBus, bpGot, bpGaveUp)
        BY <2>1 DEF BpInv, BpTypes, BpRuns
      <3> QED
        BY <1>1, <1>2, <3>1, BpServeRuns
    <2> QED
      BY <1>1, <2>1 DEF BpRuns
  <1> QED
    BY <1>4, <1>5, <1>6, <1>7 DEF BpInv

(* The interrupt is acknowledged.                                          *)
LEMMA BpIsrKeeps ==
    ASSUME BpInv, BpIsr
    PROVE  BpInv'
  <1>1. /\ bpBus \in BpBuses /\ bpBus' = DwAckInterrupts(bpBus)
        /\ bpCall' = bpCall /\ bpSteps' = bpSteps /\ bpGot' = bpGot /\ bpEnd' = bpEnd
        /\ bpGaveUp' = bpGaveUp
    BY DEF BpInv, BpTypes, BpIsr
  <1>2. /\ bpBus' \in BpBuses /\ bpBus'.tx = bpBus.tx /\ bpBus'.rx = bpBus.rx
        /\ bpBus'.tar = bpBus.tar /\ bpBus'.next = bpBus.next
    BY <1>1, BpSwitchBus
  <1>3. BpTypes'
    BY <1>1, <1>2 DEF BpInv, BpTypes
  <1>4. BpOwnAnswers'
    BY <1>1, <1>2 DEF BpInv, BpOwnAnswers
  <1>5. /\ BpClean(bpBus) => BpClean(bpBus')
        /\ BpReaderBus(bpBus, bpSteps, bpGot) => BpReaderBus(bpBus', bpSteps, bpGot)
        /\ BpWriterBus(bpBus, bpSteps, bpGot, bpGaveUp) =>
              BpWriterBus(bpBus', bpSteps, bpGot, bpGaveUp)
    BY <1>2, BpSameBus
  <1>6. BpRests' /\ BpRuns'
    BY <1>1, <1>5 DEF BpInv, BpRests, BpRuns, BpRunning
  <1> QED
    BY <1>3, <1>4, <1>6 DEF BpInv

(* The invariant holds at first and is kept.                               *)
LEMMA BpInvInit == BpInit => BpInv
  <1> SUFFICES ASSUME BpInit PROVE BpInv
    OBVIOUS
  <1>1. bpBus \in BpBuses /\ bpBus.tx = <<>> /\ bpBus.rx = <<>>
    BY DEF BpInit, HalIdle, BpBuses
  <1>2. BpClean(bpBus)
    BY <1>1, BpNothing DEF BpClean
  <1>3. bpSteps = <<>> /\ bpGot = <<>> /\ bpEnd = "ok" /\ bpGaveUp = FALSE
    BY DEF BpInit
  <1>4. BpTypes
    <2>1. bpSteps \in Seq(BpMoves) /\ bpGot \in Seq(BpBytes)
      BY <1>3
    <2> QED
      BY <1>1, <1>3, <2>1 DEF BpTypes
  <1>5. BpRuns /\ BpRests /\ BpOwnAnswers
    BY <1>2, <1>3 DEF BpRuns, BpRests, BpOwnAnswers
  <1> QED
    BY <1>4, <1>5 DEF BpInv

(* Every step keeps it.                                                    *)
LEMMA BpInvStep == BpInv /\ [BpNext]_bpVars => BpInv'
  <1> SUFFICES ASSUME BpInv, [BpNext]_bpVars PROVE BpInv'
    OBVIOUS
  <1>1. CASE \E call \in BpCalls, a \in BpAddresses : BpBegin(call, a)
    BY <1>1, BpBeginKeeps
  <1>2. CASE BpWrite
    BY <1>2, BpWriteKeeps
  <1>3. CASE BpReadByte
    BY <1>3, BpReadByteKeeps
  <1>4. CASE BpEnable \/ BpWaitRaw
    BY <1>4, BpEnableKeeps
  <1>5. CASE BpReadCount
    BY <1>5, BpReadCountKeeps
  <1>6. CASE BpGiveUp
    <2>1. bpBus \in BpBuses
      BY DEF BpInv, BpTypes
    <2> QED
      BY <1>6, <2>1, BpFailsKeeps DEF BpGiveUp
  <1>7. CASE BpBadCount
    <2>1. bpBus \in BpBuses /\ bpBus.rx # <<>>
      BY <1>7 DEF BpInv, BpTypes, BpBadCount, BpWaitRxFifoNotEmpty, DwGetStatus
    <2>2. DwReadRxByte(bpBus).bus \in BpBuses
      BY <2>1, BpReadBus
    <2> QED
      BY <1>7, <2>2, BpFailsKeeps DEF BpBadCount
  <1>8. CASE BpServe
    BY <1>8, BpServeKeeps
  <1>9. CASE BpIsr
    BY <1>9, BpIsrKeeps
  <1>10. CASE UNCHANGED bpVars
    BY <1>10 DEF bpVars, BpInv, BpTypes, BpRuns, BpRests, BpOwnAnswers
  <1> QED
    BY <1>1, <1>2, <1>3, <1>4, <1>5, <1>6, <1>7, <1>8, <1>9, <1>10 DEF BpNext

(* A call that succeeds returns the answers of the device it addressed, in *)
(* order, unless an earlier one gave up and left something in the FIFOs.   *)
THEOREM BpAnswersAreOwn == BpSpec => []BpOwnAnswers
  <1>1. BpInv => BpOwnAnswers
    BY DEF BpInv
  <1> QED
    BY BpInvInit, BpInvStep, <1>1, PTL DEF BpSpec

-----------------------------------------------------------------------------
(***************************************************************************)
(* SmbusPec: the packet error code, for frames of every length.  What the  *)
(* recursive Crc8 computes is proved by the least place where it would     *)
(* not hold, since the library's induction takes an operator.              *)
(***************************************************************************)
(* A set of natural numbers has a least one.                               *)
LEMMA PecLeast ==
    ASSUME NEW S \in SUBSET Nat, S # {}
    PROVE  \E x \in S : \A y \in S : x <= y
  <1> DEFINE R == OpToRel(<, Nat)
  <1>1. \A x, y \in Nat : x < y => <<y, x>> \notin R /\ <<x, y>> \in R
    BY DEF OpToRel
  <1>2. IsWellFoundedOn(R, Nat)
    BY NatLessThanWellFounded
  <1> HIDE DEF R
  <1>3. PICK x \in S : \A y \in S : <<y, x>> \notin R
    BY <1>2, WFMin
  <1>4. ASSUME NEW y \in S PROVE x <= y
    <2>1. x \in Nat /\ y \in Nat /\ ~(y < x)
      BY <1>1, <1>3, <1>4
    <2> QED
      BY <2>1
  <1> QED
    BY <1>3, <1>4

(* The turns of the loops work on bytes, and no two bytes lead to one: bit *)
(* 0 of the result tells whether bit 7 was shifted out.                    *)
LEMMA CrcShiftBytes ==
    ASSUME NEW a \in PecBytes, NEW b \in PecBytes
    PROVE  /\ CrcShift(a) \in PecBytes /\ CrcShift({}) = {}
           /\ CrcShift(a) = CrcShift(b) => a = b
  <1>1. \A k \in 0 .. 7 : k \in {0, 1, 2, 3, 4, 5, 6, 7}
    OBVIOUS
  <1>2. /\ a \subseteq {0, 1, 2, 3, 4, 5, 6, 7} /\ b \subseteq {0, 1, 2, 3, 4, 5, 6, 7}
    BY <1>1 DEF PecBytes
  <1>3. CrcShift(a) \in PecBytes
    BY <1>2 DEF CrcShift, PecXor, ShiftLeft, PecBytes
  <1>4. CrcShift({}) = {}
    BY DEF CrcShift, ShiftLeft
  <1>5. \A c \in {a, b} :
           /\ (0 \in CrcShift(c) <=> 7 \in c)
           /\ (1 \in CrcShift(c) <=> (0 \in c <=> 7 \notin c))
           /\ (2 \in CrcShift(c) <=> (1 \in c <=> 7 \notin c))
           /\ (3 \in CrcShift(c) <=> 2 \in c) /\ (4 \in CrcShift(c) <=> 3 \in c)
           /\ (5 \in CrcShift(c) <=> 4 \in c) /\ (6 \in CrcShift(c) <=> 5 \in c)
           /\ (7 \in CrcShift(c) <=> 6 \in c)
    BY <1>2 DEF CrcShift, PecXor, ShiftLeft
  <1>6. ASSUME CrcShift(a) = CrcShift(b) PROVE a = b
    <2> DEFINE x == CrcShift(a)
               y == CrcShift(b)
    <2>1. x = y
      BY <1>6
    <2>2. \A k \in {0, 1, 2, 3, 4, 5, 6, 7} : k \in x <=> k \in y
      BY <2>1
    <2> HIDE DEF x, y
    <2>3. (7 \in a <=> 7 \in b)
      BY <1>5, <2>2 DEF x, y
    <2>4. /\ (0 \in a <=> 0 \in b) /\ (1 \in a <=> 1 \in b)
      BY <1>5, <2>2, <2>3 DEF x, y
    <2>5. /\ (2 \in a <=> 2 \in b) /\ (3 \in a <=> 3 \in b) /\ (4 \in a <=> 4 \in b)
          /\ (5 \in a <=> 5 \in b) /\ (6 \in a <=> 6 \in b)
      BY <1>5, <2>2 DEF x, y
    <2>6. \A k \in {0, 1, 2, 3, 4, 5, 6, 7} : k \in a <=> k \in b
      BY <2>3, <2>4, <2>5
    <2>7. \A k \in a : k \in b
      BY <1>2, <2>6, Zenon
    <2>8. \A k \in b : k \in a
      BY <1>2, <2>6, Zenon
    <2> QED
      BY <2>7, <2>8, Zenon
  <1> QED
    BY <1>3, <1>4, <1>6

(* Nor do eight turns, and a byte without bits stays one.                  *)
LEMMA CrcByteBytes ==
    ASSUME NEW a \in PecBytes, NEW b \in PecBytes
    PROVE  /\ CrcByte(a) \in PecBytes /\ CrcByte({}) = {}
           /\ CrcByte(a) = CrcByte(b) => a = b
  <1> DEFINE turns(c) == CrcShift(CrcShift(CrcShift(CrcShift(c))))
  <1>1. \A x, y \in PecBytes : /\ CrcShift(x) \in PecBytes
                               /\ CrcShift(x) = CrcShift(y) => x = y
    BY CrcShiftBytes
  <1>2. CrcShift({}) = {}
    BY CrcShiftBytes
  <1>3. ASSUME NEW x \in PecBytes, NEW y \in PecBytes
        PROVE  turns(x) \in PecBytes /\ (turns(x) = turns(y) => x = y)
    <2>1. CrcShift(x) \in PecBytes /\ CrcShift(y) \in PecBytes
      BY <1>1
    <2>2. CrcShift(CrcShift(x)) \in PecBytes /\ CrcShift(CrcShift(y)) \in PecBytes
      BY <1>1, <2>1
    <2>3. /\ CrcShift(CrcShift(CrcShift(x))) \in PecBytes
          /\ CrcShift(CrcShift(CrcShift(y))) \in PecBytes
      BY <1>1, <2>2
    <2> QED
      BY <1>1, <2>1, <2>2, <2>3
  <1>4. turns({}) = {}
    BY <1>2
  <1>5. CrcByte(a) = turns(turns(a)) /\ CrcByte(b) = turns(turns(b))
        /\ CrcByte({}) = turns(turns({}))
    BY DEF CrcByte
  <1> HIDE DEF turns
  <1> QED
    BY <1>3, <1>4, <1>5

(* XOR is on bytes; with another byte it gives another, with itself none.  *)
LEMMA PecXorBytes ==
    ASSUME NEW a \in PecBytes, NEW b \in PecBytes, NEW c \in PecBytes
    PROVE  /\ PecXor(a, c) \in PecBytes /\ PecXor(a, a) = {}
           /\ PecXor(a, c) = PecXor(b, c) => a = b
           /\ PecXor(c, a) = PecXor(c, b) => a = b
           /\ PecXor(a, b) = {} => a = b
  <1>1. PecXor(a, c) \in PecBytes /\ PecXor(a, a) = {}
    BY DEF PecXor, PecBytes
  <1>2. PecXor(a, c) = PecXor(b, c) => a = b
    BY DEF PecXor
  <1>3. PecXor(c, a) = PecXor(c, b) => a = b
    BY DEF PecXor
  <1>4. PecXor(a, b) = {} => a = b
    BY DEF PecXor
  <1> QED
    BY <1>1, <1>2, <1>3, <1>4

(* What the outer loop has after each byte.                                *)
PecRun(f, buf) ==
    /\ f \in [0 .. Len(buf) -> PecBytes] /\ f[0] = {}
    /\ \A k \in 1 .. Len(buf) : f[k] = CrcByte(PecXor(f[k - 1], buf[k]))

(* There is such a run, for every buffer.                                  *)
LEMMA PecRuns ==
    ASSUME NEW buf \in Seq(PecBytes)
    PROVE  \E f : PecRun(f, buf)
  <1> DEFINE n == Len(buf)
             Ok(m, f) == /\ f \in [0 .. m -> PecBytes] /\ f[0] = {}
                         /\ \A k \in 1 .. m : f[k] = CrcByte(PecXor(f[k - 1], buf[k]))
             S == {m \in 0 .. n : ~\E f : Ok(m, f)}
  <1>1. n \in Nat /\ \A k \in 1 .. n : buf[k] \in PecBytes
    OBVIOUS
  <1> HIDE DEF n
  <1>2. CASE S = {}
    <2>1. n \in 0 .. n
      BY <1>1
    <2>2. \E f : Ok(n, f)
      BY <1>2, <2>1
    <2> QED
      BY <2>2 DEF PecRun, n
  <1>3. CASE S # {}
    <2>1. S \in SUBSET Nat
      BY <1>1
    <2> HIDE DEF S
    <2>2. PICK m \in S : \A y \in S : m <= y
      BY <1>3, <2>1, PecLeast
    <2>3. m \in Nat /\ m <= n
      BY <1>1, <2>2 DEF S
    <2>4. m # 0
      <3> DEFINE f == [k \in 0 .. 0 |-> {}]
      <3>1. Ok(0, f)
        <4>1. {} \in PecBytes /\ 0 \in 0 .. 0 /\ 1 .. 0 = {}
          BY DEF PecBytes
        <4> QED
          BY <4>1
      <3>2. \E g : Ok(0, g)
        BY <3>1
      <3> HIDE DEF f, Ok
      <3> QED
        BY <3>2, <2>2 DEF S
    <2>5. m - 1 \in 0 .. n /\ ~(m <= m - 1) /\ m \in 1 .. n
      BY <2>3, <2>4, <1>1
    <2>6. PICK f : Ok(m - 1, f)
      BY <2>2, <2>5 DEF S
    <2> DEFINE g == [k \in 0 .. m |-> IF k = m THEN CrcByte(PecXor(f[m - 1], buf[m])) ELSE f[k]]
    <2>7. m - 1 \in 0 .. m - 1 /\ 0 \in 0 .. m - 1
      BY <2>3, <2>4
    <2>8. f[m - 1] \in PecBytes /\ buf[m] \in PecBytes
      BY <1>1, <2>5, <2>6, <2>7
    <2>9. CrcByte(PecXor(f[m - 1], buf[m])) \in PecBytes
      BY <2>8, PecXorBytes, CrcByteBytes
    <2>10. \A k \in 0 .. m : k = m \/ (k \in 0 .. m - 1 /\ k # m)
      BY <2>3, <2>4
    <2>11. \A k \in 1 .. m : /\ k \in 0 .. m /\ k - 1 \in 0 .. m /\ k - 1 # m
                             /\ k = m \/ k \in 1 .. m - 1
      BY <2>3, <2>4
    <2>12. Ok(m, g)
      <3>1. g \in [0 .. m -> PecBytes]
        BY <2>6, <2>9, <2>10
      <3>2. g[0] = {}
        BY <2>3, <2>4, <2>6
      <3>3. ASSUME NEW k \in 1 .. m PROVE g[k] = CrcByte(PecXor(g[k - 1], buf[k]))
        BY <2>6, <2>11, <3>3
      <3> QED
        BY <3>1, <3>2, <3>3
    <2>13. \E h : Ok(m, h)
      BY <2>12
    <2> HIDE DEF Ok
    <2> QED
      BY <2>2, <2>13 DEF S
  <1> QED
    BY <1>2, <1>3

(* Crc8 returns the end of one.                                            *)
LEMMA Crc8Runs ==
    ASSUME NEW buf \in Seq(PecBytes)
    PROVE  \E f : PecRun(f, buf) /\ Crc8(buf) = f[Len(buf)]
  <1> DEFINE D == 0 .. Len(buf)
             Loop(f) == [k \in D |-> IF k = 0 THEN {} ELSE CrcByte(PecXor(f[k - 1], buf[k]))]
             c == CHOOSE f : f = Loop(f)
  <1>1. Len(buf) \in Nat /\ \A k \in 1 .. Len(buf) : k \in D /\ k # 0 /\ k - 1 \in D
    OBVIOUS
  <1>2. PICK f : PecRun(f, buf)
    BY PecRuns
  <1>3. f = Loop(f)
    <2>1. f \in [D -> PecBytes]
      BY <1>2 DEF PecRun
    <2>2. \A k \in D : f[k] = IF k = 0 THEN {} ELSE CrcByte(PecXor(f[k - 1], buf[k]))
      BY <1>1, <1>2 DEF PecRun
    <2> QED
      BY <2>1, <2>2
  <1>4. c = Loop(c)
    <2> HIDE DEF Loop
    <2> QED
      BY <1>3, Zenon
  <1>5. Crc8(buf) = c[Len(buf)]
    BY DEF Crc8
  <1> HIDE DEF c
  <1>6. PecRun(c, buf)
    <2>1. DOMAIN c = D
      BY <1>4
    <2>2. \A k \in D : c[k] = IF k = 0 THEN {} ELSE CrcByte(PecXor(c[k - 1], buf[k]))
      BY <1>4
    <2>3. \A k \in D : c[k] \in PecBytes
      <3> DEFINE S == {k \in D : c[k] \notin PecBytes}
      <3>1. CASE S # {}
        <4>1. S \in SUBSET Nat
          BY <1>1
        <4> HIDE DEF S
        <4>2. PICK m \in S : \A y \in S : m <= y
          BY <3>1, <4>1, PecLeast
        <4>3. m \in D /\ m \in Nat /\ c[m] \notin PecBytes /\ {} \in PecBytes
          BY <4>1, <4>2 DEF S, PecBytes
        <4>4. m # 0
          BY <2>2, <4>3
        <4>5. m \in 1 .. Len(buf) /\ m - 1 \in D /\ ~(m <= m - 1)
          BY <1>1, <4>3, <4>4
        <4>6. c[m - 1] \in PecBytes /\ buf[m] \in PecBytes
          BY <4>2, <4>5 DEF S
        <4>7. c[m] = CrcByte(PecXor(c[m - 1], buf[m]))
          BY <2>2, <4>3, <4>4
        <4>8. PecXor(c[m - 1], buf[m]) \in PecBytes
          BY <4>6, PecXorBytes
        <4>9. CrcByte(PecXor(c[m - 1], buf[m])) \in PecBytes
          BY <4>8, CrcByteBytes
        <4> QED
          BY <4>3, <4>7, <4>9
      <3> QED
        BY <3>1
    <2>4. c \in [D -> PecBytes]
      <3>1. c = [k \in D |-> IF k = 0 THEN {} ELSE CrcByte(PecXor(c[k - 1], buf[k]))]
        BY <1>4
      <3> QED
        BY <2>3, <3>1
    <2> QED
      BY <1>1, <2>2, <2>4 DEF PecRun
  <1> QED
    BY <1>5, <1>6

-----------------------------------------------------------------------------
(* Two runs agree for as long as their bytes do.                           *)
LEMMA PecRunsAgree ==
    ASSUME NEW s \in Seq(PecBytes), NEW t \in Seq(PecBytes), NEW f, NEW g,
           PecRun(f, s), PecRun(g, t),
           NEW n \in Nat, n <= Len(s), n <= Len(t), \A k \in 1 .. n : s[k] = t[k]
    PROVE  f[n] = g[n]
  <1> DEFINE S == {m \in 0 .. n : f[m] # g[m]}
  <1>1. ASSUME S # {} PROVE FALSE
    <2>1. S \in SUBSET Nat
      OBVIOUS
    <2> HIDE DEF S
    <2>2. PICK m \in S : \A y \in S : m <= y
      BY <1>1, <2>1, PecLeast
    <2>3. m \in Nat /\ m <= n /\ f[m] # g[m]
      BY <2>2 DEF S
    <2>4. m # 0
      BY <2>3 DEF PecRun
    <2>5. m - 1 \in 0 .. n /\ ~(m <= m - 1) /\ m \in 1 .. n
      BY <2>3, <2>4
    <2>6. f[m - 1] = g[m - 1]
      BY <2>2, <2>5 DEF S
    <2>7. m \in 1 .. Len(s) /\ m \in 1 .. Len(t)
      BY <2>5
    <2>8. /\ f[m] = CrcByte(PecXor(f[m - 1], s[m]))
          /\ g[m] = CrcByte(PecXor(g[m - 1], t[m]))
      BY <2>7 DEF PecRun
    <2> QED
      BY <2>3, <2>5, <2>6, <2>8
  <1>2. n \in 0 .. n
    OBVIOUS
  <1> QED
    BY <1>1, <1>2

(* The code of one more byte.                                              *)
LEMMA Crc8Append ==
    ASSUME NEW s \in Seq(PecBytes), NEW x \in PecBytes
    PROVE  Crc8(Append(s, x)) = CrcByte(PecXor(Crc8(s), x))
  <1> DEFINE t == Append(s, x)
             n == Len(s)
  <1>1. /\ t \in Seq(PecBytes) /\ Len(t) = n + 1 /\ t[n + 1] = x /\ n \in Nat
        /\ \A k \in 1 .. n : t[k] = s[k]
    OBVIOUS
  <1>2. PICK f : PecRun(f, s) /\ Crc8(s) = f[n]
    BY Crc8Runs
  <1> HIDE DEF t
  <1>3. PICK g : PecRun(g, t) /\ Crc8(t) = g[Len(t)]
    BY <1>1, Crc8Runs
  <1>4. f[n] = g[n]
    <2>1. n <= Len(s) /\ n <= Len(t) /\ \A k \in 1 .. n : s[k] = t[k]
      BY <1>1
    <2> QED
      BY <1>1, <1>2, <1>3, <2>1, PecRunsAgree
  <1>5. n + 1 \in 1 .. Len(t) /\ (n + 1) - 1 = n
    BY <1>1
  <1>6. g[n + 1] = CrcByte(PecXor(g[n], t[n + 1]))
    BY <1>3, <1>5 DEF PecRun
  <1>7. Crc8(t) = CrcByte(PecXor(Crc8(s), x))
    BY <1>1, <1>2, <1>3, <1>4, <1>6
  <1> QED
    BY <1>7 DEF t

(* The code is a byte, and with its code a frame has the remainder 0.      *)
LEMMA Crc8Whole ==
    ASSUME NEW s \in Seq(PecBytes)
    PROVE  Crc8(s) \in PecBytes /\ Crc8(Append(s, Crc8(s))) = {}
  <1>1. Crc8(s) \in PecBytes
    <2>1. PICK f : PecRun(f, s) /\ Crc8(s) = f[Len(s)]
      BY Crc8Runs
    <2>2. Len(s) \in 0 .. Len(s)
      OBVIOUS
    <2> QED
      BY <2>1, <2>2 DEF PecRun
  <1>2. Crc8(Append(s, Crc8(s))) = CrcByte(PecXor(Crc8(s), Crc8(s)))
    BY <1>1, Crc8Append
  <1>3. PecXor(Crc8(s), Crc8(s)) = {} /\ CrcByte({}) = {}
    BY <1>1, PecXorBytes, CrcByteBytes
  <1> QED
    BY <1>1, <1>2, <1>3

(* Two frames that differ in one byte.                                     *)
DifferOnce(s, t) ==
    /\ Len(s) = Len(t)
    /\ \E j \in 1 .. Len(s) : s[j] # t[j] /\ \A k \in 1 .. Len(s) : k # j => s[k] = t[k]

(* They have different codes: after that byte the runs are different, and  *)
(* no later byte, which both have, makes them alike.                       *)
LEMMA Crc8Differ ==
    ASSUME NEW s \in Seq(PecBytes), NEW t \in Seq(PecBytes), DifferOnce(s, t)
    PROVE  Crc8(s) # Crc8(t)
  <1> DEFINE n == Len(s)
  <1>1. n \in Nat /\ Len(t) = n
    BY DEF DifferOnce
  <1>2. PICK j \in 1 .. n : s[j] # t[j] /\ \A k \in 1 .. n : k # j => s[k] = t[k]
    BY DEF DifferOnce
  <1>3. PICK f : PecRun(f, s) /\ Crc8(s) = f[n]
    BY Crc8Runs
  <1>4. PICK g : PecRun(g, t) /\ Crc8(t) = g[n]
    BY <1>1, Crc8Runs
  <1>5. \A k \in 1 .. n :
           /\ s[k] \in PecBytes /\ t[k] \in PecBytes
           /\ f[k - 1] \in PecBytes /\ g[k - 1] \in PecBytes
           /\ f[k] = CrcByte(PecXor(f[k - 1], s[k]))
           /\ g[k] = CrcByte(PecXor(g[k - 1], t[k]))
    <2> SUFFICES ASSUME NEW k \in 1 .. n
                 PROVE  /\ s[k] \in PecBytes /\ t[k] \in PecBytes
                        /\ f[k - 1] \in PecBytes /\ g[k - 1] \in PecBytes
                        /\ f[k] = CrcByte(PecXor(f[k - 1], s[k]))
                        /\ g[k] = CrcByte(PecXor(g[k - 1], t[k]))
      OBVIOUS
    <2>1. k - 1 \in 0 .. n
      BY <1>1
    <2>2. s[k] \in PecBytes /\ t[k] \in PecBytes
      BY <1>1
    <2>3. f[k - 1] \in PecBytes /\ g[k - 1] \in PecBytes
      BY <1>1, <1>3, <1>4, <2>1 DEF PecRun
    <2>4. /\ f[k] = CrcByte(PecXor(f[k - 1], s[k]))
          /\ g[k] = CrcByte(PecXor(g[k - 1], t[k]))
      BY <1>1, <1>3, <1>4 DEF PecRun
    <2> QED
      BY <2>2, <2>3, <2>4
  <1> HIDE DEF n
  <1>6. ASSUME NEW k \in 1 .. n, f[k] = g[k]
        PROVE  PecXor(f[k - 1], s[k]) = PecXor(g[k - 1], t[k])
    <2>1. /\ PecXor(f[k - 1], s[k]) \in PecBytes /\ PecXor(g[k - 1], t[k]) \in PecBytes
      BY <1>5, PecXorBytes
    <2>2. CrcByte(PecXor(f[k - 1], s[k])) = CrcByte(PecXor(g[k - 1], t[k]))
      BY <1>5, <1>6
    <2> QED
      BY <2>1, <2>2, CrcByteBytes
  <1> DEFINE S == {m \in j .. n : f[m] = g[m]}
  <1>7. ASSUME S # {} PROVE FALSE
    <2>1. S \in SUBSET Nat
      BY <1>1
    <2> HIDE DEF S
    <2>2. PICK m \in S : \A y \in S : m <= y
      BY <1>7, <2>1, PecLeast
    <2>3. m \in j .. n /\ f[m] = g[m]
      BY <2>2 DEF S
    <2>4. m \in 1 .. n
      BY <1>1, <2>3
    <2>5. PecXor(f[m - 1], s[m]) = PecXor(g[m - 1], t[m])
      BY <1>6, <2>3, <2>4
    <2>6. CASE m = j
      <3>1. f[m - 1] = g[m - 1]
        <4>2. /\ m - 1 \in Nat /\ m - 1 <= Len(s) /\ m - 1 <= Len(t)
              /\ \A k \in 1 .. m - 1 : k \in 1 .. n /\ k # j
          BY <1>1, <2>4, <2>6 DEF n
        <4>3. \A k \in 1 .. m - 1 : s[k] = t[k]
          BY <1>2, <4>2
        <4> QED
          BY <1>3, <1>4, <4>2, <4>3, PecRunsAgree
      <3>2. s[m] = t[m]
        <4>1. /\ s[m] \in PecBytes /\ t[m] \in PecBytes /\ f[m - 1] \in PecBytes
          BY <1>5, <2>4
        <4>2. PecXor(f[m - 1], s[m]) = PecXor(f[m - 1], t[m])
          BY <2>5, <3>1
        <4> QED
          BY <4>1, <4>2, PecXorBytes
      <3> QED
        BY <1>2, <2>6, <3>2
    <2>7. CASE m # j
      <3>1. m - 1 \in j .. n /\ ~(m <= m - 1)
        BY <1>1, <2>3, <2>7
      <3>2. f[m - 1] # g[m - 1]
        BY <2>2, <3>1 DEF S
      <3>3. s[m] = t[m]
        BY <1>2, <2>4, <2>7
      <3>4. /\ s[m] \in PecBytes /\ f[m - 1] \in PecBytes /\ g[m - 1] \in PecBytes
        BY <1>5, <2>4
      <3>5. f[m - 1] = g[m - 1]
        <4>1. PecXor(f[m - 1], s[m]) = PecXor(g[m - 1], s[m])
          BY <2>5, <3>3
        <4> QED
          BY <3>4, <4>1, PecXorBytes
      <3> QED
        BY <3>2, <3>5
    <2> QED
      BY <2>6, <2>7
  <1>8. n \in j .. n
    BY <1>1
  <1>9. f[n] # g[n]
    BY <1>7, <1>8
  <1> QED
    BY <1>3, <1>4, <1>9

-----------------------------------------------------------------------------
(* The front and the rest of two sequences put together.                   *)
LEMMA PecFront ==
    ASSUME NEW s \in Seq(PecBytes), NEW t \in Seq(PecBytes)
    PROVE  SubSeq(s \o t, 1, Len(s)) = s
  <1> DEFINE u == s \o t
             n == Len(s)
             v == SubSeq(u, 1, n)
  <1>1. Len(u) = n + Len(t) /\ n \in Nat /\ Len(t) \in Nat
    BY ConcatProperties
  <1>2. \A i \in 1 .. n : u[i] = s[i] /\ s[i] \in PecBytes
    <2>1. \A i \in 1 .. n + Len(t) : u[i] = IF i <= n THEN s[i] ELSE t[i - n]
      BY ConcatProperties, Zenon
    <2>2. \A i \in 1 .. n : i \in 1 .. n + Len(t) /\ i <= n
      BY <1>1
    <2> HIDE DEF u
    <2> QED
      BY <2>1, <2>2
  <1> HIDE DEF u
  <1>3. \A i \in 1 .. n : u[i] \in PecBytes
    BY <1>2
  <1>4. 1 \in Int /\ n \in Int /\ (n - 1) + 1 = n /\ (n < 1 => n = 0) /\ (1 <= n \/ n < 1)
    BY <1>1
  <1> HIDE DEF n
  <1>5. v \in Seq(PecBytes)
    BY <1>3, <1>4, SubSeqProperties
  <1>6. Len(v) = n
    <2>1. Len(v) = IF 1 <= n THEN n - 1 + 1 ELSE 0
      BY <1>3, <1>4, SubSeqProperties
    <2> QED
      BY <1>4, <2>1
  <1>7. \A i \in 1 .. n : v[i] = u[i]
    <2>1. \A i \in 1 .. n - 1 + 1 : v[i] = u[1 + i - 1]
      BY <1>3, <1>4, SubSeqProperties
    <2>2. \A i \in 1 .. n : 1 + i - 1 = i /\ i \in 1 .. n - 1 + 1
      BY <1>1
    <2> HIDE DEF v
    <2> QED
      BY <2>1, <2>2
  <1> HIDE DEF v
  <1>8. Len(v) = Len(s) /\ \A i \in 1 .. Len(v) : v[i] = s[i]
    BY <1>2, <1>6, <1>7 DEF n
  <1>9. v = s
    BY <1>5, <1>8, SeqEqual
  <1> QED
    BY <1>9 DEF v, u, n

(* What follows the front is the rest.                                     *)
LEMMA PecRest ==
    ASSUME NEW s \in Seq(PecBytes), NEW t \in Seq(PecBytes)
    PROVE  SubSeq(s \o t, Len(s) + 1, Len(s) + Len(t)) = t
  <1> DEFINE u == s \o t
             n == Len(s)
             k == Len(t)
             v == SubSeq(u, n + 1, n + k)
  <1>1. n \in Nat /\ k \in Nat
    OBVIOUS
  <1>2. \A i \in 1 .. k : u[n + i] = t[i] /\ t[i] \in PecBytes
    <2>1. \A i \in 1 .. n + k : u[i] = IF i <= n THEN s[i] ELSE t[i - n]
      BY ConcatProperties, Zenon
    <2>2. \A i \in 1 .. k : t[i] \in PecBytes
      OBVIOUS
    <2> HIDE DEF u, n, k
    <2>3. \A i \in 1 .. k : n + i \in 1 .. n + k /\ ~(n + i <= n) /\ (n + i) - n = i
      BY <1>1
    <2> QED
      BY <2>1, <2>2, <2>3
  <1> HIDE DEF u, n, k
  <1>3. \A i \in n + 1 .. n + k : u[i] \in PecBytes
    <2>1. \A i \in n + 1 .. n + k : i - n \in 1 .. k /\ n + (i - n) = i
      BY <1>1
    <2> QED
      BY <1>2, <2>1
  <1>4. /\ n + 1 \in Int /\ n + k \in Int /\ ((n + k) - (n + 1)) + 1 = k
        /\ (~(n + 1 <= n + k) => k = 0)
    BY <1>1
  <1>5. v \in Seq(PecBytes)
    BY <1>3, <1>4, SubSeqProperties
  <1>6. Len(v) = k
    <2>1. Len(v) = IF n + 1 <= n + k THEN (n + k) - (n + 1) + 1 ELSE 0
      BY <1>3, <1>4, SubSeqProperties
    <2> QED
      BY <1>4, <2>1
  <1>7. \A i \in 1 .. k : v[i] = u[n + i]
    <2>1. \A i \in 1 .. (n + k) - (n + 1) + 1 : v[i] = u[(n + 1) + i - 1]
      BY <1>3, <1>4, SubSeqProperties
    <2>2. \A i \in 1 .. k : (n + 1) + i - 1 = n + i /\ i \in 1 .. (n + k) - (n + 1) + 1
      BY <1>1
    <2> HIDE DEF v
    <2> QED
      BY <2>1, <2>2
  <1> HIDE DEF v
  <1>8. Len(v) = Len(t) /\ \A i \in 1 .. Len(v) : v[i] = t[i]
    BY <1>2, <1>6, <1>7 DEF k
  <1>9. v = t
    BY <1>5, <1>8, SeqEqual
  <1> QED
    BY <1>9 DEF v, u, n, k

(* The bytes put before a block.                                           *)
LEMMA PecHeaders ==
    ASSUME NEW addr \in PecBytes
    PROVE  /\ WriteHeader(addr) \in PecBytes /\ ReadHeader(addr) \in PecBytes
           /\ \A n \in Nat : PecUchar(n) \in PecBytes
  <1>1. \A k \in addr \ {7} : k + 1 \in 0 .. 7
    BY DEF PecBytes
  <1>2. ShiftLeft(addr) \in PecBytes
    BY <1>1 DEF ShiftLeft, PecBytes
  <1>3. ReadHeader(addr) \in PecBytes
    BY <1>2 DEF ReadHeader, PecBytes
  <1>4. \A n \in Nat : PecUchar(n) \in PecBytes
    BY DEF PecUchar, PecBytes
  <1> QED
    BY <1>2, <1>3, <1>4 DEF WriteHeader

(* Bytes put behind bytes.                                                 *)
LEMMA PecConcatTyped ==
    ASSUME NEW s \in Seq(PecBytes), NEW t \in Seq(PecBytes)
    PROVE  s \o t \in Seq(PecBytes) /\ Len(s \o t) = Len(s) + Len(t)
  <1>1. s \o t \in Seq(PecBytes)
    BY ConcatProperties
  <1>2. Len(s \o t) = Len(s) + Len(t)
    BY ConcatProperties
  <1> QED
    BY <1>1, <1>2

(* One more byte of a tuple.                                               *)
LEMMA PecTupleMore ==
    ASSUME NEW s \in Seq(PecBytes), NEW t \in Seq(PecBytes), NEW c \in PecBytes,
           Len(t) = Len(s) + 1, \A k \in 1 .. Len(s) : t[k] = s[k], t[Len(t)] = c
    PROVE  s \o <<c>> = t
  <1> DEFINE u == Append(s, c)
  <1>1. /\ u \in Seq(PecBytes) /\ Len(u) = Len(s) + 1
        /\ \A k \in 1 .. Len(s) : u[k] = s[k]
    BY AppendProperties
  <1>2. u[Len(s) + 1] = c
    BY AppendProperties
  <1>3. s \o <<c>> = u
    BY AppendIsConcat
  <1> HIDE DEF u
  <1>4. \A k \in 1 .. Len(u) : k \in 1 .. Len(s) \/ k = Len(s) + 1
    BY <1>1
  <1>5. \A k \in 1 .. Len(u) : u[k] = t[k]
    BY <1>1, <1>2, <1>4
  <1>6. u = t
    BY <1>1, <1>5, SeqEqual
  <1> QED
    BY <1>3, <1>6

(* The headers as they grow.                                               *)
LEMMA PecPair ==
    ASSUME NEW h \in PecBytes, NEW d \in PecBytes, NEW c \in PecBytes
    PROVE  <<h, d>> \o <<c>> = <<h, d, c>>
  <1> DEFINE s == <<h, d>>
             t == <<h, d, c>>
  <1>1. /\ s \in Seq(PecBytes) /\ t \in Seq(PecBytes) /\ Len(s) = 2 /\ Len(t) = 3
        /\ t[1] = s[1] /\ t[2] = s[2] /\ t[3] = c
    OBVIOUS
  <1>2. \A k \in 1 .. 2 : k = 1 \/ k = 2
    OBVIOUS
  <1> HIDE DEF s, t
  <1>3. /\ Len(t) = Len(s) + 1 /\ t[Len(t)] = c
        /\ \A k \in 1 .. Len(s) : t[k] = s[k]
    BY <1>1, <1>2
  <1>4. s \o <<c>> = t
    BY <1>1, <1>3, PecTupleMore
  <1> QED
    BY <1>4 DEF s, t

(* And those of a read.                                                    *)
LEMMA PecTriple ==
    ASSUME NEW h \in PecBytes, NEW d \in PecBytes, NEW r \in PecBytes, NEW c \in PecBytes
    PROVE  <<h, d, r>> \o <<c>> = <<h, d, r, c>>
  <1> DEFINE s == <<h, d, r>>
             t == <<h, d, r, c>>
  <1>1. /\ s \in Seq(PecBytes) /\ t \in Seq(PecBytes) /\ Len(s) = 3 /\ Len(t) = 4
        /\ t[1] = s[1] /\ t[2] = s[2] /\ t[3] = s[3] /\ t[4] = c
    OBVIOUS
  <1>2. \A k \in 1 .. 3 : k = 1 \/ k = 2 \/ k = 3
    OBVIOUS
  <1> HIDE DEF s, t
  <1>3. /\ Len(t) = Len(s) + 1 /\ t[Len(t)] = c
        /\ \A k \in 1 .. Len(s) : t[k] = s[k]
    BY <1>1, <1>2
  <1>4. s \o <<c>> = t
    BY <1>1, <1>3, PecTupleMore
  <1> QED
    BY <1>4 DEF s, t

(* A frame as it is sent.                                                  *)
PecWhole(frame) == frame \in Seq(PecBytes) /\ frame # <<>> /\ Crc8(frame) = {}

(* The queue's path builds the frame of I2cCtrl_SmbusBlockWrite.           *)
LEMMA PecWriteFrame ==
    ASSUME NEW addr \in PecBytes, NEW command \in PecBytes, NEW block \in Seq(PecBytes)
    PROVE  /\ PecWhole(WriteFrame(addr, command, <<PecUchar(Len(block))>> \o block))
           /\ Len(block) < PecMax =>
                 WriteFrame(addr, command, <<PecUchar(Len(block))>> \o block) =
                     BlockWriteFrame(addr, command, block)
  <1> DEFINE c == PecUchar(Len(block))
             h == WriteHeader(addr)
             payload == <<c>> \o block
             sent == SubSeq(payload, 1, PecClamp(Len(payload)))
             covered == <<h, command>> \o sent
             frame == Append(covered, Crc8(covered))
  <1>1. h \in PecBytes /\ c \in PecBytes
    <2>1. Len(block) \in Nat
      OBVIOUS
    <2> QED
      BY <2>1, PecHeaders
  <1> HIDE DEF c
  <1>0. <<c>> \in Seq(PecBytes) /\ Len(<<c>>) = 1
    BY <1>1
  <1>2. payload \in Seq(PecBytes) /\ Len(payload) = 1 + Len(block)
    BY <1>0, PecConcatTyped
  <1>3. PecClamp(Len(payload)) \in 0 .. Len(payload)
    BY <1>2, PecAssumption DEF PecClamp
  <1>4. Len(block) < PecMax => PecClamp(Len(payload)) = Len(payload)
    BY <1>2, PecAssumption DEF PecClamp
  <1> HIDE DEF h, payload
  <1>5. sent \in Seq(PecBytes)
    <2> DEFINE m == PecClamp(Len(payload))
    <2>1. m \in Int /\ 1 \in Int /\ \A i \in 1 .. m : payload[i] \in PecBytes
      BY <1>2, <1>3
    <2> HIDE DEF m
    <2>2. SubSeq(payload, 1, m) \in Seq(PecBytes)
      BY <2>1, SubSeqProperties
    <2> QED
      BY <2>2 DEF m
  <1>6. Len(block) < PecMax => sent = payload
    BY <1>2, <1>4, SubSeqFull
  <1> HIDE DEF sent
  <1>7. <<h, command>> \in Seq(PecBytes)
    BY <1>1
  <1>8. covered \in Seq(PecBytes)
    BY <1>5, <1>7, PecConcatTyped
  <1> HIDE DEF covered
  <1>9. frame \in Seq(PecBytes) /\ frame # <<>> /\ Crc8(frame) = {}
    BY <1>8, Crc8Whole, AppendProperties
  <1>10. ASSUME Len(block) < PecMax PROVE covered = <<h, command, c>> \o block
    <2>1. covered = <<h, command>> \o (<<c>> \o block)
      BY <1>6, <1>10 DEF covered, payload
    <2>2. covered = (<<h, command>> \o <<c>>) \o block
      BY <1>0, <1>7, <2>1, ConcatAssociative
    <2>3. <<h, command>> \o <<c>> = <<h, command, c>>
      BY <1>1, PecPair
    <2> QED
      BY <2>2, <2>3
  <1>11. WriteFrame(addr, command, <<c>> \o block) = frame
    BY DEF WriteFrame, frame, covered, sent, payload, h
  <1>12. ASSUME Len(block) < PecMax PROVE frame = BlockWriteFrame(addr, command, block)
    BY <1>10, <1>12 DEF BlockWriteFrame, h, c
  <1> HIDE DEF frame
  <1> QED
    BY <1>9, <1>11, <1>12 DEF PecWhole, c

(* The answer to a block read is accepted as it was sent.                  *)
LEMMA PecAnswerFrame ==
    ASSUME NEW addr \in PecBytes, NEW command \in PecBytes, NEW block \in Seq(PecBytes),
           NEW c \in PecBytes, Len(block) < PecMax
    PROVE  LET covered == <<WriteHeader(addr), command, ReadHeader(addr), c>> \o block
               frame == Append(covered, Crc8(covered))
           IN  /\ frame \in Seq(PecBytes) /\ frame # <<>> /\ Crc8(frame) = {}
               /\ ReadFrameValid(addr, command, SubSeq(frame, 4, Len(frame)))
  <1> DEFINE h == WriteHeader(addr)
             r == ReadHeader(addr)
             head == <<h, command, r>>
             payload == <<c>> \o block
             covered == <<h, command, r, c>> \o block
             x == Crc8(covered)
             frame == Append(covered, x)
             answer == payload \o <<x>>
             m == Len(payload)
  <1>1. h \in PecBytes /\ r \in PecBytes /\ <<c>> \in Seq(PecBytes) /\ Len(<<c>>) = 1
    BY PecHeaders
  <1> HIDE DEF h, r
  <1>2. head \in Seq(PecBytes) /\ Len(head) = 3
    BY <1>1
  <1>3. payload \in Seq(PecBytes) /\ Len(payload) = 1 + Len(block)
    BY <1>1, PecConcatTyped
  <1>4. covered = head \o payload
    <2>1. head \o payload = (head \o <<c>>) \o block
      BY <1>1, <1>2, ConcatAssociative
    <2>2. head \o <<c>> = <<h, command, r, c>>
      <3>1. <<h, command, r>> \o <<c>> = <<h, command, r, c>>
        BY <1>1, PecTriple
      <3> QED
        BY <3>1 DEF head
    <2> QED
      BY <2>1, <2>2
  <1> HIDE DEF head, payload
  <1>5. covered \in Seq(PecBytes)
    BY <1>2, <1>3, <1>4, PecConcatTyped
  <1> HIDE DEF covered
  <1>6. x \in PecBytes /\ frame \in Seq(PecBytes) /\ frame # <<>> /\ Crc8(frame) = {}
    BY <1>5, Crc8Whole, AppendProperties
  <1> HIDE DEF x
  <1>7. <<x>> \in Seq(PecBytes) /\ Len(<<x>>) = 1
    BY <1>6
  <1>8. answer \in Seq(PecBytes) /\ Len(answer) = Len(payload) + 1
    BY <1>3, <1>7, PecConcatTyped
  <1>9. frame = head \o answer
    <2>1. frame = covered \o <<x>>
      BY <1>5, <1>6, AppendIsConcat
    <2> QED
      BY <1>2, <1>3, <1>4, <1>7, <2>1, ConcatAssociative
  <1>10. answer[m + 1] = x
    <2>1. answer = Append(payload, x)
      BY <1>3, <1>6, AppendIsConcat
    <2> QED
      BY <1>3, <1>6, <2>1, AppendProperties
  <1>11. SubSeq(answer, 1, m) = payload
    BY <1>3, <1>7, PecFront
  <1> HIDE DEF answer, frame
  <1>12. Len(frame) = 3 + Len(answer)
    BY <1>2, <1>8, <1>9, PecConcatTyped
  <1>13. SubSeq(frame, 4, Len(frame)) = answer
    <2>1. SubSeq(head \o answer, Len(head) + 1, Len(head) + Len(answer)) = answer
      BY <1>2, <1>8, PecRest
    <2>2. Len(head) + 1 = 4 /\ Len(head) + Len(answer) = Len(frame)
      BY <1>2, <1>12
    <2> QED
      BY <1>9, <2>1, <2>2
  <1>14. m \in Nat /\ PecClamp(m) = m /\ Len(answer) = m + 1 /\ (m + 1) - 1 = m /\ m + 1 >= 2
    BY <1>3, <1>8, PecAssumption DEF PecClamp
  <1>15. ReadCovered(addr, command, payload) = covered
    <2>1. SubSeq(payload, 1, m) = payload
      BY <1>3, SubSeqFull
    <2>2. SubSeq(payload, 1, PecClamp(Len(payload))) = payload
      BY <1>14, <2>1
    <2> QED
      BY <1>4, <2>2 DEF ReadCovered, head, h, r
  <1>16. ReadFrameValid(addr, command, answer)
    <2>1. SubSeq(answer, 1, Len(answer) - 1) = payload /\ answer[Len(answer)] = x
      BY <1>10, <1>11, <1>14
    <2>2. x = Crc8(ReadCovered(addr, command, payload))
      BY <1>15 DEF x
    <2> HIDE DEF m
    <2> QED
      BY <1>14, <2>1, <2>2 DEF ReadFrameValid
  <1>17. ReadFrameValid(addr, command, SubSeq(frame, 4, Len(frame)))
    BY <1>13, <1>16
  <1>18. frame = Append(<<WriteHeader(addr), command, ReadHeader(addr), c>> \o block,
                       Crc8(<<WriteHeader(addr), command, ReadHeader(addr), c>> \o block))
    BY DEF frame, x, covered, h, r
  <1> QED
    BY <1>6, <1>17, <1>18

-----------------------------------------------------------------------------
(* The inductive invariant.  A frame that was not changed has the remainder*)
(* 0; one that was is one byte away from such a frame; and the two paths   *)
(* and the reader agree on the frame as it was sent.                       *)
PecTypes ==
    /\ pecBlock \in Seq(PecBytes) /\ pecFrame \in Seq(PecBytes) /\ pecChanged \in BOOLEAN
    /\ pecFrame = <<>> => ~pecChanged

PecCarries ==
    pecFrame # <<>> =>
        IF pecChanged
        THEN \E k \in 1 .. Len(pecFrame), b \in PecBytes :
                pecFrame[k] # b /\ Crc8([pecFrame EXCEPT ![k] = b]) = {}
        ELSE Crc8(pecFrame) = {}

PecInv == PecTypes /\ PecCarries /\ PecAgrees

(* A frame one byte away from a whole one has another remainder than 0.    *)
LEMMA PecInvDetects == PecInv => PecSound
  <1> SUFFICES ASSUME PecInv, pecFrame # <<>> PROVE (Crc8(pecFrame) = {}) <=> ~pecChanged
    BY DEF PecInv, PecSound, PecDetects
  <1>1. CASE ~pecChanged
    BY <1>1 DEF PecInv, PecCarries
  <1>2. CASE pecChanged
    <2> DEFINE s == pecFrame
    <2>1. PICK k \in 1 .. Len(s), b \in PecBytes : s[k] # b /\ Crc8([s EXCEPT ![k] = b]) = {}
      BY <1>2 DEF PecInv, PecCarries
    <2> DEFINE t == [s EXCEPT ![k] = b]
    <2>2. s \in Seq(PecBytes)
      BY DEF PecInv, PecTypes
    <2> HIDE DEF s
    <2>3. /\ t \in Seq(PecBytes) /\ Len(t) = Len(s)
          /\ \A j \in 1 .. Len(s) : t[j] = IF j = k THEN b ELSE s[j]
      BY <2>2, ExceptSeq
    <2>4. Crc8(t) = {}
      BY <2>1
    <2> HIDE DEF t
    <2>5. DifferOnce(s, t)
      BY <2>1, <2>3 DEF DifferOnce
    <2>6. Crc8(s) # Crc8(t)
      BY <2>2, <2>3, <2>5, Crc8Differ
    <2> QED
      BY <1>2, <2>4, <2>6 DEF s
  <1> QED
    BY <1>1, <1>2

(* It holds before there is a frame.                                       *)
LEMMA PecInvInit == PecInit => PecInv
  <1> SUFFICES ASSUME PecInit PROVE PecInv
    OBVIOUS
  <1>1. pecFrame = <<>> /\ pecBlock = <<>> /\ pecChanged = FALSE
    BY DEF PecInit
  <1>2. <<>> \in Seq(PecBytes)
    OBVIOUS
  <1>3. PecTypes
    BY <1>1, <1>2 DEF PecTypes
  <1> QED
    BY <1>1, <1>3 DEF PecInv, PecCarries, PecAgrees

(* Every step keeps it: a frame is built whole, and changed once at most.  *)
LEMMA PecInvNext == PecInv /\ [PecNext]_pecVars => PecInv'
  <1> SUFFICES ASSUME PecInv, [PecNext]_pecVars PROVE PecInv'
    OBVIOUS
  <1>1. pecBlock \in Seq(PecBytes) /\ pecFrame \in Seq(PecBytes) /\ pecChanged \in BOOLEAN
    BY DEF PecInv, PecTypes
  <1>2. ASSUME PecAdd PROVE PecInv'
    <2>1. pecFrame' = <<>> /\ pecFrame = <<>> /\ pecChanged' = pecChanged
      BY <1>2 DEF PecAdd
    <2>2. PICK b \in PecByte : pecBlock' = Append(pecBlock, b)
      BY <1>2 DEF PecAdd
    <2>3. b \in PecBytes
      BY PecAssumption
    <2>4. pecBlock' \in Seq(PecBytes)
      BY <1>1, <2>2, <2>3, AppendProperties
    <2>5. ~pecChanged'
      BY <2>1 DEF PecInv, PecTypes
    <2>6. PecTypes'
      BY <1>1, <2>1, <2>4, <2>5 DEF PecTypes
    <2> QED
      BY <2>1, <2>6 DEF PecInv, PecCarries, PecAgrees
  <1>3. ASSUME NEW addr \in PecAddress, NEW command \in PecCommand, PecBuild(addr, command)
        PROVE  PecInv'
    <2>1. addr \in PecBytes /\ command \in PecBytes
      BY PecAssumption
    <2>2. /\ pecFrame = <<>> /\ pecTo' = <<"write", addr, command>>
          /\ pecFrame' = WriteFrame(addr, command, <<PecUchar(Len(pecBlock))>> \o pecBlock)
          /\ pecBlock' = pecBlock /\ pecChanged' = pecChanged
      BY <1>3 DEF PecBuild
    <2>3. ~pecChanged
      BY <2>2 DEF PecInv, PecTypes
    <2>4. /\ PecWhole(pecFrame')
          /\ Len(pecBlock) < PecMax => pecFrame' = BlockWriteFrame(addr, command, pecBlock)
      BY <1>1, <2>1, <2>2, PecWriteFrame
    <2>5. PecTypes'
      BY <1>1, <2>2, <2>3, <2>4 DEF PecTypes, PecWhole
    <2>6. PecCarries'
      BY <2>2, <2>3, <2>4 DEF PecCarries, PecWhole
    <2>7. PecAgrees'
      <3>1. pecTo'[1] = "write" /\ pecTo'[2] = addr /\ pecTo'[3] = command
        BY <2>2
      <3>2. "write" # "answer"
        OBVIOUS
      <3> QED
        BY <2>2, <2>4, <3>1, <3>2 DEF PecAgrees
    <2> QED
      BY <2>5, <2>6, <2>7 DEF PecInv
  <1>4. ASSUME NEW addr \in PecAddress, NEW command \in PecCommand, PecAnswer(addr, command)
        PROVE  PecInv'
    <2> DEFINE c == PecUchar(Len(pecBlock))
               covered == <<WriteHeader(addr), command, ReadHeader(addr), c>> \o pecBlock
    <2>1. addr \in PecBytes /\ command \in PecBytes
      BY PecAssumption
    <2>2. c \in PecBytes
      <3>1. Len(pecBlock) \in Nat
        BY <1>1
      <3> QED
        BY <2>1, <3>1, PecHeaders
    <2>3. /\ pecFrame = <<>> /\ pecTo' = <<"answer", addr, command>>
          /\ pecFrame' = Append(covered, Crc8(covered)) /\ Len(pecBlock) < PecMax
          /\ pecBlock' = pecBlock /\ pecChanged' = pecChanged
      BY <1>4 DEF PecAnswer
    <2>4. ~pecChanged
      BY <2>3 DEF PecInv, PecTypes
    <2> HIDE DEF c
    <2>5. /\ pecFrame' \in Seq(PecBytes) /\ pecFrame' # <<>> /\ Crc8(pecFrame') = {}
          /\ ReadFrameValid(addr, command, SubSeq(pecFrame', 4, Len(pecFrame')))
      BY <1>1, <2>1, <2>2, <2>3, PecAnswerFrame
    <2>6. PecTypes'
      BY <1>1, <2>3, <2>4, <2>5 DEF PecTypes
    <2>7. PecCarries'
      BY <2>3, <2>4, <2>5 DEF PecCarries
    <2>8. PecAgrees'
      <3>1. pecTo'[1] = "answer" /\ pecTo'[2] = addr /\ pecTo'[3] = command
        BY <2>3
      <3>2. "write" # "answer"
        OBVIOUS
      <3> QED
        BY <2>5, <3>1, <3>2 DEF PecAgrees
    <2> QED
      BY <2>6, <2>7, <2>8 DEF PecInv
  <1>5. ASSUME PecChange PROVE PecInv'
    <2> DEFINE s == pecFrame
    <2>1. PICK k \in 1 .. Len(s), b \in PecByte : s[k] # b /\ pecFrame' = [s EXCEPT ![k] = b]
      BY <1>5 DEF PecChange
    <2>2. ~pecChanged /\ pecChanged' = TRUE /\ pecBlock' = pecBlock
      BY <1>5 DEF PecChange
    <2>3. b \in PecBytes /\ s \in Seq(PecBytes)
      BY <1>1, PecAssumption
    <2> DEFINE t == [s EXCEPT ![k] = b]
    <2>4. /\ t \in Seq(PecBytes) /\ Len(t) = Len(s)
          /\ \A j \in 1 .. Len(s) : t[j] = IF j = k THEN b ELSE s[j]
      BY <2>3, ExceptSeq
    <2>5. s # <<>> /\ Len(s) \in Nat /\ s[k] \in PecBytes
      BY <2>3
    <2>6. Crc8(s) = {}
      BY <2>2, <2>5 DEF PecInv, PecCarries
    <2>7. pecFrame' = t
      BY <2>1
    <2> HIDE DEF s, t
    <2> DEFINE u == [t EXCEPT ![k] = s[k]]
    <2>8. k \in 1 .. Len(t)
      BY <2>4
    <2>9. /\ u \in Seq(PecBytes) /\ Len(u) = Len(t)
          /\ \A j \in 1 .. Len(t) : u[j] = IF j = k THEN s[k] ELSE t[j]
      BY <2>4, <2>5, <2>8, ExceptSeq
    <2> HIDE DEF u
    <2>10. \A j \in 1 .. Len(u) : u[j] = s[j]
      BY <2>4, <2>9
    <2>11. u = s
      BY <2>3, <2>4, <2>9, <2>10, SeqEqual
    <2>12. t[k] # s[k] /\ Crc8([t EXCEPT ![k] = s[k]]) = {}
      BY <2>1, <2>4, <2>6, <2>11 DEF u
    <2>13. t # <<>>
      BY <2>4, <2>8
    <2>14. PecTypes'
      BY <1>1, <2>2, <2>4, <2>7, <2>13 DEF PecTypes
    <2>15. PecCarries'
      BY <2>2, <2>5, <2>7, <2>8, <2>12 DEF PecCarries
    <2>16. PecAgrees'
      BY <2>2 DEF PecAgrees
    <2> QED
      BY <2>14, <2>15, <2>16 DEF PecInv
  <1>6. ASSUME UNCHANGED pecVars PROVE PecInv'
    <2>1. pecTo' = pecTo /\ pecBlock' = pecBlock /\ pecFrame' = pecFrame
          /\ pecChanged' = pecChanged
      BY <1>6 DEF pecVars
    <2> QED
      BY <2>1 DEF PecInv, PecTypes, PecCarries, PecAgrees
  <1> QED
    BY <1>2, <1>3, <1>4, <1>5, <1>6 DEF PecNext

(* For blocks, frames and bytes of every kind: PecSound, that is, the PEC  *)
(* of Smbus_Crc8 and I2cCtrl_Crc8 notices every change of one byte, takes  *)
(* the frame that was sent, and is one for both paths that send a block.   *)
THEOREM PecAlwaysSound == PecSpec => []PecSound
  <1> QED
    BY PecInvInit, PecInvNext, PecInvDetects, PTL DEF PecSpec
===============================================================================
