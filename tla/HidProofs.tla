------------------------------ MODULE HidProofs -------------------------------
(***************************************************************************)
(* What i2chid keeps, however many reads, processors and fingers there     *)
(* are: the function device implements IrpContract for its reads, serves   *)
(* the input it accepted and releases what it holds; the report parsers,   *)
(* the PT emulation, the gesture sums and the configuration keep theirs,   *)
(* and detection finds the touchpad.  Each part has an inductive invariant *)
(* over its own specification.                                             *)
(***************************************************************************)
EXTENDS HidDevice, HidReports, HidTouch, HidGestures, HidConfig, HidDetect, Integers,
        FiniteSetTheorems, SequenceTheorems, TLAPS

(***************************************************************************)
(* HidDevice: READ_REPORT requests between ReadQueue, the DPCs and PnP.    *)
(***************************************************************************)
HidIrpStates == {"free", "owned", "parked", "completed"}
HidPnpStates ==
    [status : {"absent", "refused", "added", "started", "stopped", "failed", "surprised",
               "unplugged", "deleted"},
     op : {"none", "start", "stop", "surprise", "remove"},
     pc : {"idle", "connected", "initialized", "StopDevice", "flushed", "drain", "close",
           "returned", "purge"},
     irp : HidIrp \cup {HidNoIrp}]
HidRuns == [pc : {"idle", "clear", "read", "dequeue", "complete"}, irp : HidIrp \cup {HidNoIrp}]

HidReadTypes ==
    /\ hidIrp \in [HidIrp -> HidIrpStates] /\ hidQueue \in Seq(HidIrp)
    /\ hidRun \in [HidCpu -> HidRuns] /\ hidPnp \in HidPnpStates /\ hidDue \subseteq HidIrp

(* The reads in ReadQueue are the parked ones, each of them once.          *)
HidQueuedOnce ==
    /\ \A i \in DOMAIN hidQueue : hidIrp[hidQueue[i]] = "parked"
    /\ \A i, j \in DOMAIN hidQueue : hidQueue[i] = hidQueue[j] => i = j
    /\ \A r \in HidIrp : hidIrp[r] = "parked" => \E i \in DOMAIN hidQueue : hidQueue[i] = r

(* A read that was taken out is owned by the one who took it: a DPC that   *)
(* is about to complete it, or the PnP thread.                             *)
HidOneHolder ==
    /\ hidPnp.irp # HidNoIrp => hidIrp[hidPnp.irp] = "owned"
    /\ \A c \in HidCpu : hidRun[c].irp # HidNoIrp <=> hidRun[c].pc = "complete"
    /\ \A c \in HidCpu : hidRun[c].irp # HidNoIrp =>
          /\ hidIrp[hidRun[c].irp] = "owned" /\ hidRun[c].irp # hidPnp.irp
          /\ \A d \in HidCpu \ {c} : hidRun[d].irp # hidRun[c].irp

HidHas(r) == hidPnp.irp = r \/ \E c \in HidCpu : hidRun[c].irp = r

(* A read that waited when StopDevice began never waits again.             *)
HidDueLeave == \A r \in hidDue : hidIrp[r] \in {"parked", "completed"} \/ HidHas(r)

HidReadInv == HidReadTypes /\ HidQueuedOnce /\ HidOneHolder /\ HidDueLeave /\ HidStopDrains

(* The head of ReadQueue is one of its reads, and the others stay.         *)
LEMMA HidHeadTaken ==
    ASSUME HidReadInv, hidQueue # <<>>
    PROVE  /\ Head(hidQueue) \in HidIrp /\ hidIrp[Head(hidQueue)] = "parked"
           /\ Tail(hidQueue) \in Seq(HidIrp)
           /\ \A i \in DOMAIN Tail(hidQueue) :
                 /\ Tail(hidQueue)[i] \in HidIrp /\ Tail(hidQueue)[i] # Head(hidQueue)
                 /\ hidIrp[Tail(hidQueue)[i]] = "parked"
           /\ \A i, j \in DOMAIN Tail(hidQueue) : Tail(hidQueue)[i] = Tail(hidQueue)[j] => i = j
           /\ \A r \in HidIrp \ {Head(hidQueue)} : hidIrp[r] = "parked" =>
                 \E i \in DOMAIN Tail(hidQueue) : Tail(hidQueue)[i] = r
  <1>1. hidQueue \in Seq(HidIrp)
    BY DEF HidReadInv, HidReadTypes
  <1>2. Head(hidQueue) = hidQueue[1] /\ 1 \in DOMAIN hidQueue
    BY <1>1
  <1>3. \A i \in DOMAIN Tail(hidQueue) :
           i \in Nat /\ i # 0 /\ i + 1 \in DOMAIN hidQueue /\ Tail(hidQueue)[i] = hidQueue[i + 1]
    BY <1>1
  <1>4. \A i, j \in DOMAIN hidQueue : hidQueue[i] = hidQueue[j] => i = j
    BY DEF HidReadInv, HidQueuedOnce
  <1>5. \A i \in DOMAIN hidQueue : hidQueue[i] \in HidIrp /\ hidIrp[hidQueue[i]] = "parked"
    BY <1>1 DEF HidReadInv, HidQueuedOnce
  <1>6. ASSUME NEW i \in DOMAIN Tail(hidQueue) PROVE Tail(hidQueue)[i] # Head(hidQueue)
    BY <1>2, <1>3, <1>4
  <1>7. ASSUME NEW i \in DOMAIN Tail(hidQueue), NEW j \in DOMAIN Tail(hidQueue),
               Tail(hidQueue)[i] = Tail(hidQueue)[j]
        PROVE  i = j
    BY <1>3, <1>4, <1>7
  <1>8. ASSUME NEW r \in HidIrp \ {Head(hidQueue)}, hidIrp[r] = "parked"
        PROVE  \E i \in DOMAIN Tail(hidQueue) : Tail(hidQueue)[i] = r
    <2>1. PICK k \in DOMAIN hidQueue : hidQueue[k] = r
      BY <1>8 DEF HidReadInv, HidQueuedOnce
    <2>2. k # 1 /\ k \in 1 .. Len(hidQueue)
      BY <1>1, <1>2, <2>1, <1>8
    <2>3. k - 1 \in DOMAIN Tail(hidQueue) /\ Tail(hidQueue)[k - 1] = hidQueue[k]
      BY <1>1, <2>2
    <2> QED
      BY <2>1, <2>3
  <1> QED
    BY <1>1, <1>2, <1>3, <1>5, <1>6, <1>7, <1>8

(* What touches no read keeps the invariant and is a stutter.              *)
LEMMA HidReadsUntouched ==
    ASSUME HidReadInv, UNCHANGED <<hidIrp, hidQueue>>,
           hidRun' \in [HidCpu -> HidRuns], hidPnp' \in HidPnpStates,
           hidPnp'.irp = hidPnp.irp, hidPnp'.pc = "close" => hidPnp.pc = "close",
           \A c \in HidCpu : /\ hidRun'[c].irp = hidRun[c].irp
                             /\ hidRun'[c].pc = "complete" <=> hidRun[c].pc = "complete",
           hidDue' = hidDue
    PROVE  HidReadInv'
  BY DEF HidReadInv, HidReadTypes, HidQueuedOnce, HidOneHolder, HidHas, HidDueLeave,
         HidStopDrains, HidStopAt, HidDpcAt

(* The PnP thread outside the drain, power, the touchpad and the ISR move  *)
(* no read.                                                                *)
LEMMA HidPnpMoves ==
    ASSUME HidReadInv,
           \/ HidAddFails \/ HidAddDevice \/ HidStartFails \/ HidStartConnect
           \/ HidStartDevice \/ HidStartEnd \/ HidStop \/ HidSurprise \/ HidRemove \/ HidStopSkipped \/ HidStopDisconnect
           \/ HidStopClose \/ HidStopReturned \/ HidRemovePurge \/ HidRemoveDelete
           \/ HidPower \/ HidRaise \/ HidIsr
    PROVE  HidReadInv' /\ hidIrp' = hidIrp
  <1>1. UNCHANGED <<hidIrp, hidQueue, hidRun, hidDue>>
    BY DEF HidAddFails, HidAddDevice, HidStartFails, HidStartConnect, HidStartDevice,
           HidStartEnd, HidStop,
           HidSurprise, HidRemove, HidStopSkipped, HidStopDisconnect, HidStopClose,
           HidStopReturned, HidRemovePurge, HidRemoveDelete, HidPower, HidEnterD0, HidEnterDx,
           HidRaise, HidIsr, hidReadVars, hidDpcVars, hidPnpVars
  <1>2. /\ hidPnp' \in HidPnpStates /\ hidPnp'.irp = hidPnp.irp
        /\ hidPnp'.pc = "close" => hidPnp.pc = "close"
    <2> USE DEF HidReadInv, HidReadTypes, HidPnpStates
    <2>1. CASE HidAddFails \/ HidAddDevice
      BY <2>1 DEF HidAddFails, HidAddDevice
    <2>2. CASE HidStartFails \/ HidStartConnect \/ HidStartDevice \/ HidStartEnd
      BY <2>2 DEF HidStartFails, HidStartConnect, HidStartDevice, HidStartEnd
    <2>3. CASE HidStop \/ HidSurprise \/ HidRemove
      BY <2>3 DEF HidStop, HidSurprise, HidRemove, HidRequest
    <2>4. CASE HidStopSkipped \/ HidStopDisconnect \/ HidStopClose
      BY <2>4 DEF HidStopSkipped, HidStopDisconnect, HidStopClose, HidStopGoes
    <2>5. CASE HidStopReturned
      BY <2>5 DEF HidStopReturned
    <2>6. CASE HidRemovePurge \/ HidRemoveDelete
      BY <2>6 DEF HidRemovePurge, HidRemoveDelete, HidStopGoes
    <2>7. CASE HidPower \/ HidRaise \/ HidIsr
      BY <2>7 DEF HidPower, HidEnterD0, HidEnterDx, HidRaise, HidIsr, hidPnpVars
    <2> QED
      BY <2>1, <2>2, <2>3, <2>4, <2>5, <2>6, <2>7
  <1>3. hidRun \in [HidCpu -> HidRuns]
    BY DEF HidReadInv, HidReadTypes
  <1> QED
    BY <1>1, <1>2, <1>3, HidReadsUntouched

(* StopDevice notes who waits, drains ReadQueue and finds it empty.        *)
LEMMA HidStopMoves ==
    ASSUME HidReadInv, HidStopFlush \/ HidStopDrainEnd
    PROVE  HidReadInv' /\ hidIrp' = hidIrp
  <1> USE DEF HidReadInv, HidReadTypes, HidPnpStates, HidStopGoes, hidReadVars, hidDpcVars
  <1>1. CASE HidStopFlush
    <2>1. /\ UNCHANGED <<hidIrp, hidQueue, hidRun>> /\ hidDue' = Range(hidQueue)
          /\ hidPnp' \in HidPnpStates /\ hidPnp'.irp = hidPnp.irp /\ hidPnp'.pc = "flushed"
      BY <1>1 DEF HidStopFlush
    <2>2. \A r \in Range(hidQueue) : r \in HidIrp /\ hidIrp[r] = "parked"
      BY DEF HidQueuedOnce, Range
    <2> QED
      BY <2>1, <2>2 DEF HidQueuedOnce, HidOneHolder, HidHas, HidDueLeave, HidStopDrains,
                        HidStopAt, HidDpcAt
  <1>2. CASE HidStopDrainEnd
    <2>1. /\ UNCHANGED <<hidIrp, hidQueue, hidRun, hidDue>> /\ hidQueue = <<>>
          /\ hidPnp' \in HidPnpStates /\ hidPnp'.irp = hidPnp.irp
      BY <1>2 DEF HidStopDrainEnd, HidDrained
    <2>2. \A r \in HidIrp : hidIrp[r] # "parked"
      BY <2>1 DEF HidQueuedOnce
    <2>3. hidPnp.irp = HidNoIrp
      BY <1>2 DEF HidStopDrainEnd, HidDrained
    <2>4. HidStopDrains'
      BY <2>1, <2>2, <2>3, HidAssumption DEF HidOneHolder, HidHas, HidDueLeave, HidStopDrains,
         HidDpcAt
    <2> QED
      BY <2>1, <2>2, <2>4 DEF HidQueuedOnce, HidOneHolder, HidHas, HidDueLeave
  <1> QED
    BY <1>1, <1>2

(* The PnP thread takes the head out under the lock, and completes it.     *)
LEMMA HidDrainTakes ==
    ASSUME HidReadInv, HidDrainTake
    PROVE  /\ HidReadInv'
           /\ hidIrp[Head(hidQueue)] = "parked" /\ Head(hidQueue) \in HidIrp
           /\ hidIrp' = [hidIrp EXCEPT ![Head(hidQueue)] = "owned"]
  <1> DEFINE h == Head(hidQueue)
  <1>1. /\ hidQueue # <<>> /\ hidPnp.irp = HidNoIrp
        /\ hidIrp' = [hidIrp EXCEPT ![h] = "owned"] /\ hidQueue' = Tail(hidQueue)
        /\ hidPnp' = [hidPnp EXCEPT !.irp = h] /\ UNCHANGED <<hidRun, hidDue>>
        /\ hidPnp.pc \in {"drain", "purge"}
    BY DEF HidDrainTake, HidStopAt, hidDpcVars
  <1>2. /\ h \in HidIrp /\ hidIrp[h] = "parked"
        /\ Tail(hidQueue) \in Seq(HidIrp)
        /\ \A i \in DOMAIN Tail(hidQueue) :
              /\ Tail(hidQueue)[i] \in HidIrp /\ Tail(hidQueue)[i] # h
              /\ hidIrp[Tail(hidQueue)[i]] = "parked"
        /\ \A i, j \in DOMAIN Tail(hidQueue) : Tail(hidQueue)[i] = Tail(hidQueue)[j] => i = j
        /\ \A r \in HidIrp \ {h} : hidIrp[r] = "parked" =>
              \E i \in DOMAIN Tail(hidQueue) : Tail(hidQueue)[i] = r
    BY <1>1, HidHeadTaken
  <1> HIDE DEF h
  <1> USE DEF HidReadInv, HidReadTypes
  <1>3. /\ hidPnp' \in HidPnpStates /\ hidPnp'.irp = h /\ hidPnp'.pc = hidPnp.pc
    BY <1>1, <1>2 DEF HidPnpStates
  <1>4. \A r \in HidIrp : hidIrp'[r] = IF r = h THEN "owned" ELSE hidIrp[r]
    BY <1>1, <1>2
  <1>5. HidReadTypes'
    BY <1>1, <1>2, <1>3 DEF HidIrpStates
  <1>6. HidQueuedOnce'
    BY <1>1, <1>2, <1>4 DEF HidQueuedOnce
  <1>7. HidOneHolder'
    BY <1>1, <1>2, <1>3, <1>4, HidAssumption DEF HidOneHolder, HidRuns
  <1>8. HidDueLeave'
    <2>1. ASSUME NEW r \in hidDue, r # h
          PROVE  hidIrp'[r] \in {"parked", "completed"} \/ HidHas(r)'
      BY <1>1, <1>4, <2>1, HidAssumption DEF HidDueLeave, HidHas
    <2> QED
      BY <1>1, <1>3, <2>1 DEF HidDueLeave, HidHas
  <1>9. HidStopDrains'
    BY <1>1, <1>3 DEF HidStopDrains, HidStopAt, HidDpcAt
  <1> QED
    BY <1>1, <1>2, <1>5, <1>6, <1>7, <1>8, <1>9 DEF h

(* The PnP thread completes the read it took, which nobody else holds.     *)
LEMMA HidDrainCompletes ==
    ASSUME HidReadInv, HidDrainComplete
    PROVE  /\ HidReadInv'
           /\ hidPnp.irp \in HidIrp /\ hidIrp[hidPnp.irp] = "owned"
           /\ hidIrp' = [hidIrp EXCEPT ![hidPnp.irp] = "completed"]
  <1> USE DEF HidReadInv, HidReadTypes
  <1>1. /\ hidPnp.irp \in HidIrp /\ hidIrp[hidPnp.irp] = "owned"
        /\ hidIrp' = [hidIrp EXCEPT ![hidPnp.irp] = "completed"]
        /\ hidPnp' = [hidPnp EXCEPT !.irp = HidNoIrp] /\ UNCHANGED <<hidQueue, hidRun, hidDue>>
    BY DEF HidDrainComplete, HidOneHolder, HidPnpStates, hidDpcVars
  <1>2. hidPnp' \in HidPnpStates /\ hidPnp'.irp = HidNoIrp /\ hidPnp'.pc = hidPnp.pc
    BY <1>1 DEF HidPnpStates
  <1>3. \A r \in HidIrp : hidIrp'[r] = IF r = hidPnp.irp THEN "completed" ELSE hidIrp[r]
    BY <1>1
  <1>4. HidReadTypes'
    BY <1>1, <1>2 DEF HidIrpStates
  <1>5. HidQueuedOnce'
    BY <1>1, <1>3 DEF HidQueuedOnce
  <1>6. HidOneHolder'
    BY <1>1, <1>2, <1>3 DEF HidOneHolder, HidRuns
  <1>7. HidDueLeave' /\ HidStopDrains'
    BY <1>1, <1>2, <1>3 DEF HidDueLeave, HidHas, HidStopDrains, HidStopAt, HidDpcAt
  <1> QED
    BY <1>1, <1>4, <1>5, <1>6, <1>7

(* The DPC on its way to ReadQueue.                                        *)
LEMMA HidDpcMoves ==
    ASSUME HidReadInv, NEW c \in HidCpu,
           HidDpcBegin(c) \/ HidDpcClear(c) \/ HidDpcRead(c) \/ HidDequeueNothing(c)
    PROVE  HidReadInv' /\ hidIrp' = hidIrp
  <1> USE DEF HidReadInv, HidReadTypes
  <1>1. UNCHANGED <<hidIrp, hidQueue, hidPnp, hidDue>> /\ hidRun[c].pc # "complete"
    BY DEF HidDpcBegin, HidDpcClear, HidDpcRead, HidDequeueNothing, HidDpcAt,
           hidReadVars, hidPnpVars
  <1>2. \E pc \in {"idle", "clear", "read", "dequeue"} : HidDpcGoes(c, pc, HidNoIrp)
    BY DEF HidDpcBegin, HidDpcClear, HidDpcRead, HidDequeueNothing
  <1>3. hidRun' \in [HidCpu -> HidRuns]
    BY <1>2 DEF HidDpcGoes, HidRuns
  <1>4. \A d \in HidCpu : /\ hidRun'[d].irp = hidRun[d].irp
                          /\ hidRun'[d].pc = "complete" <=> hidRun[d].pc = "complete"
    BY <1>1, <1>2 DEF HidDpcGoes, HidOneHolder
  <1> QED
    BY <1>1, <1>3, <1>4, HidReadsUntouched

(* DequeueReadIrp: the head is this processor's from now on.               *)
LEMMA HidDequeues ==
    ASSUME HidReadInv, NEW c \in HidCpu, HidDequeueReadIrp(c)
    PROVE  /\ HidReadInv'
           /\ hidIrp[Head(hidQueue)] = "parked" /\ Head(hidQueue) \in HidIrp
           /\ hidIrp' = [hidIrp EXCEPT ![Head(hidQueue)] = "owned"]
  <1> DEFINE h == Head(hidQueue)
  <1>1. /\ hidQueue # <<>> /\ hidRun[c].pc = "dequeue" /\ hidPnp.irp = HidNoIrp
        /\ hidIrp' = [hidIrp EXCEPT ![h] = "owned"] /\ hidQueue' = Tail(hidQueue)
        /\ hidRun' = [hidRun EXCEPT ![c] = [pc |-> "complete", irp |-> h]]
        /\ UNCHANGED <<hidPnp, hidDue>>
    BY DEF HidDequeueReadIrp, HidDpcAt, HidDpcGoes, HidLockFree, hidPnpVars
  <1>2. /\ h \in HidIrp /\ hidIrp[h] = "parked"
        /\ Tail(hidQueue) \in Seq(HidIrp)
        /\ \A i \in DOMAIN Tail(hidQueue) :
              /\ Tail(hidQueue)[i] \in HidIrp /\ Tail(hidQueue)[i] # h
              /\ hidIrp[Tail(hidQueue)[i]] = "parked"
        /\ \A i, j \in DOMAIN Tail(hidQueue) : Tail(hidQueue)[i] = Tail(hidQueue)[j] => i = j
        /\ \A r \in HidIrp \ {h} : hidIrp[r] = "parked" =>
              \E i \in DOMAIN Tail(hidQueue) : Tail(hidQueue)[i] = r
    BY <1>1, HidHeadTaken
  <1> HIDE DEF h
  <1> USE DEF HidReadInv, HidReadTypes
  <1>3. /\ hidRun' \in [HidCpu -> HidRuns] /\ hidRun'[c] = [pc |-> "complete", irp |-> h]
        /\ \A d \in HidCpu \ {c} : hidRun'[d] = hidRun[d]
    BY <1>1, <1>2 DEF HidRuns
  <1>4. \A r \in HidIrp : hidIrp'[r] = IF r = h THEN "owned" ELSE hidIrp[r]
    BY <1>1, <1>2
  <1>5. HidReadTypes'
    BY <1>1, <1>2, <1>3 DEF HidIrpStates
  <1>6. HidQueuedOnce'
    BY <1>1, <1>2, <1>4 DEF HidQueuedOnce
  <1>7. HidOneHolder'
    <2>1. \A d \in HidCpu \ {c} : hidRun[d].irp # h
      BY <1>2, HidAssumption DEF HidOneHolder
    <2>2. \A d \in HidCpu : hidRun[d].irp \in HidIrp \cup {HidNoIrp}
      BY DEF HidRuns
    <2> QED
      BY <1>1, <1>2, <1>3, <1>4, <2>1, <2>2, HidAssumption DEF HidOneHolder
  <1>8. HidDueLeave'
    <2>1. hidRun[c].irp = HidNoIrp
      BY <1>1 DEF HidOneHolder
    <2>2. ASSUME NEW r \in hidDue, r # h
          PROVE  hidIrp'[r] \in {"parked", "completed"} \/ HidHas(r)'
      BY <1>1, <1>3, <1>4, <2>1, <2>2, HidAssumption DEF HidDueLeave, HidHas
    <2> QED
      BY <1>1, <1>3, <2>2 DEF HidDueLeave, HidHas
  <1>9. HidStopDrains'
    BY <1>1, <1>4 DEF HidStopDrains, HidStopAt, HidDpcAt
  <1> QED
    BY <1>1, <1>2, <1>5, <1>6, <1>7, <1>8, <1>9 DEF h

(* I2CHID_CompleteReadIrp completes the read this processor dequeued,      *)
(* which neither another processor nor the PnP thread holds.               *)
LEMMA HidCompletes ==
    ASSUME HidReadInv, NEW c \in HidCpu, HidCompleteReadIrp(c)
    PROVE  /\ HidReadInv'
           /\ hidRun[c].irp \in HidIrp /\ hidIrp[hidRun[c].irp] = "owned"
           /\ hidIrp' = [hidIrp EXCEPT ![hidRun[c].irp] = "completed"]
  <1> DEFINE h == hidRun[c].irp
  <1> USE DEF HidReadInv, HidReadTypes
  <1>1. /\ hidRun[c].pc = "complete" /\ UNCHANGED <<hidQueue, hidPnp, hidDue>>
        /\ hidIrp' = [hidIrp EXCEPT ![h] = "completed"]
        /\ hidRun' = [hidRun EXCEPT ![c] = [pc |-> "idle", irp |-> HidNoIrp]]
    BY DEF HidCompleteReadIrp, HidDpcAt, HidDpcGoes, hidPnpVars
  <1>2. h \in HidIrp /\ hidIrp[h] = "owned" /\ h # hidPnp.irp
        /\ \A d \in HidCpu \ {c} : hidRun[d].irp # h
    BY <1>1 DEF HidOneHolder, HidRuns
  <1>3. /\ hidRun' \in [HidCpu -> HidRuns] /\ hidRun'[c] = [pc |-> "idle", irp |-> HidNoIrp]
        /\ \A d \in HidCpu \ {c} : hidRun'[d] = hidRun[d]
    BY <1>1 DEF HidRuns
  <1>4. \A r \in HidIrp : hidIrp'[r] = IF r = h THEN "completed" ELSE hidIrp[r]
    BY <1>1, <1>2
  <1>5. HidReadTypes'
    BY <1>1, <1>2, <1>3 DEF HidIrpStates
  <1>6. HidQueuedOnce'
    BY <1>1, <1>2, <1>4 DEF HidQueuedOnce
  <1>7. HidOneHolder'
    BY <1>1, <1>2, <1>3, <1>4 DEF HidOneHolder, HidRuns, HidPnpStates
  <1>8. HidDueLeave' /\ HidStopDrains'
    BY <1>1, <1>2, <1>3, <1>4 DEF HidDueLeave, HidHas, HidStopDrains, HidStopAt, HidDpcAt
  <1> QED
    BY <1>1, <1>2, <1>5, <1>6, <1>7, <1>8

(* A read_report request arrives, is refused, or goes to the queue's tail. *)
LEMMA HidReadArrives ==
    ASSUME HidReadInv, NEW r \in HidIrp, HidReadReport(r) \/ HidReadTooSmall(r)
    PROVE  HidReadInv' /\ HidContract!Next
  <1> USE DEF HidReadInv, HidReadTypes
  <1>1. PICK from \in {"free", "owned"} : \E to \in {"owned", "completed"} :
           /\ hidIrp[r] = from /\ hidIrp' = [hidIrp EXCEPT ![r] = to]
           /\ from = "free" => to = "owned"
           /\ from = "owned" => to = "completed" /\ ~HidHas(r)
           /\ UNCHANGED <<hidQueue, hidRun, hidPnp, hidDue>>
    BY DEF HidReadReport, HidReadTooSmall, HidReceived, HidHas, hidPnpVars, hidDpcVars
  <1>2. PICK to \in {"owned", "completed"} :
           /\ hidIrp[r] = from /\ hidIrp' = [hidIrp EXCEPT ![r] = to]
           /\ from = "free" => to = "owned"
           /\ from = "owned" => to = "completed" /\ ~HidHas(r)
           /\ UNCHANGED <<hidQueue, hidRun, hidPnp, hidDue>>
    BY <1>1
  <1>3. \A s \in HidIrp : hidIrp'[s] = IF s = r THEN to ELSE hidIrp[s]
    BY <1>2
  <1>4. ~HidHas(r) /\ r \notin hidDue
    <2>1. HidHas(r) => hidIrp[r] = "owned"
      BY HidAssumption DEF HidHas, HidOneHolder
    <2> QED
      BY <1>2, <2>1 DEF HidDueLeave
  <1>5. HidReadTypes'
    BY <1>2 DEF HidIrpStates
  <1>6. HidQueuedOnce'
    BY <1>2, <1>3 DEF HidQueuedOnce
  <1>7. HidOneHolder'
    BY <1>2, <1>3, <1>4 DEF HidOneHolder, HidHas, HidRuns, HidPnpStates
  <1>8. HidDueLeave' /\ HidStopDrains'
    BY <1>2, <1>3, <1>4 DEF HidDueLeave, HidHas, HidStopDrains, HidStopAt, HidDpcAt
  <1>9. HidContract!Next
    BY <1>2 DEF HidContract!Next, HidContract!Move, HidContract!Receive, HidContract!Complete
  <1> QED
    BY <1>5, <1>6, <1>7, <1>8, <1>9

(* I2CHID_QueueReadIrp puts a read that nobody holds behind all others.    *)
LEMMA HidParks ==
    ASSUME HidReadInv, NEW r \in HidIrp, HidQueueReadIrp(r)
    PROVE  HidReadInv' /\ HidContract!Next
  <1> USE DEF HidReadInv, HidReadTypes
  <1>1. /\ hidIrp[r] = "owned" /\ hidIrp' = [hidIrp EXCEPT ![r] = "parked"]
        /\ hidQueue' = Append(hidQueue, r) /\ ~HidHas(r) /\ hidPnp.irp = HidNoIrp
        /\ UNCHANGED <<hidRun, hidPnp, hidDue>>
    BY DEF HidQueueReadIrp, HidReceived, HidLockFree, HidHas, hidPnpVars, hidDpcVars
  <1>2. \A s \in HidIrp : hidIrp'[s] = IF s = r THEN "parked" ELSE hidIrp[s]
    BY <1>1
  <1>3. r \notin hidDue
    BY <1>1 DEF HidDueLeave
  <1>4. HidReadTypes'
    BY <1>1 DEF HidIrpStates
  <1>5. /\ DOMAIN hidQueue = 1 .. Len(hidQueue) /\ Len(hidQueue) \in Nat
        /\ DOMAIN hidQueue' = 1 .. Len(hidQueue) + 1
        /\ \A i \in DOMAIN hidQueue : /\ hidQueue[i] \in HidIrp /\ hidQueue'[i] = hidQueue[i]
                                      /\ hidQueue[i] # r
        /\ hidQueue'[Len(hidQueue) + 1] = r
    BY <1>1 DEF HidQueuedOnce
  <1>6. HidQueuedOnce'
    <2>1. \A i \in DOMAIN hidQueue' : hidIrp'[hidQueue'[i]] = "parked"
      BY <1>2, <1>5 DEF HidQueuedOnce
    <2>2. \A i, j \in DOMAIN hidQueue' : hidQueue'[i] = hidQueue'[j] => i = j
      BY <1>5 DEF HidQueuedOnce
    <2>3. \A s \in HidIrp : hidIrp'[s] = "parked" => \E i \in DOMAIN hidQueue' : hidQueue'[i] = s
      BY <1>2, <1>5 DEF HidQueuedOnce
    <2> QED
      BY <2>1, <2>2, <2>3 DEF HidQueuedOnce
  <1>7. HidOneHolder'
    BY <1>1, <1>2 DEF HidOneHolder, HidHas, HidRuns, HidPnpStates
  <1>8. HidDueLeave' /\ HidStopDrains'
    BY <1>1, <1>2, <1>3 DEF HidDueLeave, HidHas, HidStopDrains, HidStopAt, HidDpcAt
  <1>9. HidContract!Next
    BY <1>1 DEF HidContract!Next, HidContract!Move, HidContract!Park
  <1> QED
    BY <1>4, <1>6, <1>7, <1>8, <1>9

(* Every step keeps the invariant and is a move of one read that the       *)
(* contract allows.                                                        *)
LEMMA HidReadInductive ==
    ASSUME HidReadInv, [HidNext]_hidVars
    PROVE  HidReadInv' /\ [HidContract!Next]_hidIrp
  <1>1. CASE UNCHANGED hidVars
    BY <1>1 DEF hidVars, hidPnpVars, hidReadVars, hidDpcVars, HidReadInv, HidReadTypes,
       HidQueuedOnce, HidOneHolder, HidHas, HidDueLeave, HidStopDrains, HidStopAt, HidDpcAt
  <1>2. CASE HidDrainTake
    BY <1>2, HidDrainTakes DEF HidContract!Next, HidContract!Move, HidContract!Take
  <1>3. CASE HidDrainComplete
    BY <1>3, HidDrainCompletes DEF HidContract!Next, HidContract!Move, HidContract!Complete
  <1>4. ASSUME NEW c \in HidCpu, HidDequeueReadIrp(c)
        PROVE  HidReadInv' /\ HidContract!Next
    BY <1>4, HidDequeues DEF HidContract!Next, HidContract!Move, HidContract!Take
  <1>5. ASSUME NEW c \in HidCpu, HidCompleteReadIrp(c)
        PROVE  HidReadInv' /\ HidContract!Next
    BY <1>5, HidCompletes DEF HidContract!Next, HidContract!Move, HidContract!Complete
  <1> QED
    BY <1>1, <1>2, <1>3, <1>4, <1>5, HidPnpMoves, HidStopMoves, HidDpcMoves, HidReadArrives,
       HidParks DEF HidNext

(* So the invariant of the reads holds at every moment.                    *)
LEMMA HidReadsKept == HidSpec => []HidReadInv
  <1>1. HidInit => HidReadInv
    BY HidAssumption DEF HidInit, HidReadInv, HidReadTypes, HidIrpStates, HidPnpStates, HidRuns,
       HidIdleRun, HidQueuedOnce, HidOneHolder, HidDueLeave, HidStopDrains, HidStopAt, HidDpcAt
  <1>2. HidReadInv /\ [HidNext]_hidVars => HidReadInv'
    BY HidReadInductive
  <1> QED
    BY <1>1, <1>2, PTL DEF HidSpec

(* i2chid implements IrpContract: however many reads wait and processors   *)
(* run the DPC, a read is completed once, by the processor or the PnP      *)
(* thread that took it out of ReadQueue, through stop, surprise removal    *)
(* and restart.                                                            *)
THEOREM HidImplementsContract == HidSpec => HidHonoursContract
  <1>1. HidInit => HidContract!Init
    BY DEF HidInit, HidContract!Init
  <1>2. HidReadInv /\ [HidNext]_hidVars => [HidContract!Next]_hidIrp
    BY HidReadInductive
  <1> QED
    BY <1>1, <1>2, HidReadsKept, PTL DEF HidSpec, HidHonoursContract, HidContract!Spec

(* When StopDevice gives the hardware back, every read that waited when it *)
(* flushed the DPCs is completed, or about to be by the DPC that dequeued  *)
(* it.                                                                     *)
THEOREM HidStopAlwaysDrains == HidSpec => []HidStopDrains
  <1>1. HidReadInv => HidStopDrains
    BY DEF HidReadInv
  <1> QED
    BY <1>1, HidReadsKept, PTL

-----------------------------------------------------------------------------
(***************************************************************************)
(* HidDevice: the PnP thread, the flags, and what the device has acquired. *)
(***************************************************************************)
HidFlagTypes ==
    /\ hidFlags \subseteq {"Started", "Removed", "PendingInput", "DpcQueued", "IdleArmed"}
    /\ hidHeld \subseteq {"device", "attached", "controller", "interface", "doslink", "interrupt"}
    /\ hidInput \in {"none", "raised", "accepted"}

(* Where the PnP thread may be in which request, and which the status is.  *)
HidPhases ==
    /\ hidPnp.op = "none" <=> hidPnp.pc = "idle"
    /\ hidPnp.op = "start" <=> hidPnp.pc \in {"connected", "initialized"}
    /\ hidPnp.op # "none" => hidPnp.status \notin {"absent", "refused", "deleted"}
    /\ hidPnp.op = "start" => hidPnp.status \in {"added", "stopped"}
    /\ hidPnp.op = "stop" => hidPnp.status = "started"
    /\ hidPnp.op \in {"none", "start", "stop"}
          /\ hidPnp.status \in {"absent", "added", "started", "stopped"} =>
             "Removed" \notin hidFlags
    /\ hidPnp.op = "surprise" =>
          hidPnp.status \in {"started", "stopped"} /\ "Removed" \in hidFlags
    /\ hidPnp.pc \in {"flushed", "drain", "close"} =>
          hidPnp.op \in {"stop", "surprise"} /\ hidPnp.status = "started"
    /\ hidPnp.pc = "purge" => hidPnp.op = "remove"
    /\ hidCame # "absent" => \/ hidPnp.op = "remove" /\ hidPnp.status = hidCame
                             \/ hidPnp.status = "deleted"
    /\ hidPnp.op = "remove" => hidCame = hidPnp.status

(* Started follows the status, and StopDevice has something to stop.       *)
HidStartedFlag ==
    /\ "Started" \in hidFlags =>
          \/ hidPnp.pc = "initialized"
          \/ /\ hidPnp.status = "started" /\ hidPnp.op \notin {"remove", "start"}
             /\ hidPnp.pc # "returned"
    /\ hidPnp.pc = "initialized" => "Started" \in hidFlags
    /\ hidPnp.op = "start" => ~hidWiped
    /\ hidPnp.status = "started" /\ hidPnp.op # "remove" /\ hidPnp.pc # "returned" =>
          "Started" \in hidFlags

(* A device that may be started has accepted no report yet.                *)
HidMayStart ==
    \/ hidPnp.status \in {"absent", "added", "stopped"} /\ hidPnp.pc # "initialized"
    \/ hidPnp.op = "stop" /\ hidPnp.pc = "returned"

HidNothingPending ==
    HidMayStart => {"Started", "PendingInput"} \cap hidFlags = {} /\ hidInput # "accepted"

(* PendingInputFlag means that a DPC will clear it, before it reads.       *)
HidServed ==
    "Started" \in hidFlags /\ "Removed" \notin hidFlags /\ ~hidWiped =>
        /\ "PendingInput" \in hidFlags =>
              "DpcQueued" \in hidFlags \/ \E c \in HidCpu : hidRun[c].pc = "clear"
        /\ hidInput = "accepted" =>
              "DpcQueued" \in hidFlags \/ \E c \in HidCpu : hidRun[c].pc \in {"clear", "read"}

(* After the flush of a surprise removal no DPC runs and none is queued.   *)
HidFlushed ==
    \/ hidPnp.status = "started" /\ hidPnp.op = "surprise" /\ hidPnp.pc # "StopDevice"
    \/ hidPnp.status = "surprised" \/ hidCame = "surprised"

HidQuiet ==
    HidFlushed => /\ "Removed" \in hidFlags /\ "DpcQueued" \notin hidFlags
                  /\ \A c \in HidCpu : hidRun[c] = HidIdleRun

(* What StopDevice has given back, as far as it has come.                  *)
HidStopped ==
    \/ hidPnp.status = "stopped" /\ hidPnp.op # "start"
    \/ hidPnp.status \in {"surprised", "unplugged"}
    \/ hidPnp.status = "started" /\ hidPnp.op \in {"stop", "surprise"} /\ hidPnp.pc = "returned"

HidReleased ==
    /\ hidPnp.pc \in {"drain", "close"} => "interrupt" \notin hidHeld
    /\ HidStopped => {"controller", "interrupt"} \cap hidHeld = {}
    /\ hidPnp.status = "deleted" /\ hidCame \in {"surprised", "stopped", "unplugged"} =>
          hidHeld \subseteq {"doslink"}
    /\ hidPnp.status \in {"added", "failed"} /\ hidPnp.op # "start" => "interrupt" \notin hidHeld
    /\ hidPnp.status \in {"added", "stopped"} /\ hidPnp.op = "none" => "interrupt" \notin hidHeld
    /\ hidPnp.status = "deleted" => hidHeld \subseteq {"doslink", "controller", "interrupt"}
    /\ hidPnp.status = "deleted" /\ hidCame \in {"added", "failed"} =>
          hidHeld \subseteq {"doslink", "controller"}
    /\ hidPnp.status = "refused" => hidHeld = {}

HidPnpInv ==
    /\ HidFlagTypes /\ HidPhases /\ HidStartedFlag /\ HidNothingPending /\ HidServed
    /\ HidQuiet /\ HidReleased

(* AddDevice and IRP_MN_START_DEVICE. *)
LEMMA HidAddAndStart ==
    ASSUME HidReadInv, HidPnpInv,
           \/ HidAddFails \/ HidAddDevice \/ HidStartFails
           \/ HidStartConnect \/ HidStartDevice \/ HidStartEnd
    PROVE  HidPnpInv'
  <1> USE DEF HidReadInv, HidReadTypes, HidPnpStates, HidPnpInv,
        HidUnwind, HidAddFailure, HidInitializeDpc, HidResetFlags, hidStartVars, hidReadVars, hidDpcVars
  <1>1. CASE HidAddFails
    <2> USE <1>1 DEF HidAddFails
    <2>1. HidFlagTypes'
      BY DEF HidFlagTypes
    <2>2. HidPhases'
      BY DEF HidPhases, HidStartedFlag
    <2>3. HidStartedFlag'
      BY DEF HidStartedFlag, HidPhases
    <2>4. HidNothingPending'
      BY DEF HidNothingPending, HidMayStart, HidPhases, HidStartedFlag
    <2>5. HidServed'
      BY DEF HidServed, HidPhases, HidStartedFlag, HidNothingPending, HidMayStart
    <2>6. HidQuiet'
      BY DEF HidQuiet, HidFlushed, HidPhases, HidStartedFlag
    <2>7. HidReleased'
      BY DEF HidReleased, HidFlagTypes, HidStopped, HidPhases, HidStartedFlag
    <2> QED
      BY <2>1, <2>2, <2>3, <2>4, <2>5, <2>6, <2>7
  <1>2. CASE HidAddDevice
    <2> USE <1>2 DEF HidAddDevice
    <2>1. HidFlagTypes'
      BY DEF HidFlagTypes
    <2>2. HidPhases'
      BY DEF HidPhases, HidStartedFlag
    <2>3. HidStartedFlag'
      BY DEF HidStartedFlag, HidPhases
    <2>4. HidNothingPending'
      BY DEF HidNothingPending, HidMayStart, HidPhases, HidStartedFlag
    <2>5. HidServed'
      BY DEF HidServed, HidPhases, HidStartedFlag, HidNothingPending, HidMayStart
    <2>6. HidQuiet'
      BY DEF HidQuiet, HidFlushed, HidPhases, HidStartedFlag
    <2>7. HidReleased'
      BY DEF HidReleased, HidFlagTypes, HidStopped, HidPhases, HidStartedFlag
    <2> QED
      BY <2>1, <2>2, <2>3, <2>4, <2>5, <2>6, <2>7
  <1>3. CASE HidStartFails
    <2> USE <1>3 DEF HidStartFails
    <2>1. HidFlagTypes'
      BY DEF HidFlagTypes
    <2>2. HidPhases'
      BY DEF HidPhases, HidStartedFlag
    <2>3. HidStartedFlag'
      BY DEF HidStartedFlag, HidPhases
    <2>4. HidNothingPending'
      BY DEF HidNothingPending, HidMayStart, HidPhases, HidStartedFlag
    <2>5. HidServed'
      BY DEF HidServed, HidPhases, HidStartedFlag, HidNothingPending, HidMayStart
    <2>6. HidQuiet'
      BY DEF HidQuiet, HidFlushed, HidPhases, HidStartedFlag
    <2>7. HidReleased'
      BY DEF HidReleased, HidFlagTypes, HidStopped, HidPhases, HidStartedFlag
    <2> QED
      BY <2>1, <2>2, <2>3, <2>4, <2>5, <2>6, <2>7
  <1>4. CASE HidStartConnect
    <2> USE <1>4 DEF HidStartConnect
    <2>1. HidFlagTypes'
      BY DEF HidFlagTypes
    <2>2. HidPhases'
      BY DEF HidPhases, HidStartedFlag
    <2>3. HidStartedFlag'
      BY DEF HidStartedFlag, HidPhases
    <2>4. HidNothingPending'
      BY DEF HidNothingPending, HidMayStart, HidPhases, HidStartedFlag
    <2>5. HidServed'
      BY DEF HidServed, HidPhases, HidStartedFlag, HidNothingPending, HidMayStart
    <2>6. HidQuiet'
      BY DEF HidQuiet, HidFlushed, HidPhases, HidStartedFlag
    <2>7. HidReleased'
      BY DEF HidReleased, HidFlagTypes, HidStopped, HidPhases, HidStartedFlag
    <2> QED
      BY <2>1, <2>2, <2>3, <2>4, <2>5, <2>6, <2>7
  <1>5. CASE HidStartEnd
    <2>0. /\ hidPnp.pc = "initialized" /\ hidPnp.op = "start"
          /\ hidPnp.status \in {"added", "stopped"} /\ "Removed" \notin hidFlags
          /\ hidFlags' \in {hidFlags, hidFlags \ {"DpcQueued"}} /\ "Started" \in hidFlags
          /\ ~hidWiped /\ (~hidWiped' => hidFlags' = hidFlags)
          /\ hidPnp'.status = "started" /\ hidPnp'.op = "none" /\ hidPnp'.pc = "idle"
          /\ UNCHANGED <<hidHeld, hidCame, hidInput, hidRun>>
      <3>1. /\ hidPnp.pc = "initialized" /\ hidPnp.op = "start"
            /\ hidPnp.status \in {"added", "stopped"} /\ "Removed" \notin hidFlags
            /\ "Started" \in hidFlags /\ ~hidWiped
        BY <1>5 DEF HidStartEnd, HidPhases, HidStartedFlag
      <3>2. (hidFlags \ {"Removed"}) \cup {"Started"} = hidFlags
        BY <3>1 DEF HidFlagTypes
      <3>3. hidFlags' \in {hidFlags, hidFlags \ {"DpcQueued"}}
        BY <1>5, <3>2 DEF HidStartEnd
      <3>4. ~hidWiped' => hidFlags' = hidFlags
        <4>1. "DpcQueued" \in hidFlags /\ "DpcQueued" \notin hidFlags' => hidWiped'
          BY <1>5 DEF HidStartEnd
        <4>2. "DpcQueued" \notin hidFlags => hidFlags \ {"DpcQueued"} = hidFlags
          OBVIOUS
        <4>3. hidFlags' # hidFlags => "DpcQueued" \in hidFlags /\ "DpcQueued" \notin hidFlags'
          BY <3>3, <4>2
        <4> QED
          BY <4>1, <4>3
      <3> QED
        BY <1>5, <3>1, <3>3, <3>4 DEF HidStartEnd
    <2>1. HidFlagTypes'
      BY <2>0 DEF HidFlagTypes
    <2>2. HidPhases'
      BY <2>0 DEF HidPhases, HidStartedFlag
    <2>3. HidStartedFlag'
      BY <2>0 DEF HidStartedFlag, HidPhases
    <2>4. HidNothingPending'
      BY <2>0 DEF HidNothingPending, HidMayStart, HidPhases, HidStartedFlag
    <2>5. HidServed'
      BY <2>0 DEF HidServed, HidPhases, HidStartedFlag, HidNothingPending, HidMayStart
    <2>6. HidQuiet'
      BY <2>0 DEF HidQuiet, HidFlushed, HidPhases, HidStartedFlag
    <2>7. HidReleased'
      BY <2>0 DEF HidReleased, HidFlagTypes, HidStopped, HidPhases, HidStartedFlag
    <2> QED
      BY <2>1, <2>2, <2>3, <2>4, <2>5, <2>6, <2>7
  <1>6. CASE HidStartDevice
    <2>0. /\ hidPnp.pc = "connected" /\ hidFlags' = hidFlags \cup {"Started"}
          /\ hidPnp'.status = hidPnp.status /\ hidPnp'.op = hidPnp.op
          /\ hidPnp'.pc = "initialized"
          /\ UNCHANGED <<hidHeld, hidCame, hidWiped, hidInput, hidRun>>
      BY <1>6 DEF HidStartDevice
    <2>1. HidFlagTypes'
      BY <2>0 DEF HidFlagTypes
    <2>2. HidPhases'
      BY <2>0 DEF HidPhases, HidStartedFlag
    <2>3. HidStartedFlag'
      BY <2>0 DEF HidStartedFlag, HidPhases
    <2>4. HidNothingPending'
      BY <2>0 DEF HidNothingPending, HidMayStart, HidPhases, HidStartedFlag
    <2>5. HidServed'
      BY <2>0 DEF HidServed, HidPhases, HidStartedFlag, HidNothingPending, HidMayStart
    <2>6. HidQuiet'
      BY <2>0 DEF HidQuiet, HidFlushed, HidPhases, HidStartedFlag
    <2>7. HidReleased'
      BY <2>0 DEF HidReleased, HidFlagTypes, HidStopped, HidPhases, HidStartedFlag
    <2> QED
      BY <2>1, <2>2, <2>3, <2>4, <2>5, <2>6, <2>7
  <1> QED
    BY <1>1, <1>2, <1>3, <1>4, <1>5, <1>6

(* A STOP, SURPRISE_REMOVAL or REMOVE request begins. *)
LEMMA HidRequestsBegin ==
    ASSUME HidReadInv, HidPnpInv,
           \/ HidStop \/ HidSurprise \/ HidRemove
    PROVE  HidPnpInv'
  <1> USE DEF HidReadInv, HidReadTypes, HidPnpStates, HidPnpInv,
        HidRequest, hidReadVars, hidDpcVars, hidStartVars
  <1>1. CASE HidStop
    <2> USE <1>1 DEF HidStop
    <2>1. HidFlagTypes'
      BY DEF HidFlagTypes
    <2>2. HidPhases'
      BY DEF HidPhases, HidStartedFlag
    <2>3. HidStartedFlag'
      BY DEF HidStartedFlag, HidPhases
    <2>4. HidNothingPending'
      BY DEF HidNothingPending, HidMayStart, HidPhases, HidStartedFlag
    <2>5. HidServed'
      BY DEF HidServed, HidPhases, HidStartedFlag, HidNothingPending, HidMayStart
    <2>6. HidQuiet'
      BY DEF HidQuiet, HidFlushed, HidPhases, HidStartedFlag
    <2>7. HidReleased'
      BY DEF HidReleased, HidFlagTypes, HidStopped, HidPhases, HidStartedFlag
    <2> QED
      BY <2>1, <2>2, <2>3, <2>4, <2>5, <2>6, <2>7
  <1>2. CASE HidSurprise
    <2> USE <1>2 DEF HidSurprise
    <2>1. HidFlagTypes'
      BY DEF HidFlagTypes
    <2>2. HidPhases'
      BY DEF HidPhases, HidStartedFlag
    <2>3. HidStartedFlag'
      BY DEF HidStartedFlag, HidPhases
    <2>4. HidNothingPending'
      BY DEF HidNothingPending, HidMayStart, HidPhases, HidStartedFlag
    <2>5. HidServed'
      BY DEF HidServed, HidPhases, HidStartedFlag, HidNothingPending, HidMayStart
    <2>6. HidQuiet'
      BY DEF HidQuiet, HidFlushed, HidPhases, HidStartedFlag
    <2>7. HidReleased'
      BY DEF HidReleased, HidFlagTypes, HidStopped, HidPhases, HidStartedFlag
    <2> QED
      BY <2>1, <2>2, <2>3, <2>4, <2>5, <2>6, <2>7
  <1>3. CASE HidRemove
    <2> USE <1>3 DEF HidRemove
    <2>1. HidFlagTypes'
      BY DEF HidFlagTypes
    <2>2. HidPhases'
      BY DEF HidPhases, HidStartedFlag
    <2>3. HidStartedFlag'
      BY DEF HidStartedFlag, HidPhases
    <2>4. HidNothingPending'
      BY DEF HidNothingPending, HidMayStart, HidPhases, HidStartedFlag
    <2>5. HidServed'
      BY DEF HidServed, HidPhases, HidStartedFlag, HidNothingPending, HidMayStart
    <2>6. HidQuiet'
      BY DEF HidQuiet, HidFlushed, HidPhases, HidStartedFlag
    <2>7. HidReleased'
      BY DEF HidReleased, HidFlagTypes, HidStopped, HidPhases, HidStartedFlag
    <2> QED
      BY <2>1, <2>2, <2>3, <2>4, <2>5, <2>6, <2>7
  <1> QED
    BY <1>1, <1>2, <1>3

(* The steps of I2CHID_StopDevice. *)
LEMMA HidStopDeviceSteps ==
    ASSUME HidReadInv, HidPnpInv,
           \/ HidStopSkipped \/ HidStopFlush \/ HidStopDisconnect
           \/ HidStopDrainEnd \/ HidStopClose
    PROVE  HidPnpInv'
  <1> USE DEF HidPnpInv
  <1>1. CASE HidStopSkipped
    <2>0. /\ hidPnp.pc = "StopDevice" /\ "Started" \notin hidFlags
          /\ hidPnp'.status = hidPnp.status /\ hidPnp'.op = hidPnp.op /\ hidPnp'.pc = "returned"
          /\ UNCHANGED <<hidHeld, hidCame, hidWiped, hidFlags, hidInput, hidRun>>
      BY <1>1 DEF HidReadInv, HidReadTypes, HidPnpStates, HidStopSkipped, HidStopAt, HidStopGoes,
         hidReadVars, hidDpcVars, hidStartVars
    <2>1. HidFlagTypes'
      BY <2>0 DEF HidFlagTypes
    <2>2. HidPhases'
      BY <2>0 DEF HidPhases, HidStartedFlag
    <2>3. HidStartedFlag'
      BY <2>0 DEF HidStartedFlag, HidPhases
    <2>4. HidNothingPending'
      BY <2>0 DEF HidNothingPending, HidMayStart, HidPhases, HidStartedFlag
    <2>5. HidServed'
      BY <2>0 DEF HidServed, HidPhases, HidStartedFlag, HidNothingPending, HidMayStart
    <2>6. HidQuiet'
      BY <2>0 DEF HidQuiet, HidFlushed, HidPhases, HidStartedFlag
    <2>7. HidReleased'
      BY <2>0 DEF HidReleased, HidFlagTypes, HidStopped, HidPhases, HidStartedFlag
    <2> QED
      BY <2>1, <2>2, <2>3, <2>4, <2>5, <2>6, <2>7
  <1>2. CASE HidStopFlush
    <2>0. /\ hidPnp.op \in {"none", "start", "stop", "surprise", "remove"}
          /\ hidPnp.pc = "StopDevice" /\ "Started" \in hidFlags /\ "DpcQueued" \notin hidFlags
          /\ \A c \in HidCpu : hidRun[c] = HidIdleRun
          /\ hidFlags' = hidFlags \ {"IdleArmed"}
          /\ hidPnp'.status = hidPnp.status /\ hidPnp'.op = hidPnp.op /\ hidPnp'.pc = "flushed"
          /\ UNCHANGED <<hidHeld, hidCame, hidWiped, hidInput, hidRun>>
      BY <1>2 DEF HidReadInv, HidReadTypes, HidPnpStates, HidStopFlush, HidStopAt, HidStopGoes,
                  hidStartVars,
         HidReadTypes, HidOneHolder, HidRuns, HidIdleRun
    <2>1. HidFlagTypes'
      BY <2>0 DEF HidFlagTypes
    <2>2. HidPhases'
      BY <2>0 DEF HidPhases, HidStartedFlag
    <2>3. HidStartedFlag'
      BY <2>0 DEF HidStartedFlag, HidPhases
    <2>4. HidNothingPending'
      BY <2>0 DEF HidNothingPending, HidMayStart, HidPhases, HidStartedFlag
    <2>5. HidServed'
      BY <2>0 DEF HidServed, HidPhases, HidStartedFlag, HidNothingPending, HidMayStart
    <2>6. HidQuiet'
      BY <2>0 DEF HidQuiet, HidFlushed, HidPhases, HidStartedFlag
    <2>7. HidReleased'
      BY <2>0 DEF HidReleased, HidFlagTypes, HidStopped, HidPhases, HidStartedFlag
    <2> QED
      BY <2>1, <2>2, <2>3, <2>4, <2>5, <2>6, <2>7
  <1>3. CASE HidStopDisconnect
    <2>0. /\ hidPnp.pc = "flushed" /\ hidHeld' = hidHeld \ {"interrupt"}
          /\ hidPnp'.status = hidPnp.status /\ hidPnp'.op = hidPnp.op /\ hidPnp'.pc = "drain"
          /\ UNCHANGED <<hidCame, hidWiped, hidFlags, hidInput, hidRun>>
      BY <1>3 DEF HidReadInv, HidReadTypes, HidPnpStates, HidStopDisconnect, HidStopAt,
                  HidStopGoes,
         hidReadVars, hidDpcVars, hidStartVars
    <2>1. HidFlagTypes'
      BY <2>0 DEF HidFlagTypes
    <2>2. HidPhases'
      BY <2>0 DEF HidPhases, HidStartedFlag
    <2>3. HidStartedFlag'
      BY <2>0 DEF HidStartedFlag, HidPhases
    <2>4. HidNothingPending'
      BY <2>0 DEF HidNothingPending, HidMayStart, HidPhases, HidStartedFlag
    <2>5. HidServed'
      BY <2>0 DEF HidServed, HidPhases, HidStartedFlag, HidNothingPending, HidMayStart
    <2>6. HidQuiet'
      BY <2>0 DEF HidQuiet, HidFlushed, HidPhases, HidStartedFlag
    <2>7. HidReleased'
      BY <2>0 DEF HidReleased, HidFlagTypes, HidStopped, HidPhases, HidStartedFlag
    <2> QED
      BY <2>1, <2>2, <2>3, <2>4, <2>5, <2>6, <2>7
  <1>4. CASE HidStopDrainEnd
    <2>0. /\ hidPnp.pc = "drain"
          /\ hidPnp'.status = hidPnp.status /\ hidPnp'.op = hidPnp.op /\ hidPnp'.pc = "close"
          /\ UNCHANGED <<hidHeld, hidCame, hidWiped, hidFlags, hidInput, hidRun>>
      BY <1>4 DEF HidReadInv, HidReadTypes, HidPnpStates, HidStopDrainEnd, HidStopAt, HidStopGoes,
         hidReadVars, hidDpcVars, hidStartVars
    <2>1. HidFlagTypes'
      BY <2>0 DEF HidFlagTypes
    <2>2. HidPhases'
      BY <2>0 DEF HidPhases, HidStartedFlag
    <2>3. HidStartedFlag'
      BY <2>0 DEF HidStartedFlag, HidPhases
    <2>4. HidNothingPending'
      BY <2>0 DEF HidNothingPending, HidMayStart, HidPhases, HidStartedFlag
    <2>5. HidServed'
      BY <2>0 DEF HidServed, HidPhases, HidStartedFlag, HidNothingPending, HidMayStart
    <2>6. HidQuiet'
      BY <2>0 DEF HidQuiet, HidFlushed, HidPhases, HidStartedFlag
    <2>7. HidReleased'
      BY <2>0 DEF HidReleased, HidFlagTypes, HidStopped, HidPhases, HidStartedFlag
    <2> QED
      BY <2>1, <2>2, <2>3, <2>4, <2>5, <2>6, <2>7
  <1>5. CASE HidStopClose
    <2>0. /\ hidPnp.pc = "close" /\ hidHeld' = hidHeld \ {"controller", "interface"}
          /\ hidFlags' = hidFlags \ {"PendingInput", "Started"}
          /\ hidInput' \in {"none", "raised"}
          /\ hidPnp'.status = hidPnp.status /\ hidPnp'.op = hidPnp.op /\ hidPnp'.pc = "returned"
          /\ UNCHANGED <<hidCame, hidWiped, hidRun>>
      BY <1>5 DEF HidReadInv, HidReadTypes, HidPnpStates, HidStopClose, HidStopAt, HidStopGoes,
         hidReadVars, hidDpcVars, hidStartVars
    <2>1. HidFlagTypes'
      BY <2>0 DEF HidFlagTypes
    <2>2. HidPhases'
      BY <2>0 DEF HidPhases, HidStartedFlag
    <2>3. HidStartedFlag'
      BY <2>0 DEF HidStartedFlag, HidPhases
    <2>4. HidNothingPending'
      BY <2>0 DEF HidNothingPending, HidMayStart, HidPhases, HidStartedFlag
    <2>5. HidServed'
      BY <2>0 DEF HidServed, HidPhases, HidStartedFlag, HidNothingPending, HidMayStart
    <2>6. HidQuiet'
      BY <2>0 DEF HidQuiet, HidFlushed, HidPhases, HidStartedFlag
    <2>7. HidReleased'
      BY <2>0 DEF HidReleased, HidFlagTypes, HidStopped, HidPhases, HidStartedFlag
    <2> QED
      BY <2>1, <2>2, <2>3, <2>4, <2>5, <2>6, <2>7
  <1> QED
    BY <1>1, <1>2, <1>3, <1>4, <1>5

(* What the requests do after StopDevice returned. *)
LEMMA HidRequestsEnd ==
    ASSUME HidReadInv, HidPnpInv,
           \/ HidStopReturned \/ HidRemovePurge \/ HidRemoveDelete
    PROVE  HidPnpInv'
  <1> USE DEF HidPnpInv
  <1>1. CASE HidStopReturned
    <2>0. /\ hidPnp.pc = "returned" /\ hidPnp.op \in {"stop", "surprise"}
          /\ hidPnp'.op = "none" /\ hidPnp'.pc = "idle"
          /\ hidPnp.op = "stop" => hidPnp'.status = "stopped"
          /\ hidPnp.op = "surprise" /\ hidPnp.status = "started" => hidPnp'.status = "surprised"
          /\ hidPnp.op = "surprise" /\ hidPnp.status # "started" => hidPnp'.status = "unplugged"
          /\ UNCHANGED <<hidHeld, hidCame, hidWiped, hidFlags, hidInput, hidRun>>
      <3>1. /\ hidPnp.pc = "returned" /\ hidPnp.op \in {"stop", "surprise"}
            /\ UNCHANGED <<hidHeld, hidCame, hidWiped, hidFlags, hidInput, hidRun>>
        BY <1>1 DEF HidStopReturned, HidStopAt, hidReadVars, hidDpcVars, hidStartVars
      <3>2. hidPnp' = [hidPnp EXCEPT !.pc = "idle", !.op = "none", !.status = hidPnp'.status]
        BY <1>1 DEF HidStopReturned, HidReadInv, HidReadTypes, HidPnpStates
      <3>3. hidPnp'.op = "none" /\ hidPnp'.pc = "idle"
        BY <3>2 DEF HidReadInv, HidReadTypes, HidPnpStates
      <3>4. CASE hidPnp.op = "stop"
        <4>1. hidPnp'.status = "stopped"
          BY <1>1, <3>4 DEF HidStopReturned, HidReadInv, HidReadTypes, HidPnpStates
        <4> QED
          BY <3>1, <3>3, <3>4, <4>1
      <3>5. CASE hidPnp.op = "surprise" /\ hidPnp.status = "started"
        <4>1. hidPnp'.status = "surprised"
          BY <1>1, <3>5 DEF HidStopReturned, HidReadInv, HidReadTypes, HidPnpStates
        <4> QED
          BY <3>1, <3>3, <3>5, <4>1
      <3>6. CASE hidPnp.op = "surprise" /\ hidPnp.status # "started"
        <4>1. hidPnp'.status = "unplugged"
          BY <1>1, <3>6 DEF HidStopReturned, HidReadInv, HidReadTypes, HidPnpStates
        <4> QED
          BY <3>1, <3>3, <3>6, <4>1
      <3> QED
        BY <3>1, <3>4, <3>5, <3>6
    <2>1. HidFlagTypes'
      BY <2>0 DEF HidFlagTypes
    <2>2. HidPhases'
      BY <2>0 DEF HidPhases, HidStartedFlag
    <2>3. HidStartedFlag'
      BY <2>0 DEF HidStartedFlag, HidPhases
    <2>4. HidNothingPending'
      BY <2>0 DEF HidNothingPending, HidMayStart, HidPhases, HidStartedFlag
    <2>5. HidServed'
      BY <2>0 DEF HidServed, HidPhases, HidStartedFlag, HidNothingPending, HidMayStart
    <2>6. HidQuiet'
      BY <2>0 DEF HidQuiet, HidFlushed, HidPhases, HidStartedFlag
    <2>7. HidReleased'
      BY <2>0 DEF HidReleased, HidFlagTypes, HidStopped, HidPhases, HidStartedFlag
    <2> QED
      BY <2>1, <2>2, <2>3, <2>4, <2>5, <2>6, <2>7
  <1>2. CASE HidRemovePurge
    <2>0. /\ hidPnp.pc = "returned" /\ hidPnp.op = "remove"
          /\ hidFlags' = hidFlags \ {"IdleArmed"}
          /\ hidPnp'.status = hidPnp.status /\ hidPnp'.op = hidPnp.op /\ hidPnp'.pc = "purge"
          /\ UNCHANGED <<hidHeld, hidCame, hidWiped, hidInput, hidRun>>
      BY <1>2 DEF HidReadInv, HidReadTypes, HidPnpStates, HidRemovePurge, HidStopAt, HidStopGoes,
         hidStartVars
    <2>1. HidFlagTypes'
      BY <2>0 DEF HidFlagTypes
    <2>2. HidPhases'
      BY <2>0 DEF HidPhases, HidStartedFlag
    <2>3. HidStartedFlag'
      BY <2>0 DEF HidStartedFlag, HidPhases
    <2>4. HidNothingPending'
      BY <2>0 DEF HidNothingPending, HidMayStart, HidPhases, HidStartedFlag
    <2>5. HidServed'
      BY <2>0 DEF HidServed, HidPhases, HidStartedFlag, HidNothingPending, HidMayStart
    <2>6. HidQuiet'
      BY <2>0 DEF HidQuiet, HidFlushed, HidPhases, HidStartedFlag
    <2>7. HidReleased'
      BY <2>0 DEF HidReleased, HidFlagTypes, HidStopped, HidPhases, HidStartedFlag
    <2> QED
      BY <2>1, <2>2, <2>3, <2>4, <2>5, <2>6, <2>7
  <1>3. CASE HidRemoveDelete
    <2>0. /\ hidPnp.pc = "purge" /\ hidHeld' = hidHeld \ {"interface", "attached", "device"}
          /\ hidPnp'.status = "deleted" /\ hidPnp'.op = "none" /\ hidPnp'.pc = "idle"
          /\ UNCHANGED <<hidCame, hidWiped, hidFlags, hidInput, hidRun>>
      BY <1>3 DEF HidReadInv, HidReadTypes, HidPnpStates, HidRemoveDelete, HidStopAt, hidReadVars,
         hidDpcVars, hidStartVars
    <2>1. HidFlagTypes'
      BY <2>0 DEF HidFlagTypes
    <2>2. HidPhases'
      BY <2>0 DEF HidPhases, HidStartedFlag
    <2>3. HidStartedFlag'
      BY <2>0 DEF HidStartedFlag, HidPhases
    <2>4. HidNothingPending'
      BY <2>0 DEF HidNothingPending, HidMayStart, HidPhases, HidStartedFlag
    <2>5. HidServed'
      BY <2>0 DEF HidServed, HidPhases, HidStartedFlag, HidNothingPending, HidMayStart
    <2>6. HidQuiet'
      BY <2>0 DEF HidQuiet, HidFlushed, HidPhases, HidStartedFlag
    <2>7. HidReleased'
      BY <2>0 DEF HidReleased, HidFlagTypes, HidStopped, HidPhases, HidStartedFlag
    <2> QED
      BY <2>1, <2>2, <2>3, <2>4, <2>5, <2>6, <2>7
  <1> QED
    BY <1>1, <1>2, <1>3

(* The drain itself changes none of this. *)
LEMMA HidDrainSteps ==
    ASSUME HidReadInv, HidPnpInv,
           \/ HidDrainTake \/ HidDrainComplete
    PROVE  HidPnpInv'
  <1> USE DEF HidReadInv, HidReadTypes, HidPnpStates, HidPnpInv,
        HidStopAt, hidDpcVars, hidStartVars
  <1>1. CASE HidDrainTake
    <2> USE <1>1 DEF HidDrainTake
    <2>1. HidFlagTypes'
      BY DEF HidFlagTypes
    <2>2. HidPhases'
      BY DEF HidPhases, HidStartedFlag
    <2>3. HidStartedFlag'
      BY DEF HidStartedFlag, HidPhases
    <2>4. HidNothingPending'
      BY DEF HidNothingPending, HidMayStart, HidPhases, HidStartedFlag
    <2>5. HidServed'
      BY DEF HidServed, HidPhases, HidStartedFlag, HidNothingPending, HidMayStart
    <2>6. HidQuiet'
      BY DEF HidQuiet, HidFlushed, HidPhases, HidStartedFlag
    <2>7. HidReleased'
      BY DEF HidReleased, HidFlagTypes, HidStopped, HidPhases, HidStartedFlag
    <2> QED
      BY <2>1, <2>2, <2>3, <2>4, <2>5, <2>6, <2>7
  <1>2. CASE HidDrainComplete
    <2> USE <1>2 DEF HidDrainComplete
    <2>1. HidFlagTypes'
      BY DEF HidFlagTypes
    <2>2. HidPhases'
      BY DEF HidPhases, HidStartedFlag
    <2>3. HidStartedFlag'
      BY DEF HidStartedFlag, HidPhases
    <2>4. HidNothingPending'
      BY DEF HidNothingPending, HidMayStart, HidPhases, HidStartedFlag
    <2>5. HidServed'
      BY DEF HidServed, HidPhases, HidStartedFlag, HidNothingPending, HidMayStart
    <2>6. HidQuiet'
      BY DEF HidQuiet, HidFlushed, HidPhases, HidStartedFlag
    <2>7. HidReleased'
      BY DEF HidReleased, HidFlagTypes, HidStopped, HidPhases, HidStartedFlag
    <2> QED
      BY <2>1, <2>2, <2>3, <2>4, <2>5, <2>6, <2>7
  <1> QED
    BY <1>1, <1>2

(* Device power, the touchpad's line and the ISR. *)
LEMMA HidPowerAndIsr ==
    ASSUME HidReadInv, HidPnpInv,
           \/ HidEnterD0 \/ HidEnterDx \/ HidRaise
           \/ HidIsr
    PROVE  HidPnpInv'
  <1> USE DEF HidReadInv, HidReadTypes, HidPnpStates, HidPnpInv,
        HidPresent, HidArmIdle, hidReadVars, hidDpcVars, hidStartVars, hidPnpVars
  <1>1. CASE HidEnterD0
    <2> USE <1>1 DEF HidEnterD0
    <2>1. HidFlagTypes'
      BY DEF HidFlagTypes
    <2>2. HidPhases'
      BY DEF HidPhases, HidStartedFlag
    <2>3. HidStartedFlag'
      BY DEF HidStartedFlag, HidPhases
    <2>4. HidNothingPending'
      BY DEF HidNothingPending, HidMayStart, HidPhases, HidStartedFlag
    <2>5. HidServed'
      BY DEF HidServed, HidPhases, HidStartedFlag, HidNothingPending, HidMayStart
    <2>6. HidQuiet'
      BY DEF HidQuiet, HidFlushed, HidPhases, HidStartedFlag
    <2>7. HidReleased'
      BY DEF HidReleased, HidFlagTypes, HidStopped, HidPhases, HidStartedFlag
    <2> QED
      BY <2>1, <2>2, <2>3, <2>4, <2>5, <2>6, <2>7
  <1>2. CASE HidEnterDx
    <2> USE <1>2 DEF HidEnterDx
    <2>1. HidFlagTypes'
      BY DEF HidFlagTypes
    <2>2. HidPhases'
      BY DEF HidPhases, HidStartedFlag
    <2>3. HidStartedFlag'
      BY DEF HidStartedFlag, HidPhases
    <2>4. HidNothingPending'
      BY DEF HidNothingPending, HidMayStart, HidPhases, HidStartedFlag
    <2>5. HidServed'
      BY DEF HidServed, HidPhases, HidStartedFlag, HidNothingPending, HidMayStart
    <2>6. HidQuiet'
      BY DEF HidQuiet, HidFlushed, HidPhases, HidStartedFlag
    <2>7. HidReleased'
      BY DEF HidReleased, HidFlagTypes, HidStopped, HidPhases, HidStartedFlag
    <2> QED
      BY <2>1, <2>2, <2>3, <2>4, <2>5, <2>6, <2>7
  <1>3. CASE HidRaise
    <2> USE <1>3 DEF HidRaise
    <2>1. HidFlagTypes'
      BY DEF HidFlagTypes
    <2>2. HidPhases'
      BY DEF HidPhases, HidStartedFlag
    <2>3. HidStartedFlag'
      BY DEF HidStartedFlag, HidPhases
    <2>4. HidNothingPending'
      BY DEF HidNothingPending, HidMayStart, HidPhases, HidStartedFlag
    <2>5. HidServed'
      BY DEF HidServed, HidPhases, HidStartedFlag, HidNothingPending, HidMayStart
    <2>6. HidQuiet'
      BY DEF HidQuiet, HidFlushed, HidPhases, HidStartedFlag
    <2>7. HidReleased'
      BY DEF HidReleased, HidFlagTypes, HidStopped, HidPhases, HidStartedFlag
    <2> QED
      BY <2>1, <2>2, <2>3, <2>4, <2>5, <2>6, <2>7
  <1>4. CASE HidIsr
    <2> USE <1>4 DEF HidIsr
    <2>1. HidFlagTypes'
      BY DEF HidFlagTypes
    <2>2. HidPhases'
      BY DEF HidPhases, HidStartedFlag
    <2>3. HidStartedFlag'
      BY DEF HidStartedFlag, HidPhases
    <2>4. HidNothingPending'
      BY DEF HidNothingPending, HidMayStart, HidPhases, HidStartedFlag
    <2>5. HidServed'
      BY DEF HidServed, HidPhases, HidStartedFlag, HidNothingPending, HidMayStart
    <2>6. HidQuiet'
      BY DEF HidQuiet, HidFlushed, HidPhases, HidStartedFlag
    <2>7. HidReleased'
      BY DEF HidReleased, HidFlagTypes, HidStopped, HidPhases, HidStartedFlag
    <2> QED
      BY <2>1, <2>2, <2>3, <2>4, <2>5, <2>6, <2>7
  <1> QED
    BY <1>1, <1>2, <1>3, <1>4

(* A DPC acknowledges, reads the report and looks for a reader.            *)
LEMMA HidDpcSteps ==
    ASSUME HidReadInv, HidPnpInv, NEW c \in HidCpu,
           \/ HidDpcBegin(c) \/ HidDpcClear(c) \/ HidDpcRead(c)
           \/ HidDequeueReadIrp(c) \/ HidDequeueNothing(c) \/ HidCompleteReadIrp(c)
    PROVE  HidPnpInv'
  <1> USE DEF HidPnpInv
  <1>1. /\ UNCHANGED hidPnpVars
        /\ hidFlags' \subseteq hidFlags
        /\ "Started" \in hidFlags' <=> "Started" \in hidFlags
        /\ "Removed" \in hidFlags' <=> "Removed" \in hidFlags
        /\ hidInput' = hidInput \/ hidInput' \in {"none", "raised"}
    BY DEF HidDpcBegin, HidDpcClear, HidDpcRead, HidDequeueReadIrp, HidDequeueNothing,
           HidCompleteReadIrp
  <1>2. HidFlagTypes' /\ HidPhases' /\ HidStartedFlag' /\ HidNothingPending' /\ HidReleased'
    <2> USE <1>1 DEF hidPnpVars, hidStartVars
    <2>1. HidFlagTypes'
      BY DEF HidFlagTypes
    <2>2. HidPhases'
      BY DEF HidPhases
    <2>3. HidStartedFlag'
      BY DEF HidStartedFlag
    <2>4. HidNothingPending'
      BY DEF HidNothingPending, HidMayStart
    <2>5. HidReleased'
      BY DEF HidReleased, HidStopped
    <2> QED
      BY <2>1, <2>2, <2>3, <2>4, <2>5
  <1>3. HidQuiet'
    <2>1. HidFlushed' <=> HidFlushed
      BY <1>1 DEF HidFlushed, hidPnpVars, hidStartVars
    <2>2. HidFlushed => FALSE
      BY DEF HidQuiet, HidDpcBegin, HidDpcClear, HidDpcRead, HidDequeueReadIrp,
             HidDequeueNothing, HidCompleteReadIrp, HidDpcAt, HidIdleRun
    <2> QED
      BY <2>1, <2>2 DEF HidQuiet
  <1>4. HidServed'
    <2>1. \E pc \in {"idle", "clear", "read", "dequeue", "complete"} :
             /\ hidRun'[c].pc = pc /\ \A d \in HidCpu \ {c} : hidRun'[d] = hidRun[d]
      BY DEF HidReadInv, HidReadTypes, HidRuns, HidDpcBegin, HidDpcClear, HidDpcRead,
             HidDequeueReadIrp, HidDequeueNothing, HidCompleteReadIrp, HidDpcGoes
    <2>2. CASE HidDpcBegin(c)
      BY <2>1, <2>2 DEF HidServed, HidDpcBegin, HidDpcGoes, HidDpcAt, HidReadInv, HidReadTypes,
         HidRuns
    <2>3. CASE HidDpcClear(c)
      BY <2>1, <2>3 DEF HidServed, HidDpcClear, HidDpcGoes, HidDpcAt, HidReadInv, HidReadTypes,
         HidRuns
    <2>4. CASE HidDpcRead(c)
      BY <2>1, <2>4 DEF HidServed, HidDpcRead, HidDpcGoes, HidDpcAt, hidPnpVars, hidStartVars
    <2>5. CASE HidDequeueReadIrp(c) \/ HidDequeueNothing(c) \/ HidCompleteReadIrp(c)
      BY <2>1, <2>5 DEF HidServed, HidDequeueReadIrp, HidDequeueNothing, HidCompleteReadIrp,
         HidDpcAt, hidPnpVars, hidStartVars
    <2> QED
      BY <2>2, <2>3, <2>4, <2>5
  <1> QED
    BY <1>2, <1>3, <1>4

(* A read_report request changes no flag and holds nothing.                *)
LEMMA HidReadSteps ==
    ASSUME HidPnpInv, UNCHANGED <<hidPnpVars, hidDpcVars>>
    PROVE  HidPnpInv'
  BY DEF HidPnpInv, HidFlagTypes, HidPhases, HidStartedFlag, HidNothingPending, HidMayStart,
         HidServed, HidQuiet, HidFlushed, HidReleased, HidStopped, hidPnpVars, hidStartVars, hidDpcVars

(* With the invariant of the reads, which says what an idle DPC holds, the *)
(* PnP invariant holds at every moment.                                    *)
LEMMA HidPnpKept == HidSpec => []HidPnpInv
  <1>1. HidInit => HidPnpInv
    BY DEF HidInit, HidPnpInv, HidFlagTypes, HidPhases, HidStartedFlag, HidNothingPending,
       HidMayStart, HidServed, HidQuiet, HidFlushed, HidReleased, HidStopped
  <1>2. HidReadInv /\ HidPnpInv /\ [HidNext]_hidVars => HidPnpInv'
    <2> SUFFICES ASSUME HidReadInv, HidPnpInv, [HidNext]_hidVars
                 PROVE  HidPnpInv'
      OBVIOUS
    <2>1. CASE UNCHANGED hidVars
      BY <2>1, HidReadSteps DEF hidVars, hidPnpVars, hidStartVars, hidDpcVars
    <2>2. ASSUME NEW r \in HidIrp, HidReadReport(r) \/ HidReadTooSmall(r) \/ HidQueueReadIrp(r)
          PROVE  HidPnpInv'
      BY <2>2, HidReadSteps DEF HidReadReport, HidReadTooSmall, HidQueueReadIrp
    <2> QED
      BY <2>1, <2>2, HidAddAndStart, HidRequestsBegin, HidStopDeviceSteps, HidRequestsEnd,
         HidDrainSteps, HidPowerAndIsr, HidDpcSteps DEF HidNext, HidPower
  <1> QED
    BY <1>1, <1>2, HidReadsKept, PTL DEF HidSpec

(* An accepted report is read, though PendingInputFlag is cleared before,  *)
(* unless the start forgot the DPC.                                        *)
THEOREM HidInputAlwaysServed == HidSpec => []HidInputServed
  <1>1. HidPnpInv => HidInputServed
    BY DEF HidPnpInv, HidServed, HidInputServed, HidAccepted, HidWillRead
  <1> QED
    BY <1>1, HidPnpKept, PTL

(* A deleted device leaves its DOS link at most after a stop, and after a  *)
(* surprise removal no DPC either; one that REMOVE found added or failed   *)
(* leaves its controller handle too, and one that it found started its     *)
(* interrupt as well.                                                      *)
THEOREM HidRemoveAlwaysReleases == HidSpec => []HidRemoveReleases
  <1>1. HidPnpInv => HidRemoveReleases
    BY DEF HidPnpInv, HidQuiet, HidFlushed, HidReleased, HidRemoveReleases
  <1> QED
    BY <1>1, HidPnpKept, PTL

(* Whichever call of AddDevice fails, everything acquired by then is given *)
(* back.                                                                   *)
THEOREM HidAddAlwaysUnwinds == HidSpec => []HidAddUnwinds
  <1>1. HidPnpInv => HidAddUnwinds
    BY DEF HidPnpInv, HidReleased, HidAddUnwinds
  <1> QED
    BY <1>1, HidPnpKept, PTL

-----------------------------------------------------------------------------
(***************************************************************************)
(* HidReports: the fingers of a raw packet, the bytes of a legacy one.     *)
(***************************************************************************)
RpReadOut(p) ==
    [step |-> "read", contacts |-> RpRawReport(p).contacts, count |-> RpRawReport(p).count,
     centre |-> RpCentroid(RpRawReport(p))]
RpLegacyOut(p) ==
    [step |-> "legacy", read |-> IF RpAccepts(p) THEN {i \in 1..p.sent : RpFits(p, i)} ELSE {}]

RpIn == rpIn = RpNothing \/ rpIn \in RpRawPackets \cup RpLegacyPackets \cup RpPolls

RpInv ==
    \/ rpOut = RpPending /\ RpIn
    \/ rpIn \in RpRawPackets /\ rpOut = RpReadOut(rpIn)
    \/ rpOut.step \in {"dpc", "poll"}
    \/ rpIn \in RpLegacyPackets /\ rpOut = RpLegacyOut(rpIn)

(* The fingers I2CHID_ParseRawPnp0c50 finds are those that are down in a   *)
(* record of the packet, and the report keeps the first of them.           *)
LEMMA RpRawFingers ==
    ASSUME NEW p \in RpRawPackets
    PROVE  LET r == RpRawReport(p)
               got == {i \in RpFinger : p.id = 1 /\ i <= RpRecords(p) /\ i \in p.down}
           IN /\ r.count = Cardinality(got)
              /\ \A i \in RpFinger :
                    /\ r.contacts[i].present <=> i <= r.count /\ i \in got
                    /\ r.contacts[i].present => r.contacts[i].from = i
  <1> DEFINE all == IF p.id = 1 THEN RpContacts(p) ELSE [i \in RpFinger |-> RpNoFinger]
  <1> DEFINE got == {i \in RpFinger : p.id = 1 /\ i <= RpRecords(p) /\ i \in p.down}
  <1> DEFINE r == RpRawReport(p)
  <1>1. /\ \A i \in RpFinger : all[i].present <=> i \in got
        /\ \A i \in RpFinger : all[i].present => all[i].from = i
    <2>1. ASSUME NEW i \in RpFinger, p.id = 1, i <= RpRecords(p)
          PROVE  all[i] = [present |-> i \in p.down, from |-> i]
      BY <2>1 DEF RpContacts
    <2>2. ASSUME NEW i \in RpFinger, p.id # 1 \/ ~(i <= RpRecords(p))
          PROVE  all[i] = RpNoFinger
      BY <2>2 DEF RpContacts
    <2> HIDE DEF all
    <2> SUFFICES ASSUME NEW i \in RpFinger
                 PROVE  (all[i].present <=> i \in got) /\ (all[i].present => all[i].from = i)
      OBVIOUS
    <2>3. CASE p.id = 1 /\ i <= RpRecords(p)
      <3>1. all[i] = [present |-> i \in p.down, from |-> i]
        BY <2>1, <2>3
      <3>2. all[i].present = (i \in p.down) /\ all[i].from = i
        BY <3>1
      <3> QED
        BY <2>3, <3>2
    <2>4. CASE ~(p.id = 1 /\ i <= RpRecords(p))
      <3>1. all[i].present = FALSE
        BY <2>2, <2>4 DEF RpNoFinger
      <3> QED
        BY <2>4, <3>1
    <2> QED
      BY <2>3, <2>4
  <1>2. {i \in RpFinger : all[i].present} = got
    BY <1>1
  <1>3. r.count = Cardinality(got) /\ r.contacts = RpKept(all, Cardinality(got))
    BY <1>2 DEF RpRawReport
  <1> HIDE DEF all, r, got
  <1>4. \A i \in RpFinger :
           r.contacts[i] = IF i <= Cardinality(got) THEN all[i] ELSE RpNoFinger
    BY <1>3 DEF RpKept
  <1>6. RpNoFinger.present = FALSE
    BY DEF RpNoFinger
  <1>7. \A i \in RpFinger :
           /\ r.contacts[i].present <=> i <= r.count /\ i \in got
           /\ r.contacts[i].present => r.contacts[i].from = i
    BY <1>1, <1>3, <1>4, <1>6
  <1> QED
    BY <1>3, <1>7 DEF r, got

(* The smallest of three lengths is one of them, and not above any.        *)
LEMMA RpSmallestOf ==
    ASSUME NEW a \in Int, NEW b \in Int, NEW c \in Int
    PROVE  /\ RpSmallest({a, b, c}) \in Int
           /\ \A k \in {a, b, c} : RpSmallest({a, b, c}) <= k
  <1>1. \E n \in {a, b, c} : \A k \in {a, b, c} : n <= k
    <2>1. CASE a <= b /\ a <= c
      BY <2>1
    <2>2. CASE b <= a /\ b <= c
      BY <2>2
    <2>3. CASE c <= a /\ c <= b
      BY <2>3
    <2> QED
      BY <2>1, <2>2, <2>3
  <1> QED
    BY <1>1 DEF RpSmallest

(* A raw packet's report keeps its fingers, each in its place.             *)
LEMMA RpRawExact ==
    ASSUME rpIn \in RpRawPackets, rpOut = RpReadOut(rpIn)
    PROVE  RpExact
  <1> DEFINE got == {i \in RpFinger : rpIn.id = 1 /\ i <= RpRecords(rpIn) /\ i \in rpIn.down}
  <1> DEFINE r == RpRawReport(rpIn)
  <1>1. /\ r.count = Cardinality(got)
        /\ \A i \in RpFinger :
              /\ r.contacts[i].present <=> i <= r.count /\ i \in got
              /\ r.contacts[i].present => r.contacts[i].from = i
    BY RpRawFingers
  <1>2. /\ rpOut.contacts = r.contacts /\ rpOut.count = r.count
        /\ rpOut.centre = RpCentroid(r)
    BY DEF RpReadOut
  <1> HIDE DEF r
  <1>4. RpNoPhantom
    <2>1. ASSUME NEW i \in RpFinger, i \in got
          PROVE  i <= rpIn.count /\ rpIn.len >= 3 + 7 * i
      <3>0. rpIn.len \in Nat /\ rpIn.count \in Nat /\ RpFingers \in Nat
        <4>1. rpIn.len \in RpLens /\ rpIn.count \in 0..RpFingers + 1
          BY DEF RpRawPackets
        <4> HIDE DEF got
        <4>2. rpIn.len \in Nat
          BY <4>1, RpAssumption
        <4>3. RpFingers \in Nat
          BY RpAssumption
        <4>4. rpIn.count \in Nat
          BY <4>1, <4>3
        <4> QED
          BY <4>2, <4>3, <4>4
      <3>1. i \in Nat /\ i > 0 /\ i <= RpRecords(rpIn)
        BY <2>1 DEF RpFinger
      <3>2. rpIn.len >= 3 /\ RpRecords(rpIn) =
               RpSmallest({rpIn.count, RpFingers, (rpIn.len - 3) \div 7})
        BY <3>0, <3>1 DEF RpRecords
      <3>3. i <= rpIn.count /\ i <= (rpIn.len - 3) \div 7
        <4> DEFINE n == (rpIn.len - 3) \div 7
        <4> DEFINE m == RpSmallest({rpIn.count, RpFingers, n})
        <4>1. n \in Int /\ rpIn.count \in Int /\ RpFingers \in Int
          BY <3>0
        <4> HIDE DEF n
        <4>2. m \in Int /\ \A k \in {rpIn.count, RpFingers, n} : m <= k
          BY ONLY <4>1, RpSmallestOf
        <4>3. i <= m
          BY <3>1, <3>2 DEF n
        <4> HIDE DEF m
        <4> QED
          BY <3>0, <3>1, <4>1, <4>2, <4>3 DEF n
      <3> QED
        BY <3>0, <3>1, <3>2, <3>3
    <2> QED
      BY <1>1, <1>2, <2>1 DEF RpNoPhantom
  <1>5. RpNoneLost
    <2> DEFINE kept == {i \in RpFinger : rpOut.contacts[i].present}
    <2>1. rpOut.centre = kept
      BY <1>1, <1>2 DEF RpCentroid
    <2>2. {i \in rpIn.down : rpIn.id = 1 /\ i <= RpRecords(rpIn)} = got
      BY DEF RpRawPackets
    <2>3. ASSUME got = 1..Cardinality(got)
          PROVE  kept = got
      BY <1>1, <1>2, <2>3 DEF RpFinger
    <2> HIDE DEF got
    <2> QED
      BY <1>1, <1>2, <2>1, <2>2, <2>3 DEF RpNoneLost
  <1> QED
    BY <1>4, <1>5 DEF RpExact

(* A quotient is where the multiples of the divisor put it.                *)
LEMMA RpDivides ==
    ASSUME NEW n \in Nat \ {0}, NEW v \in Int, NEW d \in Nat, v >= d * n
    PROVE  v \div n >= d /\ (v < d * n + n => v \div n = d)
  <1> DEFINE q == v \div n
  <1> DEFINE r == v % n
  <1>1. q \in Int /\ r \in Int /\ v = n * q + r /\ 0 <= r /\ r < n
    OBVIOUS
  <1> HIDE DEF q, r
  <1>2. ASSUME q < d PROVE FALSE
    <2>1. n * q <= n * (d - 1) /\ n * (d - 1) = n * d - n
      BY <1>1, <1>2
    <2> QED
      BY <1>1, <2>1
  <1>3. ASSUME q > d, v < d * n + n PROVE FALSE
    <2>1. n * q >= n * (d + 1) /\ n * (d + 1) = n * d + n
      BY <1>1, <1>3
    <2> QED
      BY <1>1, <1>3, <2>1
  <1> QED
    BY <1>1, <1>2, <1>3 DEF q

(* The bytes received and sent, and the record size inferred from them.    *)
LEMMA RpRecordSizeTold ==
    ASSUME NEW p \in RpLegacyPackets
    PROVE  /\ RpLen(p) \in Int /\ RpSentLen(p) \in Nat /\ RpRecordSize(p) \in 6..10
           /\ p.cut = 0 /\ (p.full => p.size = 8) /\ (~p.full => p.sent >= 2) =>
                 RpRecordSize(p) = p.size /\ RpLen(p) >= RpSentLen(p)
  <1>1. /\ p.sent \in Nat /\ p.sent <= RpFingers /\ p.size \in 6..10 /\ p.cut \in 0..9
        /\ p.full \in BOOLEAN /\ RpFingers \in Nat /\ RpFull \in Nat
        /\ RpFull >= 6 + 11 * RpFingers /\ RpSentLen(p) <= RpFull
        /\ p.sent * p.size \in Nat
    BY RpAssumption DEF RpLegacyPackets
  <1>2. RpSentLen(p) = 7 + p.sent * p.size /\ RpSentLen(p) \in Nat
    BY <1>1 DEF RpSentLen, RpHeader
  <1>3. RpLen(p) = (IF p.full THEN RpFull ELSE RpSentLen(p) - p.cut) /\ RpLen(p) \in Int
    BY <1>1, <1>2 DEF RpLen
  <1>4. RpRecordSize(p) \in 6..10
    BY <1>1, <1>3 DEF RpRecordSize, RpHeader
  <1>6. ASSUME p.full, p.sent # 0
        PROVE  (RpLen(p) - 6) \div p.sent >= 11
    <2>1. RpLen(p) - 6 \in Int /\ RpLen(p) - 6 >= 11 * p.sent
      BY <1>1, <1>3, <1>6
    <2> QED
      BY <1>1, <1>6, <2>1, RpDivides
  <1>7. ASSUME ~p.full, p.cut = 0, p.sent >= 2
        PROVE  (RpLen(p) - 6) \div p.sent = p.size
    <2>1. RpLen(p) - 6 = p.size * p.sent + 1
      BY <1>1, <1>2, <1>3, <1>7
    <2>2. /\ p.sent \in Nat \ {0} /\ p.size \in Nat /\ RpLen(p) - 6 \in Int
          /\ RpLen(p) - 6 >= p.size * p.sent /\ RpLen(p) - 6 < p.size * p.sent + p.sent
      BY <1>1, <1>3, <1>7, <2>1
    <2> QED
      BY ONLY <2>2, RpDivides
  <1> QED
    BY <1>1, <1>2, <1>3, <1>4, <1>6, <1>7 DEF RpRecordSize, RpHeader

(* The legacy parser reads inside the packet, and compares the checksum    *)
(* when the record size can be told.                                       *)
LEMMA RpLegacyGuarded ==
    ASSUME rpIn \in RpLegacyPackets, rpOut = RpLegacyOut(rpIn)
    PROVE  RpGuarded
  <1>1. RpInPacket
    BY DEF RpInPacket, RpLegacyOut, RpFits, RpRecordEnd
  <1>2. RpChecked
    <2> SUFFICES ASSUME rpIn.damaged, rpIn.told, rpIn.cut = 0,
                        IF rpIn.full THEN rpIn.size = 8 ELSE rpIn.sent >= 2
                 PROVE  rpOut.read = {}
      BY DEF RpChecked
    <2>1. /\ RpRecordSize(rpIn) = rpIn.size /\ RpLen(rpIn) >= RpSentLen(rpIn)
          /\ RpLen(rpIn) \in Int /\ RpSentLen(rpIn) \in Nat
      BY RpRecordSizeTold
    <2>2. RpSentLen(rpIn) = RpExpected(rpIn) + 1 /\ RpExpected(rpIn) \in Nat
          /\ RpPktLen(rpIn) = RpSentLen(rpIn)
      <3>1. rpIn.sent \in Nat /\ rpIn.size \in Nat /\ rpIn.sent * rpIn.size \in Nat
        BY DEF RpLegacyPackets
      <3> QED
        BY <2>1, <3>1 DEF RpSentLen, RpExpected, RpHeader, RpPktLen
    <2>3. RpChecksumAt(rpIn) = RpSentLen(rpIn) /\ RpSentLen(rpIn) # 0
      BY <2>1, <2>2 DEF RpChecksumAt
    <2>4. ~RpAccepts(rpIn)
      BY <2>3 DEF RpAccepts, RpChecksumOk
    <2> QED
      BY <2>4 DEF RpLegacyOut
  <1> QED
    BY <1>1, <1>2 DEF RpGuarded

(* What came out is what the parser makes of the packet that came in.      *)
LEMMA RpParsed == RpSpec => []RpInv
  <1>1. RpInit => RpInv
    BY DEF RpInit, RpIn, RpInv
  <1>2. RpInv /\ [RpNext]_rpVars => RpInv'
    <2> SUFFICES ASSUME RpInv, [RpNext]_rpVars PROVE RpInv'
      OBVIOUS
    <2>0. rpOut = RpPending => RpIn
      BY DEF RpInv, RpPending, RpReadOut, RpLegacyOut
    <2>1. CASE RpArrives
      <3>1. rpIn \notin RpRawPackets \cup RpLegacyPackets
        BY <2>1 DEF RpArrives, RpNothing, RpRawPackets, RpLegacyPackets
      <3>2. rpOut = RpPending => RpIn'
        BY <2>1 DEF RpArrives, RpIn
      <3> QED
        BY <2>1, <3>1, <3>2 DEF RpArrives, RpInv
    <2>2. CASE RpReadReport
      <3>1. rpIn \in RpRawPackets
        BY <2>0, <2>2 DEF RpReadReport, RpIn, RpNothing, RpLegacyPackets, RpPolls
      <3> QED
        BY <2>2, <3>1 DEF RpReadReport, RpInv, RpReadOut
    <2>3. CASE RpLegacy
      <3>1. rpIn \in RpLegacyPackets
        BY <2>0, <2>3 DEF RpLegacy, RpIn, RpNothing, RpRawPackets, RpPolls
      <3> QED
        BY <2>3, <3>1 DEF RpLegacy, RpInv, RpLegacyOut
    <2>4. CASE RpInterruptDpc \/ RpPoll
      <3>1. rpOut'.step \in {"dpc", "poll"}
        BY <2>4 DEF RpInterruptDpc, RpPoll
      <3> QED
        BY <3>1 DEF RpInv
    <2>5. CASE UNCHANGED rpVars
      BY <2>5 DEF rpVars, RpInv, RpIn, RpReadOut, RpLegacyOut
    <2> QED
      BY <2>1, <2>2, <2>3, <2>4, <2>5 DEF RpNext
  <1> QED
    BY <1>1, <1>2, PTL DEF RpSpec

(* The parsed report keeps the fingers the raw packet reported as down,    *)
(* each in its place, for any number of fingers and any length.            *)
THEOREM RpAlwaysExact == RpSpec => []RpExact
  <1>1. RpInv => RpExact
    <2>1. rpOut = RpPending \/ rpOut.step \in {"dpc", "poll"} \/ rpOut = RpLegacyOut(rpIn) => RpExact
      BY DEF RpExact, RpNoPhantom, RpNoneLost, RpPending, RpLegacyOut
    <2> QED
      BY <2>1, RpRawExact DEF RpInv
  <1> QED
    BY <1>1, RpParsed, PTL

(* The legacy parser stays inside the packet and takes no finger from a    *)
(* packet whose checksum tells that it is damaged.                         *)
THEOREM RpAlwaysGuarded == RpSpec => []RpGuarded
  <1>1. RpInv => RpGuarded
    <2>1. rpOut = RpPending \/ rpOut.step \in {"dpc", "poll"} \/ rpOut = RpReadOut(rpIn) => RpGuarded
      BY DEF RpGuarded, RpInPacket, RpChecked, RpPending, RpReadOut
    <2> QED
      BY <2>1, RpLegacyGuarded DEF RpInv
  <1> QED
    BY <1>1, RpParsed, PTL

-----------------------------------------------------------------------------
(***************************************************************************)
(* HidTouch: taps, and the motion two fingers make.                        *)
(***************************************************************************)
HtInv ==
    /\ htDown \in Nat /\ htClicks \in {0, 1} /\ (htClicks = 1 => htDown = 0)
    /\ htPinch \in Int /\ htLast \in [down : BOOLEAN, at : Int]
    /\ htMove \in [before : Nat, n : Nat, motion : Int, wheel : Int, pinch : Int]
    /\ htLast.down => htMove.n > 0
    /\ HtMotionFollows

(* The fingers of a sample.                                                *)
LEMMA HtTipsCounted ==
    ASSUME NEW s \in HtSamples
    PROVE  /\ Len(s) \in Nat /\ s \in Seq([tip : BOOLEAN, at : Nat])
           /\ HtTips(s) \subseteq 1..5 /\ IsFiniteSet(HtTips(s))
           /\ Cardinality(HtTips(s)) \in Nat
           /\ HtTips(s) # {} => Cardinality(HtTips(s)) > 0
           /\ \A i \in HtTips(s) : s[i].at \in Nat
  <1>1. PICK n \in 0..HtContacts : s \in [1..n -> [tip : BOOLEAN, at : HtPlaces]]
    BY DEF HtSamples
  <1>2. n \in Nat /\ n <= 5 /\ HtPlaces \subseteq Nat
    BY HtAssumption
  <1>3. s \in [1..n -> [tip : BOOLEAN, at : Nat]]
    BY <1>1, <1>2
  <1>4. s \in Seq([tip : BOOLEAN, at : Nat]) /\ Len(s) = n
    <2>1. s \in Seq([tip : BOOLEAN, at : Nat])
      <3> DEFINE contact == [tip : BOOLEAN, at : Nat]
      <3> HIDE DEF contact
      <3>1. s \in [1..n -> contact] /\ n \in Nat
        BY <1>2, <1>3 DEF contact
      <3>2. s \in Seq(contact)
        BY <3>1, SeqDef
      <3> QED
        BY <3>2 DEF contact
    <2>2. DOMAIN s = 1..n
      BY <1>3
    <2> QED
      BY <1>2, <2>1, <2>2, LenProperties
  <1>5. HtTips(s) \subseteq 1..n /\ 1..n \subseteq 1..5
    BY <1>2, <1>3 DEF HtTips
  <1>6. IsFiniteSet(HtTips(s))
    BY <1>2, <1>5, FS_Interval, FS_Subset
  <1>7. Cardinality(HtTips(s)) \in Nat /\ (HtTips(s) # {} => Cardinality(HtTips(s)) # 0)
    BY <1>6, FS_CardinalityType, FS_EmptySet
  <1>8. \A i \in HtTips(s) : s[i].at \in Nat
    BY <1>3, <1>5
  <1>9. HtTips(s) # {} => Cardinality(HtTips(s)) > 0
    BY <1>7
  <1>10. HtTips(s) \subseteq 1..5
    BY <1>5
  <1> QED
    BY <1>2, <1>4, <1>6, <1>7, <1>8, <1>9, <1>10

(* Two fingers that the emulation takes for a pair are down.               *)
LEMMA HtTwoTips ==
    ASSUME NEW s \in HtSamples, HtTwo(s)
    PROVE  /\ 1 \in HtTips(s) /\ 2 \in HtTips(s)
           /\ s[1].at \in Nat /\ s[2].at \in Nat
  <1>1. Len(s) \in Nat /\ DOMAIN s = 1..Len(s) /\ Len(s) >= 2
    BY HtTipsCounted DEF HtTwo
  <1>2. 1 \in HtTips(s) /\ 2 \in HtTips(s)
    BY <1>1 DEF HtTwo, HtTips
  <1> QED
    BY <1>2, HtTipsCounted

(* The centroid is a coordinate, and of two fingers it is their mean.      *)
LEMMA HtCentreOf ==
    ASSUME NEW s \in HtSamples, HtTips(s) # {}
    PROVE  /\ HtCentre(s) \in Int
           /\ HtTwo(s) /\ Cardinality(HtTips(s)) = 2 =>
                 HtCentre(s) = (s[1].at + s[2].at) \div 2
  <1>1. \A i \in 1..5 : HtAt(s, i) \in Nat
    BY HtTipsCounted DEF HtAt
  <1> DEFINE sum == HtAt(s, 1) + HtAt(s, 2) + HtAt(s, 3) + HtAt(s, 4) + HtAt(s, 5)
  <1>2. sum \in Nat /\ Cardinality(HtTips(s)) \in Nat \ {0}
    <2>1. /\ HtAt(s, 1) \in Nat /\ HtAt(s, 2) \in Nat /\ HtAt(s, 3) \in Nat
          /\ HtAt(s, 4) \in Nat /\ HtAt(s, 5) \in Nat
      BY <1>1
    <2>2. Cardinality(HtTips(s)) \in Nat \ {0}
      BY HtTipsCounted
    <2> QED
      BY <2>1, <2>2
  <1>3. HtCentre(s) = sum \div Cardinality(HtTips(s))
    BY DEF HtCentre
  <1>4. ASSUME HtTwo(s), Cardinality(HtTips(s)) = 2
        PROVE  sum = s[1].at + s[2].at
    <2>1. 1 \in HtTips(s) /\ 2 \in HtTips(s)
      BY <1>4, HtTwoTips
    <2>2. HtTips(s) = {1, 2}
      <3>1. Cardinality({1, 2}) = 2 /\ IsFiniteSet({1, 2})
        <4>1. IsFiniteSet({1}) /\ Cardinality({1}) = 1 /\ {1} \cup {2} = {1, 2}
          BY FS_Singleton
        <4>2. 2 \notin {1}
          OBVIOUS
        <4>3. IsFiniteSet({1} \cup {2}) /\ Cardinality({1} \cup {2}) = 1 + 1
          BY <4>1, <4>2, FS_AddElement
        <4> QED
          BY <4>1, <4>3
      <3> QED
        BY <1>4, <2>1, <3>1, HtTipsCounted, FS_Subset
    <2>3. s[1].at \in Nat /\ s[2].at \in Nat
      BY <2>1, HtTipsCounted
    <2> QED
      BY <2>2, <2>3 DEF HtAt
  <1> HIDE DEF sum
  <1> QED
    BY <1>2, <1>3, <1>4

(* A value clamped to CHAR's range keeps its sign when it is narrowed.     *)
LEMMA HtNarrow ==
    ASSUME NEW v \in Int
    PROVE  /\ HtClamp(v) \in Int /\ HtClamp(0) = 0
           /\ HtClamp(v) \in -HtCharMax..HtCharMax
           /\ HtChar(HtClamp(v)) = HtClamp(v)
  <1>1. HtCharMax \in Nat /\ HtCharMax > 0
    BY HtAssumption
  <1>2. HtClamp(v) \in Int /\ -HtCharMax <= HtClamp(v) /\ HtClamp(v) <= HtCharMax
    BY <1>1 DEF HtClamp
  <1>3. HtClamp(0) = 0
    BY <1>1 DEF HtClamp
  <1> DEFINE w == HtClamp(v) + HtCharMax + 1
  <1> DEFINE m == 2 * (HtCharMax + 1)
  <1>4. w \in Nat /\ m \in Nat /\ w < m /\ m > 0
    BY <1>1, <1>2
  <1> HIDE DEF w, m
  <1>5. w % m = w
    BY <1>4
  <1>6. HtChar(HtClamp(v)) = HtClamp(v)
    BY <1>1, <1>2, <1>5 DEF HtChar, w, m
  <1> QED
    BY <1>1, <1>2, <1>3, <1>6

(* What a sample makes of cursor, wheel and pinch.                         *)
LEMMA HtSampleMoves ==
    ASSUME HtInv, NEW s \in HtSamples, NEW quick \in BOOLEAN, HtSample(s, quick)
    PROVE  /\ htMove' \in [before : Nat, n : Nat, motion : Int, wheel : Int, pinch : Int]
           /\ htMove'.before = htMove.n /\ htMove'.n = Cardinality(HtTips(s))
           /\ HtMotionFollows'
  <1> DEFINE wheel == IF HtTwo(s) THEN HtWheel(s) ELSE 0
  <1> DEFINE zoom == IF HtTwo(s) THEN HtZoom(s) ELSE 0
  <1> DEFINE motion == IF HtTips(s) # {} /\ htLast.down
                       THEN HtClamp(HtCentre(s) - htLast.at) ELSE 0
  <1>1. htMove' = [before |-> htMove.n, n |-> Cardinality(HtTips(s)), motion |-> motion,
                   wheel |-> HtChar(wheel + zoom), pinch |-> zoom]
    BY DEF HtSample
  <1>2. htPinch \in Int /\ htLast.at \in Int /\ htLast.down \in BOOLEAN /\ htMove.n \in Nat
    BY DEF HtInv
  <1>3. /\ Cardinality(HtTips(s)) \in Nat
        /\ HtTips(s) # {} => HtCentre(s) \in Int
    BY HtTipsCounted, HtCentreOf
  <1>4. motion \in Int /\ (motion # 0 => htMove.n > 0)
    BY <1>2, <1>3, HtNarrow DEF HtInv
  <1>5. zoom \in Int /\ HtChar(zoom) = zoom
    <2>1. CASE HtTwo(s) /\ htPinch # 0
      <3>1. s[1].at \in Int /\ s[2].at \in Int
        BY <2>1, HtTwoTips
      <3>2. HtDistSq(s) - htPinch \in Int
        BY <1>2, <3>1 DEF HtDistSq
      <3>3. zoom = HtClamp(HtDistSq(s) - htPinch)
        BY <2>1 DEF HtZoom
      <3> QED
        BY ONLY <3>2, <3>3, HtNarrow
    <2>2. CASE ~(HtTwo(s) /\ htPinch # 0)
      <3>1. zoom = 0
        BY <2>2 DEF HtZoom
      <3>2. HtClamp(0) = 0 /\ HtChar(HtClamp(0)) = HtClamp(0)
        BY HtNarrow
      <3> QED
        BY <3>1, <3>2
    <2> QED
      BY <2>1, <2>2
  <1>6. wheel \in Int /\ (Cardinality(HtTips(s)) = 2 => wheel = 0)
    <2>1. CASE HtTwo(s)
      <3> DEFINE mean == (s[1].at + s[2].at) \div 2
      <3>1. s[1].at \in Int /\ s[2].at \in Int /\ HtTips(s) # {}
        BY <2>1, HtTwoTips
      <3>2. mean \in Int /\ HtCentre(s) \in Int /\ HtLastAfter(s).at = HtCentre(s)
        BY <1>3, <3>1 DEF HtLastAfter
      <3>3. Cardinality(HtTips(s)) = 2 => HtCentre(s) = mean
        BY <2>1, <3>1, HtCentreOf
      <3>4. wheel = HtClamp(HtHalf(mean - HtCentre(s)))
        BY <2>1, <3>2 DEF HtWheel
      <3> HIDE DEF mean, wheel
      <3>5. HtHalf(mean - HtCentre(s)) \in Int /\ HtHalf(0) = 0
        BY <3>2 DEF HtHalf
      <3>6. mean = HtCentre(s) => mean - HtCentre(s) = 0
        BY <3>2
      <3> QED
        BY <3>3, <3>4, <3>5, <3>6, HtNarrow
    <2>2. CASE ~HtTwo(s)
      BY <2>2
    <2> QED
      BY <2>1, <2>2
  <1> HIDE DEF wheel, zoom, motion
  <1>7. HtChar(wheel + zoom) \in Int /\ (Cardinality(HtTips(s)) = 2 => HtChar(wheel + zoom) = zoom)
    <2>1. HtChar(wheel + zoom) \in Int
      BY <1>5, <1>6, HtAssumption DEF HtChar
    <2>2. wheel = 0 => wheel + zoom = zoom
      BY <1>5
    <2> QED
      BY <1>5, <1>6, <2>1, <2>2
  <1>8. HtMotionFollows'
    BY <1>1, <1>2, <1>3, <1>4, <1>5, <1>7 DEF HtMotionFollows, HtNoJump, HtPinchKeepsSign
  <1> QED
    BY <1>1, <1>2, <1>3, <1>4, <1>5, <1>7, <1>8

(* No finger was down when a click has been made, and the motion follows.  *)
LEMMA HtKept == HtSpec => []HtInv
  <1>1. HtInit => HtInv
    BY DEF HtInit, HtInv, HtMotionFollows, HtNoJump, HtPinchKeepsSign
  <1>2. HtInv /\ [HtNext]_htVars => HtInv'
    <2> SUFFICES ASSUME HtInv, [HtNext]_htVars PROVE HtInv'
      OBVIOUS
    <2>1. ASSUME NEW s \in HtSamples, NEW quick \in BOOLEAN, HtSample(s, quick)
          PROVE  HtInv'
      <3>1. /\ Cardinality(HtTips(s)) \in Nat
            /\ HtTips(s) # {} => Cardinality(HtTips(s)) > 0 /\ HtCentre(s) \in Int
        BY HtTipsCounted, HtCentreOf
      <3>2. /\ htMove' \in [before : Nat, n : Nat, motion : Int, wheel : Int, pinch : Int]
            /\ htMove'.n = Cardinality(HtTips(s)) /\ HtMotionFollows'
        BY <2>1, HtSampleMoves
      <3>3. /\ htLast' \in [down : BOOLEAN, at : Int] /\ (htLast'.down => HtTips(s) # {})
        <4>1. htLast' = HtLastAfter(s)
          BY <2>1 DEF HtSample
        <4> QED
          BY <3>1, <4>1 DEF HtLastAfter, HtInv
      <3>4. /\ htDown' = IF HtTips(s) # {} THEN Cardinality(HtTips(s)) ELSE 0
            /\ htClicks' = IF HtTips(s) # {} THEN 0
                           ELSE IF HtClick(HtTap(s, quick)) THEN htClicks + 1 ELSE htClicks
        BY <2>1 DEF HtSample, HtTapDown
      <3>5. /\ htDown' \in Nat /\ htClicks' \in {0, 1} /\ (htClicks' = 1 => htDown' = 0)
        BY <3>1, <3>4 DEF HtInv, HtClick, HtTap
      <3>6. htPinch' \in Int
        <4>1. HtTwo(s) => HtDistSq(s) \in Int
          BY HtTwoTips DEF HtDistSq
        <4> QED
          BY <2>1, <4>1 DEF HtSample
      <3> QED
        BY <3>1, <3>2, <3>3, <3>5, <3>6 DEF HtInv
    <2>2. CASE HtDeliver \/ HtReadComes \/ UNCHANGED htVars
      <3>1. UNCHANGED <<htDown, htClicks, htLast, htMove, htPinch>>
        BY <2>2 DEF HtDeliver, HtReadComes, htVars
      <3> QED
        BY <3>1 DEF HtInv, HtMotionFollows, HtNoJump, HtPinchKeepsSign
    <2> QED
      BY <2>1, <2>2 DEF HtNext
  <1> QED
    BY <1>1, <1>2, PTL DEF HtSpec

(* A tap is one click, however long nothing touches the pad afterwards and *)
(* however many fingers it began with.                                     *)
THEOREM HtAlwaysOneClick == HtSpec => []HtOneClick
  <1>1. HtInv => HtOneClick
    BY DEF HtInv, HtOneClick
  <1> QED
    BY <1>1, HtKept, PTL

(* A finger that lands moves nothing, and a pinch turns the wheel its own  *)
(* way and never wraps in its CHAR, wherever the fingers are.              *)
THEOREM HtMotionAlwaysFollows == HtSpec => []HtMotionFollows
  <1>1. HtInv => HtMotionFollows
    BY DEF HtInv
  <1> QED
    BY <1>1, HtKept, PTL

-----------------------------------------------------------------------------
(***************************************************************************)
(* HidGestures: what the loops leave of the sums.                          *)
(***************************************************************************)
GsInv ==
    /\ gsAccum \in [GsAxis -> Int] /\ gsScale \in [GsAxis -> Nat]
    /\ gsAt \in GsAxis \cup {"idle"} /\ gsDelta \in [GsAxis -> Int]
    /\ gsUsed \in [GsAxis -> Nat \ {0}] /\ gsBefore \in Nat \ {0} /\ gsWheels \in Nat
    /\ gsAt = "scroll" => /\ gsBefore = gsUsed["scroll"] /\ gsWheels = 0
                          /\ gsAccum["scroll"] < gsBefore + GsContacts
                          /\ -gsAccum["scroll"] < gsBefore + GsContacts
    /\ GsGesturesSettle

(* A sum that lost whole scales is smaller than one, whichever its sign.   *)
LEMMA GsSettleBounds ==
    ASSUME NEW v \in Int, NEW scale \in Nat \ {0}
    PROVE  /\ GsSettle(v, scale) \in Int
           /\ GsSettle(v, scale) < scale /\ -GsSettle(v, scale) < scale
  <1>1. \A w \in Int : w % scale \in Int /\ 0 <= w % scale /\ w % scale < scale
    OBVIOUS
  <1>2. CASE v >= 0
    BY <1>1, <1>2 DEF GsSettle
  <1>3. CASE v < 0
    <2>1. -v \in Int
      OBVIOUS
    <2> DEFINE r == (-v) % scale
    <2>2. r \in Int /\ 0 <= r /\ r < scale
      BY <1>1, <2>1
    <2>3. GsSettle(v, scale) = -r
      BY <1>3 DEF GsSettle
    <2> HIDE DEF r
    <2> QED
      BY <2>2, <2>3
  <1> QED
    BY <1>2, <1>3

(* The whole scales taken off a sum are no more than the sum.              *)
LEMMA GsStepsBound ==
    ASSUME NEW v \in Int, NEW scale \in Nat \ {0}, NEW b \in Int, v < b, -v < b
    PROVE  GsSteps(v, scale) \in Nat /\ GsSteps(v, scale) * scale < b
  <1>1. ASSUME NEW w \in Nat, w < b
        PROVE  w \div scale \in Nat /\ (w \div scale) * scale < b
    <2> DEFINE q == w \div scale
    <2> DEFINE r == w % scale
    <2>1. q \in Int /\ r \in Int /\ w = scale * q + r /\ 0 <= r /\ r < scale
      OBVIOUS
    <2> HIDE DEF q, r
    <2>2. q >= 0
      <3>1. SUFFICES ASSUME q <= -1 PROVE FALSE
        BY <2>1
      <3>2. scale * q <= -scale
        BY <2>1, <3>1
      <3> QED
        BY <2>1, <3>2
    <2>3. scale * q = q * scale /\ scale * q \in Int
      BY <2>1
    <2>4. q * scale < b
      BY <1>1, <2>1, <2>3
    <2> QED
      BY <2>1, <2>2, <2>4 DEF q
  <1> QED
    BY <1>1 DEF GsSteps

(* The loops of one axis leave a sum below the scale they ran with.        *)
LEMMA GsLoopsKept ==
    ASSUME GsInv, NEW a \in GsAxis, GsLoops(a)
    PROVE  GsInv'
  <1> DEFINE s == gsScale[a]
  <1> DEFINE left == GsSettle(gsAccum[a], s)
  <1>0. GsContacts \in Nat \ {0, 1}
    BY GsAssumption
  <1>1. /\ s \in Nat \ {0} /\ gsAccum[a] \in Int /\ gsAt = a /\ gsAt' = GsAfter[a]
        /\ gsUsed' = [gsUsed EXCEPT ![a] = s] /\ gsBefore' = gsBefore
        /\ gsScale' = gsScale /\ gsDelta' = gsDelta
    BY DEF GsInv, GsLoops
  <1>2. left \in Int /\ left < s /\ -left < s
    BY <1>1, GsSettleBounds
  <1>3. /\ gsAccum' \in [GsAxis -> Int]
        /\ \A x \in GsAxis : gsAt' # x =>
              gsAccum'[x] = IF x = a THEN left ELSE gsAccum[x]
    <2>1. gsAccum' = [x \in GsAxis |-> IF x = a THEN left
                        ELSE IF x = GsAfter[a] THEN gsAccum[x] + gsDelta[x] ELSE gsAccum[x]]
      BY DEF GsLoops
    <2> HIDE DEF left
    <2> QED
      BY <1>1, <1>2, <2>1 DEF GsInv
  <1>4. gsAt' \in GsAxis \cup {"idle"} /\ gsAt' # "scroll" /\ gsAt' # a
    BY <1>1 DEF GsAxis, GsAfter
  <1>5. gsUsed' \in [GsAxis -> Nat \ {0}] /\ gsUsed'[a] = s
        /\ \A x \in GsAxis : x # a => gsUsed'[x] = gsUsed[x]
    BY <1>1 DEF GsInv
  <1> HIDE DEF left, s
  <1>6. GsBelowScale'
    BY <1>1, <1>2, <1>3, <1>4, <1>5 DEF GsInv, GsGesturesSettle, GsBelowScale
  <1>7. gsWheels' \in Nat /\ GsBurstBounded'
    <2>1. CASE a = "scroll"
      <3>1. gsWheels' = GsSteps(gsAccum[a], s)
        BY <2>1 DEF GsLoops, s
      <3>2. gsAccum[a] < gsBefore + GsContacts /\ -gsAccum[a] < gsBefore + GsContacts
            /\ gsBefore + GsContacts \in Int
        BY <1>0, <1>1, <2>1 DEF GsInv
      <3>3. s \in Nat \ {0} /\ gsAccum[a] \in Int
        BY <1>1
      <3>4. gsWheels' \in Nat /\ gsWheels' * s < gsBefore + GsContacts
        BY ONLY <3>1, <3>2, <3>3, GsStepsBound
      <3> QED
        BY <1>1, <1>5, <2>1, <3>4 DEF GsBurstBounded
    <2>2. CASE a # "scroll"
      <3>1. gsWheels' = gsWheels /\ gsUsed'["scroll"] = gsUsed["scroll"] /\ gsBefore' = gsBefore
        BY <1>1, <1>5, <2>2 DEF GsLoops, GsAxis
      <3> QED
        BY <3>1 DEF GsInv, GsGesturesSettle, GsBurstBounded
    <2> QED
      BY <2>1, <2>2
  <1> QED
    BY <1>1, <1>3, <1>4, <1>5, <1>6, <1>7 DEF GsInv, GsGesturesSettle

(* The loops of I2cHw_AnalyzeGestures leave an axis below the scale they    *)
(* ran with, and a sample releases no more wheel reports than its fingers   *)
(* and what an earlier scale kept back: for any number of contacts, any     *)
(* scales, 0 among them, and whatever is written while they run.            *)
THEOREM GsAlwaysSettles == GsSpec => []GsGesturesSettle
  <1>0. GsContacts \in Nat \ {0, 1} /\ GsScales \subseteq Nat
    BY GsAssumption
  <1>1. GsInit => GsInv
    <2> SUFFICES ASSUME GsInit PROVE GsInv
      OBVIOUS
    <2>1. /\ gsAccum = [a \in GsAxis |-> 0] /\ gsUsed = [a \in GsAxis |-> 1]
          /\ gsDelta = [a \in GsAxis |-> 0] /\ gsAt = "idle" /\ gsBefore = 1 /\ gsWheels = 0
      BY DEF GsInit, GsZero
    <2>2. gsScale \in [GsAxis -> Nat]
      BY <1>0 DEF GsInit
    <2>3. GsBelowScale
      BY <2>1 DEF GsBelowScale
    <2>4. GsBurstBounded
      <3>1. gsUsed["scroll"] = 1
        BY <2>1 DEF GsAxis
      <3> QED
        BY <1>0, <2>1, <3>1 DEF GsBurstBounded
    <2>5. /\ gsAccum \in [GsAxis -> Int] /\ gsDelta \in [GsAxis -> Int]
          /\ gsUsed \in [GsAxis -> Nat \ {0}]
      BY <2>1
    <2> QED
      BY <2>1, <2>2, <2>3, <2>4, <2>5 DEF GsInv, GsGesturesSettle
  <1>2. GsInv /\ [GsNext]_gsVars => GsInv'
    <2> SUFFICES ASSUME GsInv, [GsNext]_gsVars
                 PROVE  GsInv'
      OBVIOUS
    <2>1. ASSUME NEW n \in 2..GsContacts, NEW zoom \in -1..1, NEW rotate \in -1..1,
                 NEW scroll \in -n..n, GsGesture(scroll, zoom, rotate)
          PROVE  GsInv'
      <3>1. /\ scroll \in Int /\ scroll <= GsContacts /\ -scroll <= GsContacts
            /\ zoom \in Int /\ rotate \in Int
        BY <1>0
      <3>2. /\ gsAccum["scroll"] \in Int /\ gsUsed["scroll"] \in Nat \ {0}
            /\ gsAccum["scroll"] < gsUsed["scroll"] /\ -gsAccum["scroll"] < gsUsed["scroll"]
        BY <2>1 DEF GsGesture, GsInv, GsGesturesSettle, GsBelowScale, GsAxis
      <3>3. /\ gsAccum' = [gsAccum EXCEPT !["scroll"] = gsAccum["scroll"] + scroll]
            /\ gsAccum' \in [GsAxis -> Int] /\ gsDelta' \in [GsAxis -> Int]
            /\ gsAccum'["scroll"] = gsAccum["scroll"] + scroll
        BY <2>1, <3>1, <3>2 DEF GsGesture, GsInv, GsAxis
      <3>4. gsAccum'["scroll"] < gsUsed["scroll"] + GsContacts
            /\ -(gsAccum'["scroll"]) < gsUsed["scroll"] + GsContacts
        BY <1>0, <3>1, <3>2, <3>3
      <3>5. /\ gsAt = "idle" /\ gsAt' = "scroll" /\ gsScale' = gsScale /\ gsUsed' = gsUsed
            /\ gsBefore' = gsUsed["scroll"] /\ gsWheels' = 0
        BY <2>1 DEF GsGesture
      <3>6. GsBelowScale'
        BY <3>3, <3>5 DEF GsInv, GsGesturesSettle, GsBelowScale, GsAxis
      <3>7. GsBurstBounded'
        BY <1>0, <3>2, <3>5 DEF GsBurstBounded
      <3> QED
        BY <3>2, <3>3, <3>4, <3>5, <3>6, <3>7 DEF GsInv, GsGesturesSettle, GsAxis
    <2>2. ASSUME NEW a \in GsAxis, GsConfigure(a) PROVE GsInv'
      <3>1. gsScale' \in [GsAxis -> Nat]
        BY <1>0, <2>2 DEF GsConfigure, GsInv
      <3> QED
        BY <2>2, <3>1 DEF GsConfigure, GsInv, GsGesturesSettle, GsBelowScale, GsBurstBounded
    <2>3. CASE GsNoTwo
      <3>1. gsUsed["scroll"] \in Nat \ {0} /\ gsBefore' \in Nat \ {0}
            /\ gsBefore' = gsUsed["scroll"] /\ gsWheels' = 0 /\ gsUsed' = gsUsed
        BY <2>3 DEF GsNoTwo, GsInv, GsAxis
      <3>2. GsBurstBounded'
        BY <1>0, <3>1 DEF GsBurstBounded
      <3> QED
        BY <2>3, <3>1, <3>2 DEF GsNoTwo, GsInv, GsGesturesSettle, GsBelowScale
    <2>4. CASE GsReset
      <3>1. gsAccum' = [a \in GsAxis |-> 0] /\ gsUsed' = gsUsed
            /\ \A a \in GsAxis : gsUsed[a] \in Nat /\ gsUsed[a] > 0
        BY <2>4 DEF GsReset, GsZero, GsInv
      <3>2. gsAccum' \in [GsAxis -> Int] /\ GsBelowScale'
        BY <3>1 DEF GsBelowScale
      <3>3. gsAccum'["scroll"] = 0 /\ gsBefore' = gsBefore /\ gsBefore \in Nat \ {0}
        BY <2>4, <3>1 DEF GsReset, GsInv, GsAxis
      <3> QED
        BY <1>0, <2>4, <3>2, <3>3 DEF GsReset, GsInv, GsGesturesSettle, GsBurstBounded
    <2>5. CASE UNCHANGED gsVars
      BY <2>5 DEF gsVars, GsInv, GsGesturesSettle, GsBelowScale, GsBurstBounded
    <2> QED
      BY <2>1, <2>2, <2>3, <2>4, <2>5, GsLoopsKept DEF GsNext
  <1>3. GsInv => GsGesturesSettle
    BY DEF GsInv
  <1> QED
    BY <1>1, <1>2, <1>3, PTL DEF GsSpec

-----------------------------------------------------------------------------
(***************************************************************************)
(* HidConfig: the fields, the ranges, and what validation leaves.          *)
(***************************************************************************)
CfInv == cfCfg \in [CfField -> Nat] /\ CfRangesHold

(* A value is clamped into its field's range, and stays when it is in it.  *)
LEMMA CfClampBounds ==
    ASSUME NEW f \in CfField, NEW v \in Nat
    PROVE  /\ CfClamp(f, v) \in Nat /\ CfClamp(f, v) \in CfLegal(f)
           /\ v \in CfLegal(f) => CfClamp(f, v) = v /\ v # 0
  <1>1. CfRange[f].lo \in Nat /\ CfRange[f].hi \in Nat /\ CfRange[f].lo <= CfRange[f].hi
    BY CfAssumption DEF CfLegal
  <1>2. 0 \notin CfLegal(f)
    BY CfAssumption
  <1> QED
    BY <1>1, <1>2 DEF CfClamp, CfLegal

(* A report of any fields: where it is 0 the field stays, elsewhere it     *)
(* ends in its range.                                                      *)
LEMMA CfAppliedBounds ==
    ASSUME cfCfg \in [CfField -> Nat], NEW report \in [CfField -> Nat]
    PROVE  /\ CfApplied(report) \in [CfField -> Nat]
           /\ \A f \in CfField :
                 /\ report[f] = 0 => CfApplied(report)[f] = cfCfg[f]
                 /\ report[f] # 0 => CfApplied(report)[f] \in CfLegal(f)
                 /\ report[f] \in CfLegal(f) => CfApplied(report)[f] = report[f]
  BY CfClampBounds DEF CfApplied

(* The configuration leaves its ranges only by the registry or report      *)
(* 0x03, and I2CHID_ValidateFeatureReport puts it back without touching    *)
(* what was right, whatever the fields' ranges and defaults are.           *)
THEOREM CfRangesAlwaysHold == CfSpec => []CfRangesHold
  <1> USE DEF CfInv, CfRangesHold, CfOnlyWildOutOfRange, CfValidationRepairs
  <1>1. CfInit => CfInv
    BY CfAssumption DEF CfInit
  <1>2. CfInv /\ [CfNext]_cfVars => CfInv'
    <2> SUFFICES ASSUME CfInv, [CfNext]_cfVars
                 PROVE  CfInv'
      OBVIOUS
    <2>1. ASSUME NEW fs \in SUBSET CfField, NEW found \in [fs -> CfValue], CfLoad(found)
          PROVE  CfInv'
      BY <2>1, CfAssumption DEF CfLoad, CfNone
    <2>2. ASSUME NEW report \in [CfField -> CfValue], NEW saved \in CfSaved,
                 CfApply(report, saved)
          PROVE  CfInv'
      <3>1. report \in [CfField -> Nat]
        BY CfAssumption
      <3> QED
        BY <2>2, <3>1, CfAppliedBounds DEF CfApply
    <2>3. ASSUME NEW saved \in CfSaved, CfValidate(saved)
          PROVE  CfInv'
      <3>1. /\ cfCfg' = CfApplied(cfCfg) /\ cfBefore' = cfCfg
            /\ cfWild' = {f \in cfWild : cfCfg[f] = 0}
            /\ cfStatus' = "success" => cfCfg' = cfCfg
        BY <2>3 DEF CfValidate, CfFill, CfSaved
      <3> QED
        BY <3>1, CfAppliedBounds, CfClampBounds
    <2>4. ASSUME NEW scroll \in CfValue, NEW tap \in CfValue, CfSetThree(scroll, tap)
          PROVE  CfInv'
      BY <2>4, CfAssumption DEF CfSetThree, CfField
    <2>5. CASE CfApplyRefused \/ CfWriteReset \/ \E rid \in {"led", "vendor", "unknown"} :
                  CfWriteOther(rid)
      BY <2>5 DEF CfApplyRefused, CfWriteReset, CfWriteOther
    <2>6. CASE CfTouch \/ UNCHANGED cfVars
      BY <2>6 DEF CfTouch, cfVars
    <2> QED
      BY <2>1, <2>2, <2>3, <2>4, <2>5, <2>6 DEF CfNext
  <1> QED
    BY <1>1, <1>2, PTL DEF CfSpec

-----------------------------------------------------------------------------
(***************************************************************************)
(* HidDetect: reads that give up and their answers that come later.        *)
(***************************************************************************)
(* Detection: commands are a write of register 1 and the tokens after it.  *)
HdCommands ==
    {[to |-> a, do |-> "write", reg |-> 1] : a \in HdAddresses} \cup
    {[to |-> a, do |-> "read", reg |-> 0] : a \in HdAddresses}

HdBuses ==
    [tar : HdAddresses \cup {0}, tx : Seq(HdCommands), rx : Seq(HdAddresses \X Nat),
     raw : SUBSET {"stop", "abort"}, next : [HdAddresses -> Nat], on : BOOLEAN, ok : BOOLEAN]

HdTypes ==
    /\ hdBus \in HdBuses /\ hdPad \in HdAddresses \cup {0}
    /\ hdBackend \in {"dw", "acpi"} /\ hdAt \in {"idle", "header", "descriptor", "done"}
    /\ hdAddr \in HdAddresses \cup {0} /\ hdGot \in Seq(HdAddresses \X Nat) /\ hdLate \in BOOLEAN
    /\ hdLost \in BOOLEAN
    /\ HdReading => hdAddr \in HdAddresses /\ hdTry = 1
    /\ hdAt = "idle" => hdBus = HalIdle(HdAddresses) /\ hdPad = 0 /\ ~hdLate /\ hdGot = <<>>
    /\ hdBackend = "acpi" => /\ hdBus.tx = <<>> /\ hdBus.rx = <<>> /\ hdGot = <<>>
                             /\ hdAt # "descriptor" /\ (hdAt = "done" => hdAddr = 0)

(* The answer of device p from register 1 is a mark.  One is on the way in *)
(* a write that will have p answer so, in p itself, or in a FIFO.          *)
HdWritesTo(tx, p) == {k \in DOMAIN tx : tx[k].do = "write" /\ tx[k].to = p}
HdMarksIn(s, p) == {k \in DOMAIN s : s[k] = <<p, 1>>}
HdAtMostOne(S) == \A j, k \in S : j = k

(* No register 0 of p is read: a write comes before the tokens.            *)
HdWriteFirst(b, p) ==
    b.next[p] = 0 =>
        \A k \in DOMAIN b.tx : b.tx[k].do = "read" /\ b.tx[k].to = p =>
            \E j \in HdWritesTo(b.tx, p) : j < k

HdNone(b, got, p) ==
    /\ HdWriteFirst(b, p)
    /\ HdWritesTo(b.tx, p) = {} /\ b.next[p] # 1
    /\ HdMarksIn(b.rx, p) = {} /\ HdMarksIn(got, p) = {}

(* Unless p's write was lost: then its tokens read register 1 second.      *)
HdTokensOnly(b, got, p) ==
    HdWritesTo(b.tx, p) = {} /\ HdMarksIn(b.rx, p) = {} /\ HdMarksIn(got, p) = {}

HdOne(b, got, p) ==
    /\ HdAtMostOne(HdWritesTo(b.tx, p)) /\ HdAtMostOne(HdMarksIn(b.rx, p))
    /\ HdAtMostOne(HdMarksIn(got, p))
    /\ \/ HdWritesTo(b.tx, p) = {}
       \/ b.next[p] # 1 /\ HdMarksIn(b.rx, p) = {} /\ HdMarksIn(got, p) = {}
    /\ b.next[p] # 1 \/ (HdMarksIn(b.rx, p) = {} /\ HdMarksIn(got, p) = {})
    /\ HdMarksIn(b.rx, p) = {} \/ HdMarksIn(got, p) = {}
    /\ HdWriteFirst(b, p) \/ HdTokensOnly(b, got, p)

(* One mark of the touchpad at most is on its way, and none before it is   *)
(* addressed or in a descriptor that is read behind it.                    *)
HdMarks ==
    hdPad # 0 /\ hdBackend = "dw" =>
        /\ HdOne(hdBus, hdGot, hdPad)
        /\ HdReading /\ hdAddr < hdPad => HdNone(hdBus, hdGot, hdPad)
        /\ hdAt = "descriptor" /\ hdAddr > hdPad => HdNone(hdBus, hdGot, hdPad)

(* Until a read gives up too early, or loses a command, the FIFOs hold the present read only:   *)
(* refused, unserved, or with n bytes that are to come or have come.       *)
HdFirst(b, got, a) ==
    IF got # <<>> THEN got[1] = <<a, 1>>
    ELSE IF b.rx # <<>> THEN b.rx[1] = <<a, 1>>
    ELSE b.next[a] = 1

HdRefused(b, got) == b.tx = <<>> /\ b.rx = <<>> /\ got = <<>>

HdUnserved(b, got, n) ==
    /\ Len(b.tx) = n + 1 /\ b.rx = <<>> /\ got = <<>>
    /\ \A k \in DOMAIN b.tx : b.tx[k].do = IF k = 1 THEN "write" ELSE "read"

HdAnswering(b, got, a, n) ==
    /\ HdFirst(b, got, a)
    /\ \A k \in DOMAIN b.tx : b.tx[k].do = "read"
    /\ Len(b.tx) + Len(b.rx) + Len(got) = n

HdOwn(b, got, a, n, present) ==
    /\ \A k \in DOMAIN b.tx : b.tx[k].to = a
    /\ \/ "abort" \in b.raw /\ a \notin present /\ HdRefused(b, got)
       \/ "abort" \notin b.raw /\ HdUnserved(b, got, n)
       \/ "abort" \notin b.raw /\ a \in present /\ HdAnswering(b, got, a, n)

HdInTime ==
    hdPad # 0 /\ hdBackend = "dw" /\ ~hdLate /\ ~hdLost =>
        /\ HdReading => hdAddr <= hdPad /\ HdOwn(hdBus, hdGot, hdAddr, HdLength(hdAt), HdPresent)
        /\ hdAt = "done" => hdAddr = hdPad

HdInv == HdTypes /\ HdMarks /\ HdInTime /\ HdFoundIsThere

(* Commands of either kind, with their parts.                              *)
LEMMA HdCommandsAre ==
    /\ \A c \in HdCommands : /\ c.to \in HdAddresses /\ c.do \in {"write", "read"}
                             /\ c.do = "write" => c.reg = 1
    /\ \A a \in HdAddresses : /\ [to |-> a, do |-> "write", reg |-> 1] \in HdCommands
                              /\ [to |-> a, do |-> "read", reg |-> 0] \in HdCommands
  <1>1. ASSUME NEW c \in HdCommands
        PROVE  /\ c.to \in HdAddresses /\ c.do \in {"write", "read"}
               /\ c.do = "write" => c.reg = 1
    <2>1. CASE \E a \in HdAddresses : c = [to |-> a, do |-> "write", reg |-> 1]
      BY <2>1
    <2>2. CASE \E a \in HdAddresses : c = [to |-> a, do |-> "read", reg |-> 0]
      BY <2>2
    <2> QED
      BY <2>1, <2>2 DEF HdCommands
  <1>2. ASSUME NEW a \in HdAddresses
        PROVE  /\ [to |-> a, do |-> "write", reg |-> 1] \in HdCommands
               /\ [to |-> a, do |-> "read", reg |-> 0] \in HdCommands
    BY DEF HdCommands
  <1> QED
    BY <1>1, <1>2

(* What a read puts behind the commands that are queued: the write or not, *)
(* and n tokens.                                                           *)
HdIssuedAs(c, b, a, w, n) ==
    /\ c \in HdBuses /\ c.rx = b.rx /\ c.raw = b.raw /\ c.next = b.next
    /\ Len(c.tx) = Len(b.tx) + w + n
    /\ \A k \in 1 .. Len(b.tx) : c.tx[k] = b.tx[k]
    /\ w = 1 => c.tx[Len(b.tx) + 1] = [to |-> a, do |-> "write", reg |-> 1]
    /\ \A k \in Len(b.tx) + w + 1 .. Len(b.tx) + w + n :
          c.tx[k] = [to |-> a, do |-> "read", reg |-> 0]

(* As many tokens as are asked for are a sequence of commands.              *)
LEMMA HdTokenSeq ==
    ASSUME NEW n \in Nat, NEW f \in [1 .. n -> HdCommands] PROVE f \in Seq(HdCommands)
  BY SeqDef, Zenon

(* What is issued is the commands in that order behind the queued ones.    *)
LEMMA HdIssuedBus ==
    ASSUME NEW b \in HdBuses, NEW a \in HdAddresses, NEW w \in 0 .. 1, NEW n \in Nat
    PROVE  HdIssuedAs(HdIssued(b, a, w, n), b, a, w, n)
  <1> DEFINE x == [to |-> a, do |-> "write", reg |-> 1]
             r == [to |-> a, do |-> "read", reg |-> 0]
             one == [k \in 1 .. 1 |-> x]
             all == [k \in 1 .. n |-> r]
             e == DwSetTarget7bit(DwEnable(b, TRUE), a)
             t == IF w = 1 THEN b.tx \o one ELSE b.tx
             u == t \o all
             c == HdIssued(b, a, w, n)
             m == Len(b.tx)
             d == m + w
  <1>1. /\ e \in HdBuses /\ e.tx = b.tx /\ e.rx = b.rx /\ e.raw = b.raw /\ e.next = b.next
        /\ e.tar = a /\ e.on
    BY DEF HdBuses, DwSetTarget7bit, DwEnable
  <1>2. c = DwPrimeReadTokens(IF w = 1 THEN DwIssueWriteByte(e, 1) ELSE e, n)
    BY DEF HdIssued
  <1> HIDE DEF e
  <1> DEFINE f == [e EXCEPT !.tx = t]
  <1>3. (IF w = 1 THEN DwIssueWriteByte(e, 1) ELSE e) = f
    <2>1. CASE w = 1
      BY <1>1, <2>1 DEF DwIssueWriteByte, DwCommand, DwCommands
    <2>2. CASE w # 1
      BY <1>1, <2>2 DEF HdBuses
    <2> QED
      BY <2>1, <2>2
  <1>4. x \in HdCommands /\ r \in HdCommands
    BY HdCommandsAre
  <1>5. b.tx \in Seq(HdCommands) /\ m \in Nat /\ d \in Nat /\ m <= d /\ (w = 1 \/ w = 0)
    <2>1. b.tx \in Seq(HdCommands)
      BY DEF HdBuses
    <2>2. m \in Nat
      BY <2>1
    <2> HIDE DEF m
    <2>3. m + w \in Nat /\ m <= m + w /\ (w = 1 \/ w = 0)
      BY <2>2
    <2> QED
      BY <2>1, <2>2, <2>3
  <1>6. one = <<x>>
    OBVIOUS
  <1>7. /\ t \in Seq(HdCommands) /\ Len(t) = d
        /\ w = 1 => t[m + 1] = x
        /\ \A k \in 1 .. m : t[k] = b.tx[k]
    <2>1. CASE w = 1
      <3>1. t = Append(b.tx, x)
        BY <1>4, <1>5, <1>6, <2>1, AppendIsConcat
      <3> QED
        BY <1>4, <1>5, <2>1, <3>1, AppendProperties
    <2>2. CASE w = 0
      BY <1>5, <2>2
    <2> QED
      BY <1>5, <2>1, <2>2
  <1> HIDE DEF t
  <1>8. /\ f \in HdBuses /\ f.tx = t /\ f.rx = b.rx /\ f.raw = b.raw /\ f.next = b.next
        /\ f.tar = a /\ f.on
    BY <1>1, <1>7 DEF HdBuses
  <1>9. all \in Seq(HdCommands) /\ Len(all) = n /\ \A k \in 1 .. n : all[k] = r
    <2>1. all \in [1 .. n -> HdCommands]
      BY <1>4
    <2>2. all \in Seq(HdCommands)
      BY <2>1, HdTokenSeq
    <2>3. DOMAIN all = 1 .. n /\ DOMAIN all = 1 .. Len(all) /\ Len(all) \in Nat
      BY <2>2, LenProperties
    <2>4. Len(all) = n
      BY ONLY <2>3, n \in Nat
    <2> QED
      BY <2>2, <2>4
  <1> DEFINE g == [f EXCEPT !.tx = u]
  <1>10. DwPrimeReadTokens(f, n) = g
    BY <1>8 DEF DwPrimeReadTokens, DwCommands
  <1> HIDE DEF all, f
  <1>11. /\ u \in Seq(HdCommands) /\ Len(u) = d + n
         /\ \A k \in 1 .. d + n : u[k] = IF k <= d THEN t[k] ELSE all[k - d]
    <2>1. /\ u \in Seq(HdCommands) /\ Len(u) = Len(t) + Len(all)
          /\ \A k \in 1 .. Len(t) + Len(all) :
                u[k] = IF k <= Len(t) THEN t[k] ELSE all[k - Len(t)]
      BY <1>7, <1>9, ConcatProperties
    <2> QED
      BY <1>7, <1>9, <2>1
  <1> HIDE DEF u
  <1>12. /\ g \in HdBuses /\ g.tx = u /\ g.rx = b.rx /\ g.raw = b.raw /\ g.next = b.next
    BY <1>8, <1>11 DEF HdBuses
  <1> HIDE DEF g
  <1>13. c = g
    BY <1>2, <1>3, <1>10
  <1> HIDE DEF m
  <1>15. \A k \in 1 .. m : u[k] = b.tx[k]
    <2>1. ASSUME NEW k \in 1 .. m PROVE u[k] = b.tx[k]
      <3>1. k \in 1 .. d + n /\ k <= d
        BY <1>5, <2>1
      <3>2. t[k] = b.tx[k]
        BY <1>7, <2>1
      <3> QED
        BY <1>11, <3>1, <3>2
    <2> QED
      BY <2>1
  <1>16. w = 1 => u[m + 1] = x
    <2>1. SUFFICES ASSUME w = 1 PROVE u[m + 1] = x
      OBVIOUS
    <2>2. m + 1 \in 1 .. d + n /\ m + 1 <= d
      BY <1>5, <2>1
    <2>3. t[m + 1] = x
      BY <1>7, <2>1
    <2> QED
      BY <1>11, <2>2, <2>3
  <1>17. \A k \in m + w + 1 .. m + w + n : u[k] = r
    <2>1. ASSUME NEW k \in m + w + 1 .. m + w + n PROVE u[k] = r
      <3>1. k \in 1 .. d + n /\ ~(k <= d) /\ k - d \in 1 .. n
        BY <1>5, <2>1
      <3> QED
        BY <1>9, <1>11, <3>1
    <2> QED
      BY <2>1
  <1>18. HdIssuedAs(g, b, a, w, n)
    BY <1>11, <1>12, <1>15, <1>16, <1>17 DEF HdIssuedAs, m
  <1> QED
    BY <1>13, <1>18

(* A command is dropped on an abort, refused, or served.                   *)
HdServed(c, b, present) ==
    /\ c \in HdBuses
    /\ \/ /\ "abort" \in b.raw /\ c.tx = <<>> /\ c.rx = b.rx /\ c.next = b.next /\ c.raw = b.raw
       \/ /\ "abort" \notin b.raw /\ Head(b.tx).to \notin present /\ "abort" \in c.raw
          /\ c.tx = <<>> /\ c.rx = b.rx /\ c.next = b.next
       \/ /\ "abort" \notin b.raw /\ Head(b.tx).to \in present /\ "abort" \notin c.raw
          /\ c.tx = Tail(b.tx)
          /\ \/ /\ Head(b.tx).do = "write" /\ c.rx = b.rx
                /\ c.next = [b.next EXCEPT ![Head(b.tx).to] = 1]
             \/ /\ Head(b.tx).do = "read"
                /\ c.rx = Append(b.rx, <<Head(b.tx).to, b.next[Head(b.tx).to]>>)
                /\ c.next = [b.next EXCEPT ![Head(b.tx).to] = b.next[Head(b.tx).to] + 1]

LEMMA HdServeBus ==
    ASSUME NEW b \in HdBuses, b.tx # <<>>, NEW present
    PROVE  HdServed(DwServe(b, present), b, present)
  <1> DEFINE head == Head(b.tx)
             raw == IF Len(b.tx) = 1 THEN b.raw \cup {"stop"} ELSE b.raw
             rest == [b EXCEPT !.tx = Tail(b.tx), !.raw = raw]
  <1>1. /\ b.tx \in Seq(HdCommands) /\ b.rx \in Seq(HdAddresses \X Nat)
        /\ b.next \in [HdAddresses -> Nat] /\ b.raw \subseteq {"stop", "abort"}
    BY DEF HdBuses
  <1>2. head \in HdCommands /\ Tail(b.tx) \in Seq(HdCommands) /\ <<>> \in Seq(HdCommands)
    BY <1>1
  <1>3. /\ head.to \in HdAddresses /\ head.do \in {"write", "read"}
        /\ head.do = "write" => head.reg = 1
    BY <1>2, HdCommandsAre
  <1>4. /\ rest \in HdBuses /\ rest.rx = b.rx /\ rest.next = b.next /\ rest.tx = Tail(b.tx)
        /\ rest.raw = raw
        /\ "abort" \notin b.raw => "abort" \notin raw
    BY <1>1, <1>2 DEF HdBuses
  <1>5. CASE "abort" \in b.raw
    <2> DEFINE c == [b EXCEPT !.tx = <<>>]
    <2>1. DwServe(b, present) = c
      BY <1>5 DEF DwServe
    <2>2. c \in HdBuses /\ c.tx = <<>> /\ c.rx = b.rx /\ c.next = b.next /\ c.raw = b.raw
      BY <1>2 DEF HdBuses
    <2> HIDE DEF c
    <2> QED
      BY <2>1, <2>2, <1>5 DEF HdServed
  <1>6. CASE "abort" \notin b.raw /\ head.to \notin present
    <2> DEFINE c == [b EXCEPT !.tx = <<>>, !.raw = b.raw \cup {"abort"}]
    <2>1. DwServe(b, present) = c
      BY <1>6 DEF DwServe
    <2>2. /\ c \in HdBuses /\ c.tx = <<>> /\ c.rx = b.rx /\ c.next = b.next
          /\ "abort" \in c.raw
      BY <1>1, <1>2 DEF HdBuses
    <2> HIDE DEF c
    <2> QED
      BY <2>1, <2>2, <1>6 DEF HdServed
  <1>7. CASE "abort" \notin b.raw /\ head.to \in present
    <2>1. DwServe(b, present) =
             CASE head.do = "write" -> [rest EXCEPT !.next[head.to] = head.reg]
               [] head.do = "read" -> [rest EXCEPT !.rx = Append(@, <<head.to, b.next[head.to]>>),
                                                   !.next[head.to] = @ + 1]
               [] head.do = "data" -> rest
               [] head.do = "stop" -> [rest EXCEPT !.raw = @ \cup {"stop"}]
      BY <1>3, <1>7 DEF DwServe
    <2> HIDE DEF rest, raw, head
    <2>2. CASE head.do = "write"
      <3> DEFINE n == [b.next EXCEPT ![head.to] = 1]
                 c == [rest EXCEPT !.next = n]
      <3>1. DwServe(b, present) = c
        BY <2>1, <2>2, <1>3, <1>4
      <3>2. n \in [HdAddresses -> Nat]
        BY <1>1, <1>3
      <3> HIDE DEF n
      <3>3. /\ c \in HdBuses /\ c.tx = Tail(b.tx) /\ c.raw = raw /\ c.rx = b.rx /\ c.next = n
        BY <1>4, <3>2 DEF HdBuses
      <3> HIDE DEF c
      <3> QED
        BY <3>1, <3>3, <2>2, <1>4, <1>7 DEF head, n, HdServed
    <2>3. CASE head.do = "read"
      <3> DEFINE r == Append(b.rx, <<head.to, b.next[head.to]>>)
                 n == [b.next EXCEPT ![head.to] = b.next[head.to] + 1]
                 c == [rest EXCEPT !.rx = r, !.next = n]
      <3>1. DwServe(b, present) = c
        BY <2>1, <2>3, <1>3, <1>4
      <3>2. r \in Seq(HdAddresses \X Nat) /\ n \in [HdAddresses -> Nat]
        BY <1>1, <1>3
      <3> HIDE DEF n, r
      <3>3. /\ c \in HdBuses /\ c.tx = Tail(b.tx) /\ c.raw = raw /\ c.rx = r /\ c.next = n
        BY <1>4, <3>2 DEF HdBuses
      <3> HIDE DEF c
      <3> QED
        BY <3>1, <3>3, <2>3, <1>4, <1>7 DEF head, n, r, HdServed
    <2> QED
      BY <2>2, <2>3, <1>3
  <1> QED
    BY <1>5, <1>6, <1>7

(* A byte is taken off the head of the receive FIFO.                       *)
LEMMA HdReadBus ==
    ASSUME NEW b \in HdBuses, b.rx # <<>>, NEW c, c = DwReadRxByte(b).bus
    PROVE  /\ DwReadRxByte(b).byte = Head(b.rx) /\ c \in HdBuses /\ c.rx = Tail(b.rx)
           /\ c.tx = b.tx /\ c.raw = b.raw /\ c.next = b.next
           /\ Head(b.rx) \in HdAddresses \X Nat
  <1>1. b.rx \in Seq(HdAddresses \X Nat)
    BY DEF HdBuses
  <1>2. Tail(b.rx) \in Seq(HdAddresses \X Nat) /\ Head(b.rx) \in HdAddresses \X Nat
    BY <1>1
  <1>3. DwReadRxByte(b) = [byte |-> Head(b.rx), bus |-> [b EXCEPT !.rx = Tail(b.rx)]]
    BY DEF DwReadRxByte
  <1> DEFINE d == [b EXCEPT !.rx = Tail(b.rx)]
  <1>4. d \in HdBuses /\ d.rx = Tail(b.rx) /\ d.tx = b.tx /\ d.raw = b.raw /\ d.next = b.next
    BY <1>2 DEF HdBuses
  <1>5. DwReadRxByte(b).byte = Head(b.rx) /\ DwReadRxByte(b).bus = d
    BY <1>3
  <1> QED
    BY <1>2, <1>4, <1>5

(* An acknowledgement clears the causes.                                   *)
LEMMA HdAckBus ==
    ASSUME NEW b \in HdBuses, NEW c, c = DwAckInterrupts(b)
    PROVE  c \in HdBuses /\ c.tx = b.tx /\ c.rx = b.rx /\ c.raw = {} /\ c.next = b.next
  BY DEF HdBuses, DwAckInterrupts

(* The ACPI backend leaves the FIFOs alone.                                *)
LEMMA HdAcpiBus ==
    ASSUME NEW b \in HdBuses, NEW a \in HdAddresses, NEW present,
           NEW c \in AcpiIssueWriteByte(DwSetTarget7bit(b, a), 1, present)
    PROVE  c \in HdBuses /\ c.tx = b.tx /\ c.rx = b.rx
  <1> DEFINE e == DwSetTarget7bit(b, a)
  <1>1. e \in HdBuses /\ e.tx = b.tx /\ e.rx = b.rx /\ e.tar = a /\ e.next \in [HdAddresses -> Nat]
    BY DEF HdBuses, DwSetTarget7bit
  <1> HIDE DEF e
  <1>2. c = [e EXCEPT !.ok = FALSE] \/ \E x \in {e.tar} \cap present :
           c = [[e EXCEPT !.next[x] = 1] EXCEPT !.ok = TRUE]
    BY DEF AcpiIssueWriteByte, AcpiDone, e
  <1>3. CASE c = [e EXCEPT !.ok = FALSE]
    BY <1>1, <1>3 DEF HdBuses
  <1>4. CASE \E x \in {e.tar} \cap present : c = [[e EXCEPT !.next[x] = 1] EXCEPT !.ok = TRUE]
    <2> DEFINE n == [e.next EXCEPT ![a] = 1]
               d == [e EXCEPT !.next = n]
    <2>1. c = [d EXCEPT !.ok = TRUE]
      BY <1>1, <1>4
    <2>2. n \in [HdAddresses -> Nat]
      BY <1>1
    <2> HIDE DEF n
    <2>3. d \in HdBuses /\ d.tx = b.tx /\ d.rx = b.rx
      BY <1>1, <2>2 DEF HdBuses
    <2> HIDE DEF d
    <2> QED
      BY <2>1, <2>3 DEF HdBuses
  <1> QED
    BY <1>2, <1>3, <1>4

(* Marks are kept by a read that begins, which adds at most the one of the *)
(* touchpad's own.                                                         *)
LEMMA HdStartMarks ==
    ASSUME NEW b \in HdBuses, NEW c, NEW a \in HdAddresses, NEW w \in 0 .. 1, NEW n \in Nat,
           NEW p \in HdAddresses, HdIssuedAs(c, b, a, w, n), HdOne(b, <<>>, p),
           a = p => HdNone(b, <<>>, p)
    PROVE  /\ HdOne(c, <<>>, p)
           /\ a # p /\ HdNone(b, <<>>, p) => HdNone(c, <<>>, p)
  <1> DEFINE m == Len(b.tx)
             t == c.tx
  <1>1. b.tx \in Seq(HdCommands) /\ c.tx \in Seq(HdCommands)
    BY DEF HdBuses, HdIssuedAs
  <1>2. m \in Nat /\ DOMAIN b.tx = 1 .. m /\ DOMAIN t = 1 .. Len(t)
    BY <1>1
  <1>3. /\ Len(t) = m + w + n
        /\ \A k \in 1 .. m : t[k] = b.tx[k]
        /\ w = 1 => t[m + 1].to = a /\ t[m + 1].do = "write"
        /\ \A k \in m + w + 1 .. m + w + n : t[k].do = "read" /\ t[k].to = a
    BY DEF HdIssuedAs
  <1>4. c.rx = b.rx /\ c.next = b.next
    BY DEF HdIssuedAs
  <1> HIDE DEF m, t
  <1>5. DOMAIN t = 1 .. m + w + n
    BY <1>2, <1>3
  <1>6. ASSUME NEW k \in DOMAIN t
        PROVE  \/ k \in DOMAIN b.tx /\ t[k] = b.tx[k]
               \/ w = 1 /\ k = m + 1
               \/ k \in m + w + 1 .. m + w + n /\ k > m /\ t[k].do = "read" /\ t[k].to = a
    <2>1. k \in 1 .. m \/ (w = 1 /\ k = m + 1) \/ (k \in m + w + 1 .. m + w + n /\ k > m)
      BY <1>2, <1>5, <1>6
    <2> QED
      BY <1>2, <1>3, <2>1
  <1>7. DOMAIN b.tx \subseteq DOMAIN t /\ (w = 1 => m + 1 \in DOMAIN t)
        /\ \A k \in DOMAIN b.tx : t[k] = b.tx[k] /\ k < m + 1
    BY <1>2, <1>3, <1>5
  <1>8. a # p \/ w # 1 => HdWritesTo(t, p) = HdWritesTo(b.tx, p)
    BY <1>3, <1>6, <1>7 DEF HdWritesTo
  <1>9. a = p /\ w = 1 => HdWritesTo(t, p) = {m + 1}
    <2>1. SUFFICES ASSUME a = p, w = 1 PROVE HdWritesTo(t, p) = {m + 1}
      OBVIOUS
    <2>2. HdWritesTo(b.tx, p) = {}
      BY <2>1 DEF HdNone
    <2> QED
      BY <1>3, <1>6, <1>7, <2>1, <2>2 DEF HdWritesTo
  <1>10. HdMarksIn(<<>>, p) = {}
    BY DEF HdMarksIn
  <1>12. HdWriteFirst(b, p) /\ (a # p \/ w = 1) => HdWriteFirst(c, p)
    <2>1. SUFFICES ASSUME HdWriteFirst(b, p), a # p \/ w = 1,
                          b.next[p] = 0, NEW k \in DOMAIN t, t[k].do = "read", t[k].to = p
                   PROVE  \E j \in HdWritesTo(t, p) : j < k
      BY <1>4 DEF HdWriteFirst, t
    <2>2. CASE k \in DOMAIN b.tx /\ t[k] = b.tx[k]
      <3>1. PICK j \in HdWritesTo(b.tx, p) : j < k
        BY <2>1, <2>2 DEF HdWriteFirst
      <3>2. j \in HdWritesTo(t, p)
        BY <1>7 DEF HdWritesTo
      <3> QED
        BY <3>1, <3>2
    <2>3. CASE k \in m + w + 1 .. m + w + n /\ t[k].to = a
      <3>1. a = p /\ w = 1
        BY <2>1, <2>3
      <3>2. m + 1 < k
        BY <1>2, <2>3, <3>1
      <3> QED
        BY <1>9, <3>1, <3>2
    <2>4. CASE w = 1 /\ k = m + 1
      BY <1>3, <2>1, <2>4
    <2> QED
      BY <1>6, <2>2, <2>3, <2>4
  <1>11. HdOne(c, <<>>, p)
    <2>1. CASE a # p
      <3>1. HdTokensOnly(b, <<>>, p) => HdTokensOnly(c, <<>>, p)
        BY <1>4, <1>8, <2>1 DEF HdTokensOnly, t
      <3> QED
        BY <1>4, <1>8, <1>12, <2>1, <3>1 DEF HdOne, t
    <2>2. CASE a = p /\ w = 1
      <3>1. HdNone(b, <<>>, p)
        BY <2>2
      <3>2. HdWriteFirst(c, p)
        BY <1>12, <2>2, <3>1 DEF HdNone
      <3> QED
        BY <1>4, <1>9, <1>10, <2>2, <3>1, <3>2 DEF HdOne, HdNone, HdAtMostOne, t
    <2>3. CASE a = p /\ w # 1
      <3>1. HdNone(b, <<>>, p)
        BY <2>3
      <3>2. HdWritesTo(c.tx, p) = {} /\ HdMarksIn(c.rx, p) = {} /\ c.next[p] # 1
        BY <1>4, <1>8, <2>3, <3>1 DEF HdNone, t
      <3>3. HdTokensOnly(c, <<>>, p)
        BY <1>10, <3>2 DEF HdTokensOnly
      <3> QED
        BY <1>10, <3>2, <3>3 DEF HdOne, HdAtMostOne
    <2> QED
      BY <2>1, <2>2, <2>3
  <1>13. a # p /\ HdNone(b, <<>>, p) => HdNone(c, <<>>, p)
    BY <1>4, <1>8, <1>12 DEF HdNone, t
  <1> QED
    BY <1>11, <1>13

(* What is left in the FIFO when its head is gone.                         *)
LEMMA HdTailWrites ==
    ASSUME NEW b \in HdBuses, b.tx # <<>>, NEW t, t = Tail(b.tx), NEW p
    PROVE  /\ DOMAIN t = 1 .. Len(b.tx) - 1 /\ DOMAIN b.tx = 1 .. Len(b.tx)
           /\ Len(b.tx) \in Nat /\ Len(b.tx) >= 1 /\ Len(t) = Len(b.tx) - 1
           /\ \A k \in DOMAIN t : k \in Nat /\ k + 1 \in DOMAIN b.tx /\ t[k] = b.tx[k + 1]
           /\ \A k \in DOMAIN b.tx : k = 1 \/ k - 1 \in DOMAIN t
           /\ \A k \in DOMAIN t : k \in HdWritesTo(t, p) <=> k + 1 \in HdWritesTo(b.tx, p)
           /\ Head(b.tx) = b.tx[1] /\ 1 \in DOMAIN b.tx /\ Head(b.tx) \in HdCommands
  <1>1. b.tx \in Seq(HdCommands)
    BY DEF HdBuses
  <1>2. /\ t \in Seq(HdCommands) /\ Len(t) = Len(b.tx) - 1
        /\ \A k \in 1 .. Len(t) : t[k] = b.tx[k + 1]
        /\ Head(b.tx) = b.tx[1] /\ Head(b.tx) \in HdCommands
    BY <1>1, HeadTailProperties
  <1>3. Len(b.tx) \in Nat /\ Len(b.tx) >= 1 /\ DOMAIN b.tx = 1 .. Len(b.tx)
    BY <1>1, EmptySeq
  <1>4. DOMAIN t = 1 .. Len(b.tx) - 1
    BY <1>2
  <1>5. \A k \in DOMAIN t : k \in Nat /\ k + 1 \in DOMAIN b.tx /\ t[k] = b.tx[k + 1]
    BY <1>2, <1>3, <1>4
  <1>6. /\ \A k \in DOMAIN b.tx : k = 1 \/ k - 1 \in DOMAIN t
        /\ 1 \in DOMAIN b.tx
    BY <1>3, <1>4
  <1>7. \A k \in DOMAIN t : k \in HdWritesTo(t, p) <=> k + 1 \in HdWritesTo(b.tx, p)
    BY <1>5 DEF HdWritesTo
  <1> QED
    BY <1>2, <1>3, <1>4, <1>5, <1>6, <1>7

(* Something is put behind what a FIFO holds.                              *)
LEMMA HdAppendMarks ==
    ASSUME NEW S, NEW s \in Seq(S), NEW x \in S, NEW p
    PROVE  /\ x # <<p, 1>> => HdMarksIn(Append(s, x), p) = HdMarksIn(s, p)
           /\ x = <<p, 1>> => HdMarksIn(Append(s, x), p) = HdMarksIn(s, p) \cup {Len(s) + 1}
  <1> DEFINE t == Append(s, x)
  <1>1. /\ t \in Seq(S) /\ Len(t) = Len(s) + 1 /\ t[Len(s) + 1] = x
        /\ \A k \in 1 .. Len(s) : t[k] = s[k]
    BY AppendProperties
  <1>2. Len(s) \in Nat /\ DOMAIN s = 1 .. Len(s) /\ DOMAIN t = 1 .. Len(s) + 1
    BY <1>1
  <1> HIDE DEF t
  <1>3. \A k \in DOMAIN t : (k \in DOMAIN s /\ t[k] = s[k]) \/ k = Len(s) + 1
    BY <1>1, <1>2
  <1>4. DOMAIN s \subseteq DOMAIN t /\ Len(s) + 1 \in DOMAIN t /\ \A k \in DOMAIN s : t[k] = s[k]
    BY <1>1, <1>2
  <1>5. x # <<p, 1>> => HdMarksIn(t, p) = HdMarksIn(s, p)
    BY <1>1, <1>3, <1>4 DEF HdMarksIn
  <1>6. x = <<p, 1>> => HdMarksIn(t, p) = HdMarksIn(s, p) \cup {Len(s) + 1}
    BY <1>1, <1>3, <1>4 DEF HdMarksIn
  <1> QED
    BY <1>5, <1>6 DEF t

(* Marks are kept when a command is served.                                *)
LEMMA HdServeMarks ==
    ASSUME NEW b \in HdBuses, b.tx # <<>>, NEW present, NEW c, HdServed(c, b, present),
           NEW p \in HdAddresses, NEW got, HdOne(b, got, p)
    PROVE  /\ HdOne(c, got, p)
           /\ HdNone(b, got, p) => HdNone(c, got, p)
  <1> DEFINE head == Head(b.tx)
             t == Tail(b.tx)
  <1>1. CASE c.tx = <<>> /\ c.rx = b.rx /\ c.next = b.next
    <2>1. HdWritesTo(c.tx, p) = {} /\ DOMAIN c.tx = {}
      BY <1>1 DEF HdWritesTo
    <2> QED
      BY <1>1, <2>1 DEF HdOne, HdNone, HdWriteFirst, HdAtMostOne
  <1>2. /\ b.next \in [HdAddresses -> Nat] /\ b.rx \in Seq(HdAddresses \X Nat)
    BY DEF HdBuses
  <1>t. /\ \A k \in DOMAIN t : k \in Nat /\ k + 1 \in DOMAIN b.tx /\ t[k] = b.tx[k + 1]
        /\ \A k \in DOMAIN b.tx : k = 1 \/ k - 1 \in DOMAIN t
        /\ \A k \in DOMAIN t : k \in HdWritesTo(t, p) <=> k + 1 \in HdWritesTo(b.tx, p)
        /\ head = b.tx[1] /\ 1 \in DOMAIN b.tx /\ head \in HdCommands
        /\ DOMAIN b.tx = 1 .. Len(b.tx) /\ Len(b.tx) \in Nat
    BY HdTailWrites
  <1>h. head.to \in HdAddresses /\ head.do \in {"write", "read"}
    BY <1>t, HdCommandsAre
  <1> HIDE DEF head, t
  <1>w. HdWritesTo(t, p) \subseteq DOMAIN t /\ HdWritesTo(b.tx, p) \subseteq DOMAIN b.tx
    BY DEF HdWritesTo
  <1>a. HdAtMostOne(HdWritesTo(t, p))
    <2>1. ASSUME NEW j \in HdWritesTo(t, p), NEW k \in HdWritesTo(t, p) PROVE j = k
      <3>1. j + 1 = k + 1 /\ j \in Nat /\ k \in Nat
        BY <1>t, <1>w, <2>1 DEF HdOne, HdAtMostOne
      <3> QED
        BY <3>1
    <2> QED
      BY <2>1 DEF HdAtMostOne
  <1>b. HdWritesTo(b.tx, p) = {} => HdWritesTo(t, p) = {}
    BY <1>t, <1>w
  <1>f. ASSUME c.tx = t, head.to # p, c.next[p] = b.next[p], HdWriteFirst(b, p)
        PROVE  HdWriteFirst(c, p)
    <2>1. SUFFICES ASSUME b.next[p] = 0, NEW k \in DOMAIN t, t[k].do = "read", t[k].to = p
                   PROVE  \E j \in HdWritesTo(t, p) : j < k
      BY <1>f DEF HdWriteFirst
    <2>2. PICK j \in HdWritesTo(b.tx, p) : j < k + 1
      BY <1>f, <1>t, <2>1 DEF HdWriteFirst
    <2>3. j # 1
      BY <1>f, <1>t DEF HdWritesTo
    <2>4. j - 1 \in DOMAIN t /\ j \in Nat /\ (j - 1) + 1 = j
      BY <1>t, <1>w, <2>2, <2>3
    <2>5. j - 1 \in HdWritesTo(t, p) /\ j - 1 < k
      BY <1>t, <2>2, <2>4
    <2> QED
      BY <2>5
  <1>n. (\A k \in DOMAIN t : k \in Nat) /\ (c.next[p] # 0 => HdWriteFirst(c, p))
    BY <1>t DEF HdWriteFirst
  <1>3. CASE c.tx = t /\ head.do = "write" /\ c.rx = b.rx /\ c.next = [b.next EXCEPT ![head.to] = 1]
    <2>1. CASE head.to = p
      <3>1. 1 \in HdWritesTo(b.tx, p)
        BY <1>t, <1>3, <2>1 DEF HdWritesTo
      <3>2. HdWritesTo(t, p) = {}
        <4>1. ASSUME NEW k \in HdWritesTo(t, p) PROVE FALSE
          <5>1. k + 1 = 1 /\ k \in DOMAIN t
            BY <1>t, <1>w, <3>1 DEF HdOne, HdAtMostOne
          <5>2. k \in Nat /\ k + 1 \in 1 .. Len(b.tx) /\ k >= 1
            BY <1>t, <5>1, HdTailWrites DEF t
          <5> QED
            BY <5>1, <5>2
        <4> QED
          BY <4>1
      <3>3. c.next[p] = 1
        BY <1>2, <1>3, <2>1
      <3>4. HdMarksIn(b.rx, p) = {} /\ HdMarksIn(got, p) = {}
        BY <3>1 DEF HdOne
      <3> QED
        BY <1>3, <3>1, <3>2, <3>3, <3>4 DEF HdOne, HdNone, HdAtMostOne, HdWriteFirst
    <2>2. CASE head.to # p
      <3>1. c.next[p] = b.next[p]
        BY <1>2, <1>3, <2>2
      <3>4. HdWriteFirst(b, p) => HdWriteFirst(c, p)
        BY <1>3, <1>f, <2>2, <3>1
      <3>2. HdOne(c, got, p)
        BY <1>3, <1>a, <1>b, <3>1, <3>4 DEF HdOne, HdTokensOnly
      <3>3. HdNone(b, got, p) => HdNone(c, got, p)
        BY <1>3, <1>b, <3>1, <3>4 DEF HdNone
      <3> QED
        BY <3>2, <3>3
    <2> QED
      BY <2>1, <2>2
  <1>4. CASE /\ c.tx = t /\ head.do = "read"
             /\ c.rx = Append(b.rx, <<head.to, b.next[head.to]>>)
             /\ c.next = [b.next EXCEPT ![head.to] = b.next[head.to] + 1]
    <2> DEFINE item == <<head.to, b.next[head.to]>>
    <2>1. item \in HdAddresses \X Nat
      BY <1>2, <1>h
    <2>2. /\ item # <<p, 1>> => HdMarksIn(c.rx, p) = HdMarksIn(b.rx, p)
          /\ item = <<p, 1>> => HdMarksIn(c.rx, p) = HdMarksIn(b.rx, p) \cup {Len(b.rx) + 1}
      <3> HIDE DEF item
      <3>1. c.rx = Append(b.rx, item)
        BY <1>4 DEF item
      <3>2. /\ item # <<p, 1>> => HdMarksIn(Append(b.rx, item), p) = HdMarksIn(b.rx, p)
            /\ item = <<p, 1>> =>
                 HdMarksIn(Append(b.rx, item), p) = HdMarksIn(b.rx, p) \cup {Len(b.rx) + 1}
        BY <1>2, <2>1, HdAppendMarks
      <3> QED
        BY <3>1, <3>2
    <2>3. ASSUME b.next[p] = 0, HdWriteFirst(b, p) PROVE head.to # p
      <3>1. SUFFICES ASSUME head.to = p PROVE FALSE
        OBVIOUS
      <3>2. PICK j \in HdWritesTo(b.tx, p) : j < 1
        BY <1>t, <1>4, <2>3, <3>1 DEF HdWriteFirst
      <3>3. j \in 1 .. Len(b.tx)
        BY <1>t, <1>w
      <3> QED
        BY <1>t, <3>2, <3>3
    <2>4. CASE head.to = p
      <3>1. c.next[p] = b.next[p] + 1 /\ b.next[p] \in Nat
        BY <1>2, <1>4, <2>4
      <3>2. c.next[p] # 0 /\ (b.next[p] # 0 => c.next[p] # 1)
        BY <3>1
      <3>3. HdWriteFirst(c, p)
        BY <1>n, <3>2
      <3>4. CASE b.next[p] = 1
        <4>1. /\ HdMarksIn(b.rx, p) = {} /\ HdMarksIn(got, p) = {} /\ HdWritesTo(b.tx, p) = {}
              /\ ~HdNone(b, got, p)
          BY <3>4 DEF HdOne, HdNone
        <4>2. HdMarksIn(c.rx, p) = {Len(b.rx) + 1}
          BY <2>2, <2>4, <3>4, <4>1
        <4> QED
          BY <1>4, <1>b, <3>2, <3>3, <3>4, <4>1, <4>2 DEF HdOne, HdAtMostOne
      <3>5. CASE b.next[p] = 0
        <4>1. HdTokensOnly(b, got, p) /\ ~HdNone(b, got, p)
          BY <2>3, <2>4, <3>5 DEF HdOne, HdNone
        <4>2. item # <<p, 1>>
          BY <2>4, <3>5
        <4> HIDE DEF item
        <4>3. HdMarksIn(c.rx, p) = {} /\ HdMarksIn(got, p) = {} /\ HdWritesTo(t, p) = {}
          BY <1>b, <2>2, <4>1, <4>2 DEF HdTokensOnly
        <4>4. HdOne(c, got, p)
          BY <1>4, <3>3, <4>3 DEF HdOne, HdAtMostOne
        <4> QED
          BY <4>1, <4>4
      <3>6. CASE b.next[p] # 1 /\ b.next[p] # 0
        <4>1. item # <<p, 1>>
          BY <2>4, <3>6
        <4> HIDE DEF item
        <4>2. HdMarksIn(c.rx, p) = HdMarksIn(b.rx, p)
          BY <2>2, <4>1
        <4>3. HdOne(c, got, p)
          BY <1>4, <1>a, <1>b, <3>2, <3>3, <3>6, <4>2 DEF HdOne
        <4> QED
          BY <1>4, <1>b, <3>2, <3>3, <3>6, <4>2, <4>3 DEF HdNone
      <3> QED
        BY <3>4, <3>5, <3>6
    <2>5. CASE head.to # p
      <3>1. c.next[p] = b.next[p]
        BY <1>2, <1>4, <2>5
      <3>2. item # <<p, 1>>
        BY <2>5
      <3> HIDE DEF item
      <3>3. HdMarksIn(c.rx, p) = HdMarksIn(b.rx, p)
        BY <2>2, <3>2
      <3>6. HdWriteFirst(b, p) => HdWriteFirst(c, p)
        BY <1>4, <1>f, <2>5, <3>1
      <3>4. HdOne(c, got, p)
        BY <1>4, <1>a, <1>b, <3>1, <3>3, <3>6 DEF HdOne, HdTokensOnly
      <3>5. HdNone(b, got, p) => HdNone(c, got, p)
        BY <1>4, <1>b, <3>1, <3>3, <3>6 DEF HdNone
      <3> QED
        BY <3>4, <3>5
    <2> QED
      BY <2>4, <2>5
  <1> QED
    BY <1>1, <1>3, <1>4 DEF HdServed, head, t

(* Marks are kept when a byte is read.                                     *)
LEMMA HdReadMarks ==
    ASSUME NEW b \in HdBuses, b.rx # <<>>, NEW c, c.tx = b.tx, c.rx = Tail(b.rx), c.next = b.next,
           NEW p, NEW got \in Seq(HdAddresses \X Nat), HdOne(b, got, p)
    PROVE  /\ HdOne(c, Append(got, Head(b.rx)), p)
           /\ HdNone(b, got, p) => HdNone(c, Append(got, Head(b.rx)), p)
  <1> DEFINE item == Head(b.rx)
             new == Append(got, item)
             t == Tail(b.rx)
  <1>1. b.rx \in Seq(HdAddresses \X Nat)
    BY DEF HdBuses
  <1>2. /\ item \in HdAddresses \X Nat /\ item = b.rx[1] /\ t \in Seq(HdAddresses \X Nat)
        /\ Len(t) = Len(b.rx) - 1
        /\ \A k \in 1 .. Len(t) : t[k] = b.rx[k + 1]
    BY <1>1, HeadTailProperties
  <1>3. /\ Len(b.rx) \in Nat /\ Len(b.rx) >= 1 /\ DOMAIN b.rx = 1 .. Len(b.rx)
        /\ DOMAIN t = 1 .. Len(t)
    BY <1>1, <1>2, EmptySeq
  <1>4. /\ item # <<p, 1>> => HdMarksIn(new, p) = HdMarksIn(got, p)
        /\ item = <<p, 1>> => HdMarksIn(new, p) = HdMarksIn(got, p) \cup {Len(got) + 1}
    BY <1>2, HdAppendMarks
  <1> HIDE DEF item, new, t
  <1>5. \A k \in DOMAIN t : k \in Nat /\ k >= 1 /\ k + 1 \in DOMAIN b.rx /\ t[k] = b.rx[k + 1]
    <2>1. ASSUME NEW k \in DOMAIN t
          PROVE  k \in Nat /\ k >= 1 /\ k + 1 \in DOMAIN b.rx /\ t[k] = b.rx[k + 1]
      <3>1. k \in 1 .. Len(t)
        BY <1>3
      <3>2. Len(t) = Len(b.rx) - 1 /\ Len(b.rx) \in Nat
        BY <1>2, <1>3
      <3>3. k \in Nat /\ k >= 1 /\ k + 1 \in 1 .. Len(b.rx)
        BY ONLY <3>1, <3>2
      <3> QED
        BY <1>2, <1>3, <3>1, <3>3
    <2> QED
      BY <2>1
  <1>6. \A k \in HdMarksIn(t, p) : k \in Nat /\ k >= 1 /\ k + 1 \in HdMarksIn(b.rx, p)
    BY <1>5 DEF HdMarksIn
  <1>7. HdAtMostOne(HdMarksIn(t, p))
    <2>1. ASSUME NEW j \in HdMarksIn(t, p), NEW k \in HdMarksIn(t, p) PROVE j = k
      <3>1. j + 1 = k + 1 /\ j \in Nat /\ k \in Nat
        BY <1>6, <2>1 DEF HdOne, HdAtMostOne
      <3> QED
        BY <3>1
    <2> QED
      BY <2>1 DEF HdAtMostOne
  <1>8. HdMarksIn(b.rx, p) = {} => HdMarksIn(t, p) = {}
    BY <1>6
  <1>9. HdWriteFirst(b, p) => HdWriteFirst(c, p)
    BY DEF HdWriteFirst
  <1>10. CASE item = <<p, 1>>
    <2>1. 1 \in HdMarksIn(b.rx, p)
      <3>1. 1 \in 1 .. Len(b.rx)
        BY <1>3
      <3>2. 1 \in DOMAIN b.rx /\ b.rx[1] = <<p, 1>>
        BY <1>2, <1>3, <1>10, <3>1
      <3> QED
        BY <3>2 DEF HdMarksIn
    <2>2. HdMarksIn(t, p) = {}
      <3>1. ASSUME NEW k \in HdMarksIn(t, p) PROVE FALSE
        <4>1. k + 1 = 1 /\ k \in Nat /\ k >= 1
          BY <1>6, <2>1, <3>1 DEF HdOne, HdAtMostOne
        <4> QED
          BY <4>1
      <3> QED
        BY <3>1
    <2>3. /\ HdMarksIn(got, p) = {} /\ b.next[p] # 1 /\ HdWritesTo(b.tx, p) = {}
          /\ HdWriteFirst(b, p)
      BY <2>1 DEF HdOne, HdTokensOnly
    <2>4. HdMarksIn(new, p) = {Len(got) + 1} /\ ~HdNone(b, got, p)
      BY <1>4, <1>10, <2>1, <2>3 DEF HdNone
    <2> QED
      BY <1>9, <2>2, <2>3, <2>4 DEF HdOne, HdAtMostOne, item, new, t
  <1>11. CASE item # <<p, 1>>
    <2>1. HdMarksIn(new, p) = HdMarksIn(got, p)
      BY <1>4, <1>11
    <2>2. HdOne(c, new, p)
      BY <1>7, <1>8, <1>9, <2>1 DEF HdOne, HdTokensOnly, t
    <2>3. HdNone(b, got, p) => HdNone(c, new, p)
      BY <1>8, <1>9, <2>1 DEF HdNone, t
    <2> QED
      BY <2>2, <2>3 DEF new, item
  <1> QED
    BY <1>10, <1>11

(* The least of the addresses that are left is one of them.                *)
LEMMA HdLeastIs ==
    ASSUME NEW S, S \subseteq Nat, S # {}
    PROVE  HdLeast(S) \in S /\ \A y \in S : HdLeast(S) <= y
  <1>1. IsWellFoundedOn(OpToRel(<, Nat), Nat)
    BY NatLessThanWellFounded
  <1>2. PICK x \in S : \A y \in S : ~(<<y, x>> \in OpToRel(<, Nat))
    BY <1>1, WFMin
  <1>3. \A m, n \in Nat : <<m, n>> \in OpToRel(<, Nat) <=> m < n
    BY DEF OpToRel
  <1>4. ASSUME NEW y \in S PROVE x <= y
    <2>1. x \in Nat /\ y \in Nat
      OBVIOUS
    <2>2. ~(<<y, x>> \in OpToRel(<, Nat))
      BY <1>2
    <2>3. <<y, x>> \in OpToRel(<, Nat) <=> y < x
      BY <1>3, <2>1
    <2>4. ~(y < x)
      BY ONLY <2>2, <2>3, Zenon
    <2> QED
      BY ONLY <2>1, <2>4
  <1>5. \E m \in S : \A y \in S : m <= y
    BY <1>4, Zenon
  <1> QED
    BY <1>5 DEF HdLeast

(* The next address is the least that is left, or there is none.           *)
LEMMA HdAdvanceIs ==
    ASSUME NEW b, NEW a \in HdAddresses \cup {0}, HdNextAddress(b, a)
    PROVE  \/ \E x \in HdAfter(a) : (\A y \in HdAfter(a) : x <= y) /\ HdIssue(b, x, "header", 1)
           \/ /\ HdAfter(a) = {} /\ hdLost' = hdLost
              /\ hdAt' = "done" /\ hdAddr' = 0 /\ hdGot' = <<>> /\ hdBus' = b
  <1>1. HdAfter(a) \subseteq Nat
    BY HdAssumption DEF HdAfter
  <1>2. CASE HdAfter(a) = {}
    BY <1>2 DEF HdNextAddress
  <1>3. CASE HdAfter(a) # {}
    <2>1. /\ HdLeast(HdAfter(a)) \in HdAfter(a)
          /\ \A y \in HdAfter(a) : HdLeast(HdAfter(a)) <= y
      BY <1>1, <1>3, HdLeastIs
    <2>2. HdIssue(b, HdLeast(HdAfter(a)), "header", 1)
      BY <1>3 DEF HdNextAddress
    <2> QED
      BY <2>1, <2>2
  <1> QED
    BY <1>2, <1>3

(* What the machine keeps while addresses are read.                        *)
HdKept ==
    /\ hdPad' \in HdAddresses \cup {0} /\ hdBackend' \in {"dw", "acpi"} /\ hdLate' \in BOOLEAN
    /\ hdLost \in BOOLEAN

(* A read begins in the invariant.                                         *)
LEMMA HdIssueKeeps ==
    ASSUME NEW b \in HdBuses, NEW a \in HdAddresses, NEW at \in {"header", "descriptor"},
           HdIssue(b, a, at, 1), HdKept,
           hdBackend' = "acpi" => b.tx = <<>> /\ b.rx = <<>> /\ at = "header",
           hdPad' # 0 /\ hdBackend' = "dw" =>
              /\ HdOne(b, <<>>, hdPad')
              /\ (a <= hdPad' \/ at = "descriptor" => HdNone(b, <<>>, hdPad')),
           hdPad' # 0 /\ hdBackend' = "dw" /\ ~hdLate' /\ ~hdLost =>
              a <= hdPad' /\ b.tx = <<>> /\ b.rx = <<>> /\ b.raw = {}
    PROVE  HdInv'
  <1> DEFINE c == hdBus'
             n == HdLength(at)
             q == hdPad'
  <1>1. n \in Nat /\ n >= 1
    BY HdAssumption DEF HdLength
  <1>2. hdAt' = at /\ hdAddr' = a /\ hdTry' = 1 /\ hdGot' = <<>>
    BY DEF HdIssue
  <1>a. HdReading' /\ hdAt' # "idle" /\ hdAt' # "done"
    BY <1>2 DEF HdReading
  <1>3. CASE hdBackend' = "acpi"
    <2>1. c \in AcpiIssueWriteByte(DwSetTarget7bit(b, a), 1, HdPresent')
      BY <1>3 DEF HdIssue
    <2>2. c \in HdBuses /\ c.tx = b.tx /\ c.rx = b.rx
      BY <2>1, HdAcpiBus
    <2>3. HdTypes'
      BY <1>2, <1>3, <1>a, <2>2 DEF HdIssue, HdTypes, HdKept
    <2> QED
      BY <1>3, <1>a, <2>3 DEF HdInv, HdMarks, HdInTime, HdFoundIsThere
  <1>4. CASE hdBackend' = "dw"
    <2>1. PICK w \in 0 .. 1, t \in 0 .. n :
             c = HdIssued(b, a, w, t) /\ hdLost' = (hdLost \/ w + t # 1 + n)
      BY <1>4 DEF HdIssue, HdIssueDw
    <2>t. t \in Nat
      BY <1>1
    <2>l. hdLost' \in BOOLEAN
      BY <2>1 DEF HdKept
    <2>2. HdIssuedAs(c, b, a, w, t)
      BY <2>1, <2>t, HdIssuedBus
    <2>3. HdTypes'
      BY <1>2, <1>4, <1>a, <2>2, <2>l DEF HdTypes, HdKept, HdIssuedAs
    <2>4. HdMarks'
      <3>1. SUFFICES ASSUME q # 0
                     PROVE  /\ HdOne(c, <<>>, q)
                            /\ a < q => HdNone(c, <<>>, q)
                            /\ at = "descriptor" /\ a > q => HdNone(c, <<>>, q)
        BY <1>2 DEF HdMarks, HdReading
      <3>2. q \in HdAddresses /\ q \in Nat /\ a \in Nat
        BY <3>1, HdAssumption DEF HdKept
      <3>3. /\ HdOne(b, <<>>, q)
            /\ (a <= q \/ at = "descriptor" => HdNone(b, <<>>, q))
        BY <1>4, <3>1
      <3>4. a = q => HdNone(b, <<>>, q)
        BY <3>2, <3>3
      <3> HIDE DEF c, q
      <3>5. /\ HdOne(c, <<>>, q)
            /\ a # q /\ HdNone(b, <<>>, q) => HdNone(c, <<>>, q)
        BY <2>2, <2>t, <3>2, <3>3, <3>4, HdStartMarks
      <3>6. a < q => a <= q /\ a # q
        BY <3>2
      <3>7. a > q => a # q
        BY <3>2
      <3> QED
        BY <3>3, <3>5, <3>6, <3>7
    <2>5. HdInTime'
      <3>1. SUFFICES ASSUME q # 0, ~hdLate', ~hdLost'
                     PROVE  a <= q /\ HdOwn(c, <<>>, a, n, HdPresent')
        BY <1>2, <1>a DEF HdInTime
      <3>a. ~hdLost /\ w + t = 1 + n
        BY <2>1, <3>1
      <3>b. w = 1 /\ t = n
        BY <1>1, <3>a
      <3>2. a <= q /\ b.tx = <<>> /\ b.rx = <<>> /\ b.raw = {}
        BY <1>4, <3>1, <3>a
      <3>3. /\ Len(c.tx) = n + 1 /\ c.rx = <<>> /\ "abort" \notin c.raw /\ c.tx \in Seq(HdCommands)
            /\ c.tx[1] = [to |-> a, do |-> "write", reg |-> 1]
            /\ \A k \in 2 .. n + 1 : c.tx[k] = [to |-> a, do |-> "read", reg |-> 0]
        <4>1. Len(b.tx) = 0
          BY <3>2
        <4>2. /\ Len(c.tx) = 0 + 1 + n /\ c.rx = b.rx /\ c.raw = b.raw /\ c \in HdBuses
              /\ c.tx[0 + 1] = [to |-> a, do |-> "write", reg |-> 1]
              /\ \A k \in 0 + 1 + 1 .. 0 + 1 + n : c.tx[k] = [to |-> a, do |-> "read", reg |-> 0]
          BY <2>2, <3>b, <4>1 DEF HdIssuedAs
        <4>3. 0 + 1 = 1 /\ 0 + 1 + 1 = 2 /\ 0 + 1 + n = n + 1
          BY <1>1
        <4> QED
          BY <3>2, <4>2, <4>3 DEF HdBuses
      <3>4. DOMAIN c.tx = 1 .. n + 1
        BY <3>3
      <3>5. \A k \in DOMAIN c.tx : /\ c.tx[k].to = a
                                   /\ c.tx[k].do = IF k = 1 THEN "write" ELSE "read"
        <4>1. ASSUME NEW k \in DOMAIN c.tx
              PROVE  c.tx[k].to = a /\ c.tx[k].do = IF k = 1 THEN "write" ELSE "read"
          <5>1. k = 1 \/ (k # 1 /\ k \in 2 .. n + 1)
            BY <1>1, <3>4
          <5> QED
            BY <3>3, <5>1
        <4> QED
          BY <4>1
      <3>6. HdUnserved(c, <<>>, n)
        BY <3>3, <3>5 DEF HdUnserved
      <3> QED
        BY <3>2, <3>3, <3>5, <3>6 DEF HdOwn
    <2> QED
      BY <1>a, <2>3, <2>4, <2>5 DEF HdInv, HdFoundIsThere
  <1> QED
    BY <1>3, <1>4 DEF HdKept

(* An address is done with, in the invariant.                              *)
LEMMA HdAdvanceKeeps ==
    ASSUME NEW b \in HdBuses, NEW a \in HdAddresses \cup {0}, HdNextAddress(b, a), HdKept,
           hdBackend' = "acpi" => b.tx = <<>> /\ b.rx = <<>>,
           hdPad' # 0 /\ hdBackend' = "dw" =>
              /\ HdOne(b, <<>>, hdPad')
              /\ (a < hdPad' => HdNone(b, <<>>, hdPad')),
           hdPad' # 0 /\ hdBackend' = "dw" /\ ~hdLate' /\ ~hdLost =>
              a < hdPad' /\ b.tx = <<>> /\ b.rx = <<>> /\ b.raw = {}
    PROVE  HdInv'
  <1> DEFINE q == hdPad'
  <1>1. a \in Nat /\ (q # 0 => q \in Nat /\ q \in HdAddresses)
    BY HdAssumption DEF HdKept
  <1>2. q # 0 /\ a < q => q \in HdAfter(a)
    BY <1>1 DEF HdAfter
  <1>3. CASE \E x \in HdAfter(a) : (\A y \in HdAfter(a) : x <= y) /\ HdIssue(b, x, "header", 1)
    <2>1. PICK x \in HdAfter(a) : (\A y \in HdAfter(a) : x <= y) /\ HdIssue(b, x, "header", 1)
      BY <1>3
    <2>2. x \in HdAddresses /\ x > a /\ x \in Nat
      BY HdAssumption DEF HdAfter
    <2>3. q # 0 /\ x <= q => a < q
      BY <1>1, <2>2
    <2>4. q # 0 /\ a < q => x <= q
      BY <1>2, <2>1
    <2>5. q # 0 /\ hdBackend' = "dw" =>
             /\ HdOne(b, <<>>, q)
             /\ (x <= q \/ "header" = "descriptor" => HdNone(b, <<>>, q))
      BY <2>3
    <2>6. q # 0 /\ hdBackend' = "dw" /\ ~hdLate' /\ ~hdLost =>
             x <= q /\ b.tx = <<>> /\ b.rx = <<>> /\ b.raw = {}
      BY <2>4
    <2> QED
      BY <2>1, <2>2, <2>5, <2>6, HdIssueKeeps
  <1>4. CASE /\ HdAfter(a) = {} /\ hdLost' = hdLost
             /\ hdAt' = "done" /\ hdAddr' = 0 /\ hdGot' = <<>> /\ hdBus' = b
    <2>1. HdTypes'
      BY <1>4 DEF HdTypes, HdKept, HdReading
    <2>2. HdMarks'
      BY <1>4 DEF HdMarks, HdReading
    <2>3. HdInTime'
      BY <1>2, <1>4 DEF HdInTime
    <2> QED
      BY <1>4, <2>1, <2>2, <2>3 DEF HdInv, HdFoundIsThere
  <1> QED
    BY <1>3, <1>4, HdAdvanceIs

(* The present read stays alone in the FIFOs while it is served.           *)
LEMMA HdServeOwn ==
    ASSUME NEW b \in HdBuses, b.tx # <<>>, NEW present, NEW c, HdServed(c, b, present),
           NEW a \in HdAddresses, NEW n \in Nat, NEW got \in Seq(HdAddresses \X Nat),
           HdOwn(b, got, a, n, present)
    PROVE  HdOwn(c, got, a, n, present)
  <1> DEFINE head == Head(b.tx)
             t == Tail(b.tx)
             item == <<head.to, b.next[head.to]>>
  <1>1. /\ DOMAIN t = 1 .. Len(b.tx) - 1 /\ Len(b.tx) \in Nat /\ Len(b.tx) >= 1
        /\ Len(t) = Len(b.tx) - 1
        /\ \A k \in DOMAIN t : k \in Nat /\ k + 1 \in DOMAIN b.tx /\ t[k] = b.tx[k + 1]
        /\ head = b.tx[1] /\ 1 \in DOMAIN b.tx /\ head \in HdCommands
    BY HdTailWrites
  <1>2. head.to = a /\ head.do \in {"write", "read"}
    BY <1>1, HdCommandsAre DEF HdOwn
  <1>3. b.next \in [HdAddresses -> Nat] /\ b.rx \in Seq(HdAddresses \X Nat) /\ Len(b.rx) \in Nat
    BY DEF HdBuses
  <1>g. Len(got) \in Nat
    OBVIOUS
  <1> HIDE DEF head, t
  <1>4. \A k \in DOMAIN t : k \in Nat /\ k # 0 /\ k + 1 # 1
    BY <1>1
  <1>5. \A k \in DOMAIN t : t[k].to = a
    BY <1>1 DEF HdOwn
  <1>6. CASE "abort" \in b.raw
    BY <1>6 DEF HdOwn, HdRefused
  <1>7. CASE "abort" \notin b.raw /\ HdUnserved(b, got, n)
    <2>1. /\ Len(b.tx) = n + 1 /\ b.rx = <<>> /\ got = <<>> /\ head.do = "write"
          /\ \A k \in DOMAIN t : t[k].do = "read"
      BY <1>1, <1>4, <1>7 DEF HdUnserved
    <2>2. CASE a \notin present
      <3>1. "abort" \in c.raw /\ c.tx = <<>> /\ c.rx = <<>>
        BY <1>2, <1>7, <2>1, <2>2 DEF HdServed, head
      <3> QED
        BY <2>1, <2>2, <3>1 DEF HdOwn, HdRefused
    <2>3. CASE a \in present
      <3>1. /\ "abort" \notin c.raw /\ c.tx = t /\ c.rx = <<>>
            /\ c.next = [b.next EXCEPT ![a] = 1]
        BY <1>2, <1>7, <2>1, <2>3 DEF HdServed, head, t
      <3>2. c.next[a] = 1
        BY <1>3, <3>1
      <3>3. Len(c.tx) + Len(c.rx) + Len(got) = n
        <4>1. Len(c.tx) = n /\ Len(c.rx) = 0 /\ Len(got) = 0
          BY <1>1, <2>1, <3>1
        <4> QED
          BY ONLY <4>1, n \in Nat
      <3>4. HdAnswering(c, got, a, n)
        BY <2>1, <3>1, <3>2, <3>3 DEF HdAnswering, HdFirst
      <3> QED
        BY <1>5, <2>3, <3>1, <3>4 DEF HdOwn
    <2> QED
      BY <2>2, <2>3
  <1>8. CASE "abort" \notin b.raw /\ a \in present /\ HdAnswering(b, got, a, n)
    <2>1. /\ head.do = "read" /\ \A k \in DOMAIN t : t[k].do = "read"
          /\ Len(b.tx) + Len(b.rx) + Len(got) = n
      BY <1>1, <1>8 DEF HdAnswering
    <2>2. "abort" \notin c.raw /\ c.tx = t /\ c.rx = Append(b.rx, item)
      BY <1>2, <1>8, <2>1 DEF HdServed, head, t
    <2>3. item \in HdAddresses \X Nat /\ item = <<a, b.next[a]>>
      BY <1>2, <1>3
    <2> HIDE DEF item
    <2>4. /\ Len(c.rx) = Len(b.rx) + 1 /\ c.rx # <<>> /\ c.rx \in Seq(HdAddresses \X Nat)
          /\ c.rx[Len(b.rx) + 1] = item
          /\ \A k \in 1 .. Len(b.rx) : c.rx[k] = b.rx[k]
      <3>1. /\ Len(c.rx) = Len(b.rx) + 1 /\ c.rx \in Seq(HdAddresses \X Nat)
            /\ c.rx[Len(b.rx) + 1] = item
            /\ \A k \in 1 .. Len(b.rx) : c.rx[k] = b.rx[k]
        BY <1>3, <2>2, <2>3, AppendProperties
      <3>2. Len(c.rx) # 0
        BY <1>3, <3>1
      <3> QED
        BY <3>1, <3>2
    <2>5. Len(c.tx) + Len(c.rx) + Len(got) = n
      <3> DEFINE p == Len(b.tx)
                 q == Len(b.rx)
                 r == Len(got)
      <3>1. /\ p \in Nat /\ q \in Nat /\ r \in Nat /\ p + q + r = n
            /\ Len(c.tx) = p - 1 /\ Len(c.rx) = q + 1
        BY <1>1, <1>3, <1>g, <2>1, <2>2, <2>4
      <3> HIDE DEF p, q, r
      <3>2. (p - 1) + (q + 1) + r = n
        BY ONLY <3>1
      <3> QED
        BY <3>1, <3>2 DEF r
    <2>6. HdFirst(c, got, a)
      <3>1. CASE got # <<>>
        BY <1>8, <3>1 DEF HdAnswering, HdFirst
      <3>2. CASE got = <<>> /\ b.rx # <<>>
        <4>1. b.rx[1] = <<a, 1>>
          BY <1>8, <3>2 DEF HdAnswering, HdFirst
        <4>2. 1 \in 1 .. Len(b.rx)
          BY <1>3, <3>2, EmptySeq
        <4> QED
          BY <2>4, <3>2, <4>1, <4>2 DEF HdFirst
      <3>3. CASE got = <<>> /\ b.rx = <<>>
        <4>1. b.next[a] = 1
          BY <1>8, <3>3 DEF HdAnswering, HdFirst
        <4>2. Len(b.rx) + 1 = 1
          BY <3>3
        <4> QED
          BY <2>3, <2>4, <3>3, <4>1, <4>2 DEF HdFirst
      <3> QED
        BY <3>1, <3>2, <3>3
    <2>7. HdAnswering(c, got, a, n)
      BY <2>1, <2>2, <2>5, <2>6 DEF HdAnswering
    <2> QED
      BY <1>5, <1>8, <2>2, <2>7 DEF HdOwn
  <1> QED
    BY <1>6, <1>7, <1>8 DEF HdOwn

(* And when one of its bytes is read.                                      *)
LEMMA HdReadOwn ==
    ASSUME NEW b \in HdBuses, b.rx # <<>>,
           NEW c, c.tx = b.tx, c.rx = Tail(b.rx), c.next = b.next, c.raw = b.raw,
           NEW a, NEW n \in Nat, NEW present, NEW got \in Seq(HdAddresses \X Nat),
           HdOwn(b, got, a, n, present)
    PROVE  HdOwn(c, Append(got, Head(b.rx)), a, n, present)
  <1> DEFINE item == Head(b.rx)
             new == Append(got, item)
  <1>1. /\ "abort" \notin b.raw /\ a \in present /\ HdAnswering(b, got, a, n)
        /\ \A k \in DOMAIN b.tx : b.tx[k].to = a
    BY DEF HdOwn, HdRefused, HdUnserved
  <1>2. b.rx \in Seq(HdAddresses \X Nat) /\ b.tx \in Seq(HdCommands)
    BY DEF HdBuses
  <1>3. /\ item \in HdAddresses \X Nat /\ item = b.rx[1] /\ Len(c.rx) = Len(b.rx) - 1
    BY <1>2, HeadTailProperties
  <1> HIDE DEF item
  <1>4. /\ Len(new) = Len(got) + 1 /\ new[Len(got) + 1] = item
        /\ new \in Seq(HdAddresses \X Nat)
        /\ \A k \in 1 .. Len(got) : new[k] = got[k]
    BY <1>3, AppendProperties
  <1> HIDE DEF new
  <1>5. Len(got) \in Nat /\ Len(b.rx) \in Nat /\ Len(b.tx) \in Nat
    BY <1>2
  <1>6. new # <<>>
    <2>1. Len(new) # 0
      BY <1>4, <1>5
    <2> QED
      BY <1>4, <2>1
  <1>7. new[1] = <<a, 1>>
    <2>1. CASE got # <<>>
      <3>1. got[1] = <<a, 1>>
        BY <1>1, <2>1 DEF HdAnswering, HdFirst
      <3>2. 1 \in 1 .. Len(got)
        BY <1>5, <2>1, EmptySeq
      <3> QED
        BY <1>4, <3>1, <3>2
    <2>2. CASE got = <<>>
      <3>1. b.rx[1] = <<a, 1>>
        BY <1>1, <2>2 DEF HdAnswering, HdFirst
      <3>2. Len(got) + 1 = 1
        BY <2>2
      <3> QED
        BY <1>3, <1>4, <3>1, <3>2
    <2> QED
      BY <2>1, <2>2
  <1>8. Len(c.tx) + Len(c.rx) + Len(new) = n
    <2> DEFINE p == Len(b.tx)
               q == Len(b.rx)
               r == Len(got)
    <2>1. /\ p \in Nat /\ q \in Nat /\ r \in Nat /\ p + q + r = n
          /\ Len(c.tx) = p /\ Len(c.rx) = q - 1 /\ Len(new) = r + 1
      BY <1>1, <1>3, <1>4, <1>5 DEF HdAnswering
    <2> HIDE DEF p, q, r
    <2>2. p + (q - 1) + (r + 1) = n
      BY ONLY <2>1
    <2> QED
      BY <2>1, <2>2
  <1>9. HdAnswering(c, new, a, n)
    BY <1>1, <1>6, <1>7, <1>8 DEF HdAnswering, HdFirst
  <1> QED
    BY <1>1, <1>9 DEF HdOwn, new, item

(* A read that has all its bytes leaves nothing behind; one that gives up  *)
(* with nothing unserved was refused.                                      *)
LEMMA HdOwnEnds ==
    ASSUME NEW b \in HdBuses, NEW a, NEW n \in Nat, n >= 1, NEW present,
           NEW got \in Seq(HdAddresses \X Nat), HdOwn(b, got, a, n, present)
    PROVE  /\ Len(got) = n => b.tx = <<>> /\ b.rx = <<>> /\ got[1] = <<a, 1>>
           /\ Len(got) < n /\ b.tx = <<>> /\ b.rx = <<>> => a \notin present
  <1>1. /\ b.rx \in Seq(HdAddresses \X Nat) /\ b.tx \in Seq(HdCommands)
        /\ Len(b.rx) \in Nat /\ Len(b.tx) \in Nat /\ Len(got) \in Nat
    BY DEF HdBuses
  <1>2. Len(got) = n => got # <<>>
    OBVIOUS
  <1>3. CASE HdRefused(b, got) /\ a \notin present
    BY <1>2, <1>3 DEF HdRefused
  <1>4. CASE HdUnserved(b, got, n)
    <2>1. got = <<>> /\ Len(b.tx) = n + 1 /\ n + 1 # 0
      BY <1>4 DEF HdUnserved
    <2>2. b.tx # <<>>
      BY <2>1
    <2> QED
      BY <1>2, <2>1, <2>2
  <1>5. CASE HdAnswering(b, got, a, n)
    <2>1. HdFirst(b, got, a)
      BY <1>5 DEF HdAnswering
    <2>2. ASSUME Len(got) = n PROVE b.tx = <<>> /\ b.rx = <<>> /\ got[1] = <<a, 1>>
      <3> DEFINE p == Len(b.tx)
                 q == Len(b.rx)
      <3>1. p \in Nat /\ q \in Nat /\ p + q + n = n
        BY <1>1, <1>5, <2>2 DEF HdAnswering
      <3> HIDE DEF p, q
      <3>2. p = 0 /\ q = 0
        BY ONLY <3>1, n \in Nat
      <3>3. b.tx = <<>> /\ b.rx = <<>>
        BY <1>1, <3>2, EmptySeq DEF p, q
      <3> QED
        BY <1>2, <2>1, <2>2, <3>3 DEF HdFirst
    <2>3. ASSUME Len(got) < n, b.tx = <<>>, b.rx = <<>> PROVE FALSE
      <3>1. Len(b.tx) = 0 /\ Len(b.rx) = 0
        BY <2>3
      <3>2. 0 + 0 + Len(got) = n
        BY <1>5, <3>1 DEF HdAnswering
      <3> QED
        BY <1>1, <2>3, <3>2
    <2> QED
      BY <2>2, <2>3
  <1> QED
    BY <1>3, <1>4, <1>5 DEF HdOwn

(* A finished read, or one that gave up, takes its bytes with it.          *)
LEMMA HdOneLeft ==
    ASSUME NEW b, NEW c, NEW p, NEW got, c.tx = b.tx, c.rx = b.rx, c.next = b.next
    PROVE  /\ HdOne(b, got, p) => HdOne(c, got, p) /\ HdOne(c, <<>>, p)
           /\ HdNone(b, got, p) => HdNone(c, got, p) /\ HdNone(c, <<>>, p)
  <1>1. HdMarksIn(<<>>, p) = {}
    BY DEF HdMarksIn
  <1> QED
    BY <1>1 DEF HdOne, HdNone, HdTokensOnly, HdWriteFirst, HdAtMostOne

(* Before detection no bus has been used.                                  *)
LEMMA HdBeginKeeps == HdInv /\ HdBegin => HdInv'
  <1>1. SUFFICES ASSUME HdInv, HdBegin PROVE HdInv'
    OBVIOUS
  <1> DEFINE b == HalIdle(HdAddresses)
             q == hdPad'
  <1>2. hdBus = b /\ hdLate \in BOOLEAN /\ hdLost \in BOOLEAN /\ hdLate' = hdLate
    BY <1>1 DEF HdInv, HdTypes, HdBegin
  <1>3. HdKept /\ HdNextAddress(b, 0)
    <2>1. /\ hdPad' \in HdAddresses \cup {0} /\ hdBackend' \in {"dw", "acpi"}
          /\ HdNextAddress(hdBus, 0)
      BY <1>1 DEF HdBegin
    <2> QED
      BY <1>2, <2>1 DEF HdKept
  <1>4. /\ b \in HdBuses /\ b.tx = <<>> /\ b.rx = <<>> /\ b.raw = {}
        /\ \A a \in HdAddresses : b.next[a] = 0
    BY <1>1, <1>2 DEF HalIdle, HdInv, HdTypes
  <1> HIDE DEF b
  <1>5. q # 0 => q \in HdAddresses /\ 0 < q
    BY <1>3, HdAssumption DEF HdKept
  <1>6. q # 0 => HdOne(b, <<>>, q) /\ HdNone(b, <<>>, q)
    BY <1>4, <1>5
       DEF HdOne, HdNone, HdTokensOnly, HdWriteFirst, HdWritesTo, HdMarksIn, HdAtMostOne
  <1> QED
    BY <1>3, <1>4, <1>5, <1>6, HdAdvanceKeeps

(* The controller serves a command while reads go on, or after them.       *)
LEMMA HdServeKeeps == HdInv /\ HdServe => HdInv'
  <1>1. SUFFICES ASSUME HdInv, HdServe PROVE HdInv'
    OBVIOUS
  <1> DEFINE b == hdBus
             c == hdBus'
  <1>2. /\ b.tx # <<>> /\ c = DwServe(b, HdPresent) /\ hdPad' = hdPad /\ hdOthers' = hdOthers
        /\ hdBackend' = hdBackend /\ hdAt' = hdAt /\ hdAddr' = hdAddr /\ hdTry' = hdTry
        /\ hdGot' = hdGot /\ hdLate' = hdLate /\ hdLost' = hdLost
    BY <1>1 DEF HdServe, hdMachine
  <1>3. HdTypes
    BY <1>1 DEF HdInv
  <1>4. b \in HdBuses /\ HdServed(c, b, HdPresent)
    BY <1>2, <1>3, HdServeBus DEF HdTypes
  <1>5. c \in HdBuses
    BY <1>4 DEF HdServed
  <1>6. hdAt # "idle" /\ hdBackend = "dw"
    BY <1>2, <1>3 DEF HdTypes, HalIdle
  <1>7. HdTypes'
    BY <1>2, <1>3, <1>5, <1>6 DEF HdTypes, HdReading
  <1>8. HdReading' = HdReading /\ HdPresent' = HdPresent
    BY <1>2 DEF HdReading, HdPresent
  <1>9. HdMarks'
    <2>1. SUFFICES ASSUME hdPad # 0
                   PROVE  /\ HdOne(c, hdGot, hdPad)
                          /\ HdReading /\ hdAddr < hdPad => HdNone(c, hdGot, hdPad)
                          /\ hdAt = "descriptor" /\ hdAddr > hdPad => HdNone(c, hdGot, hdPad)
      BY <1>2, <1>8 DEF HdMarks
    <2>2. /\ HdOne(b, hdGot, hdPad)
          /\ HdReading /\ hdAddr < hdPad => HdNone(b, hdGot, hdPad)
          /\ hdAt = "descriptor" /\ hdAddr > hdPad => HdNone(b, hdGot, hdPad)
      BY <1>1, <1>6, <2>1 DEF HdInv, HdMarks
    <2>3. hdPad \in HdAddresses
      BY <1>3, <2>1 DEF HdTypes
    <2> HIDE DEF c
    <2>4. /\ HdOne(c, hdGot, hdPad)
          /\ HdNone(b, hdGot, hdPad) => HdNone(c, hdGot, hdPad)
      BY <1>2, <1>4, <2>2, <2>3, HdServeMarks
    <2> QED
      BY <2>2, <2>4
  <1>10. HdInTime'
    <2>1. SUFFICES ASSUME hdPad # 0, ~hdLate, ~hdLost
                   PROVE  /\ HdReading => hdAddr <= hdPad /\
                                          HdOwn(c, hdGot, hdAddr, HdLength(hdAt), HdPresent)
                          /\ hdAt = "done" => hdAddr = hdPad
      BY <1>2, <1>8 DEF HdInTime
    <2>2. /\ HdReading => hdAddr <= hdPad /\
                          HdOwn(b, hdGot, hdAddr, HdLength(hdAt), HdPresent)
          /\ hdAt = "done" => hdAddr = hdPad
      BY <1>1, <1>6, <2>1 DEF HdInv, HdInTime
    <2>3. HdReading => /\ hdAddr \in HdAddresses /\ hdGot \in Seq(HdAddresses \X Nat)
                       /\ HdLength(hdAt) \in Nat
      BY <1>3, HdAssumption DEF HdTypes, HdLength
    <2> HIDE DEF c
    <2>4. HdReading => HdOwn(c, hdGot, hdAddr, HdLength(hdAt), HdPresent)
      BY <1>2, <1>4, <2>2, <2>3, HdServeOwn
    <2> QED
      BY <2>2, <2>4
  <1>11. HdFoundIsThere'
    BY <1>1, <1>2 DEF HdInv, HdFoundIsThere
  <1> QED
    BY <1>7, <1>9, <1>10, <1>11 DEF HdInv

(* A byte that has come is the read's next one.                            *)
LEMMA HdReadByteKeeps == HdInv /\ HdReadByte => HdInv'
  <1>1. SUFFICES ASSUME HdInv, HdReadByte PROVE HdInv'
    OBVIOUS
  <1> DEFINE b == hdBus
             c == hdBus'
             new == Append(hdGot, Head(b.rx))
  <1>3. HdTypes
    BY <1>1 DEF HdInv
  <1>2. /\ HdReading /\ HdGetStatus.rxNotEmpty
        /\ c = DwReadRxByte(b).bus /\ hdGot' = Append(hdGot, DwReadRxByte(b).byte)
        /\ hdPad' = hdPad /\ hdOthers' = hdOthers
        /\ hdBackend' = hdBackend /\ hdAt' = hdAt /\ hdAddr' = hdAddr /\ hdTry' = hdTry
        /\ hdLate' = hdLate /\ hdLost' = hdLost
    BY <1>1 DEF HdReadByte, hdMachine
  <1>4. hdBackend = "dw" /\ b.rx # <<>> /\ hdBackend # "acpi"
    BY <1>2, <1>3 DEF HdTypes, HdGetStatus, DwGetStatus, AcpiGetStatus
  <1>5. b \in HdBuses /\ hdGot \in Seq(HdAddresses \X Nat)
    BY <1>3 DEF HdTypes
  <1>6. /\ hdGot' = new /\ c \in HdBuses /\ c.rx = Tail(b.rx)
        /\ c.tx = b.tx /\ c.raw = b.raw /\ c.next = b.next
        /\ Head(b.rx) \in HdAddresses \X Nat
    BY <1>2, <1>4, <1>5, HdReadBus
  <1>7. new \in Seq(HdAddresses \X Nat)
    BY <1>5, <1>6, AppendProperties
  <1>8. /\ HdReading' = HdReading /\ HdPresent' = HdPresent /\ hdAt # "idle" /\ hdAt # "done"
    BY <1>2 DEF HdReading, HdPresent
  <1> HIDE DEF new
  <1>9. HdTypes'
    BY <1>2, <1>3, <1>4, <1>6, <1>7, <1>8 DEF HdTypes
  <1>10. HdMarks'
    <2>1. SUFFICES ASSUME hdPad # 0
                   PROVE  /\ HdOne(c, new, hdPad)
                          /\ HdReading /\ hdAddr < hdPad => HdNone(c, new, hdPad)
                          /\ hdAt = "descriptor" /\ hdAddr > hdPad => HdNone(c, new, hdPad)
      BY <1>2, <1>6, <1>8 DEF HdMarks
    <2>2. /\ HdOne(b, hdGot, hdPad)
          /\ HdReading /\ hdAddr < hdPad => HdNone(b, hdGot, hdPad)
          /\ hdAt = "descriptor" /\ hdAddr > hdPad => HdNone(b, hdGot, hdPad)
      BY <1>1, <1>4, <2>1 DEF HdInv, HdMarks
    <2> HIDE DEF c
    <2>3. /\ HdOne(c, new, hdPad)
          /\ HdNone(b, hdGot, hdPad) => HdNone(c, new, hdPad)
      BY <1>4, <1>5, <1>6, <2>2, HdReadMarks DEF new
    <2> QED
      BY <2>2, <2>3
  <1>11. HdInTime'
    <2>1. SUFFICES ASSUME hdPad # 0, ~hdLate, ~hdLost
                   PROVE  hdAddr <= hdPad /\ HdOwn(c, new, hdAddr, HdLength(hdAt), HdPresent)
      BY <1>2, <1>6, <1>8 DEF HdInTime
    <2>2. hdAddr <= hdPad /\ HdOwn(b, hdGot, hdAddr, HdLength(hdAt), HdPresent)
      BY <1>1, <1>2, <1>4, <2>1 DEF HdInv, HdInTime
    <2>3. HdLength(hdAt) \in Nat
      BY HdAssumption DEF HdLength
    <2> HIDE DEF c
    <2>4. HdOwn(c, new, hdAddr, HdLength(hdAt), HdPresent)
      BY <1>4, <1>5, <1>6, <2>2, <2>3, HdReadOwn DEF new
    <2> QED
      BY <2>2, <2>4
  <1>12. HdFoundIsThere'
    BY <1>2, <1>8 DEF HdFoundIsThere
  <1> QED
    BY <1>9, <1>10, <1>11, <1>12 DEF HdInv

(* A read that gives up leaves its commands, and is late if there are any. *)
LEMMA HdTimeoutKeeps == HdInv /\ HdTimeout => HdInv'
  <1>1. SUFFICES ASSUME HdInv, HdTimeout PROVE HdInv'
    OBVIOUS
  <1> DEFINE b == hdBus
             c == HdTimedOut(b)
             n == HdLength(hdAt)
  <1>2. HdTypes
    BY <1>1 DEF HdInv
  <1>3. /\ HdReading /\ Len(hdGot) < n /\ ~HdGetStatus.rxNotEmpty
        /\ hdLate' = (hdLate \/ b.tx # <<>>)
        /\ hdPad' = hdPad /\ hdOthers' = hdOthers /\ hdBackend' = hdBackend
    BY <1>1 DEF HdTimeout, hdMachine
  <1>4. hdAddr \in HdAddresses /\ hdTry = 1 /\ ~(hdTry < HdTries)
    BY <1>2, <1>3 DEF HdTypes, HdTries
  <1>5. HdNextAddress(c, hdAddr)
    BY <1>1, <1>4 DEF HdTimeout
  <1>6. b \in HdBuses /\ hdGot \in Seq(HdAddresses \X Nat)
    BY <1>2 DEF HdTypes
  <1>7. c \in HdBuses /\ c.tx = b.tx /\ c.rx = b.rx /\ c.raw = {} /\ c.next = b.next
    BY <1>6, HdAckBus DEF HdTimedOut
  <1>8. HdKept
    BY <1>2, <1>3 DEF HdKept, HdTypes
  <1>9. n \in Nat /\ n >= 1
    BY HdAssumption DEF HdLength
  <1> HIDE DEF c, n
  <1>10. hdBackend' = "acpi" => c.tx = <<>> /\ c.rx = <<>>
    BY <1>2, <1>3, <1>7 DEF HdTypes
  <1>11. ASSUME hdPad' # 0, hdBackend' = "dw"
         PROVE  /\ HdOne(c, <<>>, hdPad')
                /\ hdAddr < hdPad' => HdNone(c, <<>>, hdPad')
    <2>1. /\ HdOne(b, hdGot, hdPad)
          /\ hdAddr < hdPad => HdNone(b, hdGot, hdPad)
      BY <1>1, <1>3, <1>11 DEF HdInv, HdMarks
    <2> QED
      BY <1>3, <1>7, <2>1, HdOneLeft
  <1>12. ASSUME hdPad' # 0, hdBackend' = "dw", ~hdLate', ~hdLost
         PROVE  hdAddr < hdPad' /\ c.tx = <<>> /\ c.rx = <<>> /\ c.raw = {}
    <2>1. ~hdLate /\ ~hdLost /\ b.tx = <<>>
      BY <1>3, <1>12
    <2>2. b.rx = <<>>
      BY <1>3, <1>12 DEF HdGetStatus, DwGetStatus
    <2>3. hdAddr <= hdPad /\ HdOwn(b, hdGot, hdAddr, n, HdPresent)
      BY <1>1, <1>3, <1>12, <2>1 DEF HdInv, HdInTime, n
    <2>4. hdAddr \notin HdPresent
      BY <1>3, <1>6, <1>9, <2>1, <2>2, <2>3, HdOwnEnds
    <2>5. hdAddr # hdPad /\ hdAddr \in Nat /\ hdPad \in Nat
      BY <1>2, <1>3, <1>4, <1>12, <2>4, HdAssumption DEF HdPresent, HdTypes
    <2> QED
      BY <1>3, <1>7, <2>1, <2>2, <2>3, <2>5
  <1> QED
    BY <1>4, <1>5, <1>7, <1>8, <1>10, <1>11, <1>12, HdAdvanceKeeps

(* A read that has all its bytes: the first tells whose descriptor it is.  *)
LEMMA HdReadDoneKeeps == HdInv /\ HdReadDone => HdInv'
  <1>1. SUFFICES ASSUME HdInv, HdReadDone PROVE HdInv'
    OBVIOUS
  <1> DEFINE b == hdBus
             c == DwAckInterrupts(b)
             n == HdLength(hdAt)
  <1>2. HdTypes
    BY <1>1 DEF HdInv
  <1>3. /\ HdReading /\ Len(hdGot) = n
        /\ hdLate' = hdLate /\ hdPad' = hdPad /\ hdOthers' = hdOthers /\ hdBackend' = hdBackend
    BY <1>1 DEF HdReadDone, hdMachine
  <1>4. /\ hdAddr \in HdAddresses /\ hdPad \in HdAddresses \cup {0} /\ hdAddr \in Nat
        /\ hdAt \in {"header", "descriptor"} /\ hdLate \in BOOLEAN /\ hdLost \in BOOLEAN
        /\ b \in HdBuses /\ hdGot \in Seq(HdAddresses \X Nat)
    BY <1>2, <1>3, HdAssumption DEF HdTypes, HdReading
  <1>5. n \in Nat /\ n >= 1
    BY HdAssumption DEF HdLength
  <1>6. hdGot # <<>> /\ hdBackend = "dw" /\ hdBackend # "acpi"
    BY <1>2, <1>3, <1>5 DEF HdTypes
  <1>7. 1 \in DOMAIN hdGot /\ hdGot[1] \in HdAddresses \X Nat
    <2>1. DOMAIN hdGot = 1 .. n
      BY <1>3, <1>4
    <2>2. 1 \in 1 .. n /\ n = Len(hdGot)
      BY <1>3, <1>5
    <2>3. hdGot[1] \in HdAddresses \X Nat
      BY <1>4, <2>2
    <2> QED
      BY <2>1, <2>2, <2>3
  <1>8. c \in HdBuses /\ c.tx = b.tx /\ c.rx = b.rx /\ c.raw = {} /\ c.next = b.next
    BY <1>4, HdAckBus
  <1>9. HdKept
    BY <1>3, <1>4, <1>6 DEF HdKept
  <1>10. /\ ~HdLooksRight => HdNextAddress(c, hdAddr)
         /\ HdLooksRight /\ hdAt = "header" => HdIssue(c, hdAddr, "descriptor", 1)
         /\ HdLooksRight /\ hdAt = "descriptor" =>
               hdAt' = "done" /\ hdBus' = c /\ UNCHANGED <<hdAddr, hdTry, hdGot, hdLost>>
    BY <1>1, <1>4 DEF HdReadDone
  <1> HIDE DEF c, n
  <1>11. ASSUME hdPad # 0
         PROVE  /\ HdOne(b, hdGot, hdPad)
                /\ hdAddr < hdPad => HdNone(b, hdGot, hdPad)
                /\ hdAt = "descriptor" /\ hdAddr > hdPad => HdNone(b, hdGot, hdPad)
    BY <1>1, <1>3, <1>6, <1>11 DEF HdInv, HdMarks
  <1>12. ASSUME hdPad # 0, ~hdLate, ~hdLost
         PROVE  /\ hdAddr <= hdPad /\ b.tx = <<>> /\ b.rx = <<>>
                /\ hdGot[1] = <<hdAddr, 1>>
    <2>1. hdAddr <= hdPad /\ HdOwn(b, hdGot, hdAddr, n, HdPresent)
      BY <1>1, <1>3, <1>6, <1>12 DEF HdInv, HdInTime, n
    <2> QED
      BY <1>3, <1>4, <1>5, <2>1, HdOwnEnds, SMTT(20)
  <1>13. ASSUME HdLooksRight
         PROVE  /\ hdPad # 0 /\ hdPad \in Nat /\ ~HdNone(b, hdGot, hdPad)
                /\ HdNone(c, <<>>, hdPad)
    <2>1. hdGot[1] = <<hdPad, 1>>
      BY <1>13 DEF HdLooksRight
    <2>2. hdPad \in HdAddresses
      BY <1>7, <2>1
    <2>3. hdPad # 0 /\ hdPad \in Nat
      BY <2>2, HdAssumption
    <2>4. 1 \in HdMarksIn(hdGot, hdPad)
      BY <1>7, <2>1 DEF HdMarksIn
    <2>5. HdOne(b, hdGot, hdPad)
      BY <1>11, <2>3
    <2>6. /\ HdWritesTo(b.tx, hdPad) = {} /\ b.next[hdPad] # 1 /\ HdMarksIn(b.rx, hdPad) = {}
          /\ HdWriteFirst(b, hdPad) /\ HdWriteFirst(c, hdPad)
      BY <1>8, <2>4, <2>5 DEF HdOne, HdTokensOnly, HdWriteFirst
    <2>7. HdMarksIn(<<>>, hdPad) = {}
      BY DEF HdMarksIn
    <2> QED
      BY <1>8, <2>3, <2>4, <2>6, <2>7 DEF HdNone
  <1>14. CASE ~HdLooksRight
    <2>1. HdNextAddress(c, hdAddr)
      BY <1>10, <1>14
    <2>2. ASSUME hdPad' # 0
          PROVE  /\ HdOne(c, <<>>, hdPad')
                 /\ hdAddr < hdPad' => HdNone(c, <<>>, hdPad')
      BY <1>3, <1>8, <1>11, <2>2, HdOneLeft
    <2>3. ASSUME hdPad' # 0, ~hdLate', ~hdLost
          PROVE  hdAddr < hdPad' /\ c.tx = <<>> /\ c.rx = <<>> /\ c.raw = {}
      <3>1. hdAddr <= hdPad /\ b.tx = <<>> /\ b.rx = <<>> /\ hdGot[1] = <<hdAddr, 1>>
        BY <1>3, <1>12, <2>3
      <3>2. hdAddr # hdPad /\ hdPad \in Nat
        BY <1>3, <1>4, <1>14, <2>3, <3>1, HdAssumption DEF HdLooksRight
      <3> QED
        BY <1>3, <1>4, <1>8, <3>1, <3>2
    <2> QED
      BY <1>3, <1>4, <1>6, <1>8, <1>9, <2>1, <2>2, <2>3, HdAdvanceKeeps
  <1>15. CASE HdLooksRight /\ hdAt = "header"
    <2>1. HdIssue(c, hdAddr, "descriptor", 1)
      BY <1>10, <1>15
    <2>2. /\ HdOne(c, <<>>, hdPad') /\ HdNone(c, <<>>, hdPad')
      BY <1>3, <1>8, <1>11, <1>13, <1>15, HdOneLeft
    <2>3. ASSUME ~hdLate', ~hdLost
          PROVE  hdAddr <= hdPad' /\ c.tx = <<>> /\ c.rx = <<>> /\ c.raw = {}
      BY <1>3, <1>8, <1>12, <1>13, <1>15, <2>3
    <2> QED
      BY <1>3, <1>4, <1>6, <1>8, <1>9, <2>1, <2>2, <2>3, HdIssueKeeps
  <1>16. CASE HdLooksRight /\ hdAt = "descriptor"
    <2>1. /\ hdAt' = "done" /\ hdBus' = c /\ hdAddr' = hdAddr /\ hdGot' = hdGot /\ hdTry' = hdTry
          /\ hdLost' = hdLost
      BY <1>10, <1>16
    <2>2. hdAddr = hdPad
      <3>1. ~(hdAddr < hdPad) /\ ~(hdAddr > hdPad) /\ hdPad \in Nat
        BY <1>11, <1>13, <1>16
      <3> QED
        BY <1>4, <3>1
    <2>3. HdTypes'
      BY <1>3, <1>4, <1>6, <1>8, <2>1 DEF HdTypes, HdReading
    <2>4. HdMarks'
      <3>1. HdOne(c, hdGot, hdPad)
        BY <1>8, <1>11, <1>13, <1>16, HdOneLeft
      <3> QED
        BY <1>3, <2>1, <3>1 DEF HdMarks, HdReading
    <2>5. HdInTime'
      BY <1>3, <2>1, <2>2 DEF HdInTime, HdReading
    <2>6. HdFoundIsThere'
      BY <1>3, <2>1, <2>2 DEF HdFoundIsThere
    <2> QED
      BY <2>3, <2>4, <2>5, <2>6 DEF HdInv
  <1> QED
    BY <1>4, <1>14, <1>15, <1>16

(* Every step of detection keeps the invariant.                            *)
LEMMA HdNextKeeps == HdInv /\ [HdNext]_hdVars => HdInv'
  <1>1. SUFFICES ASSUME HdInv, [HdNext]_hdVars PROVE HdInv'
    OBVIOUS
  <1>2. CASE HdBegin
    BY <1>1, <1>2, HdBeginKeeps
  <1>3. CASE HdServe
    BY <1>1, <1>3, HdServeKeeps
  <1>4. CASE HdReadByte
    BY <1>1, <1>4, HdReadByteKeeps
  <1>5. CASE HdTimeout
    BY <1>1, <1>5, HdTimeoutKeeps
  <1>6. CASE HdReadDone
    BY <1>1, <1>6, HdReadDoneKeeps
  <1>7. CASE UNCHANGED hdVars
    <2>1. /\ HdTypes' = HdTypes /\ HdFoundIsThere' = HdFoundIsThere
      BY <1>7 DEF hdVars, HdTypes, HdReading, HdFoundIsThere
    <2>2. HdMarks' = HdMarks
      BY <1>7 DEF hdVars, HdMarks, HdReading
    <2>3. HdInTime' = HdInTime
      BY <1>7 DEF hdVars, HdInTime, HdReading, HdPresent
    <2> QED
      BY <1>1, <2>1, <2>2, <2>3 DEF HdInv
  <1> QED
    BY <1>1, <1>2, <1>3, <1>4, <1>5, <1>6, <1>7 DEF HdNext

(* Detection begins in it.                                                 *)
LEMMA HdInitKeeps == HdInit => HdInv
  <1>1. SUFFICES ASSUME HdInit PROVE HdInv
    OBVIOUS
  <1> DEFINE b == HalIdle(HdAddresses)
  <1>2. /\ hdBus = b /\ hdPad = 0 /\ hdBackend = "dw" /\ hdAt = "idle" /\ hdAddr = 0
        /\ hdGot = <<>> /\ hdLate = FALSE /\ hdLost = FALSE
    BY <1>1 DEF HdInit
  <1>3. b \in HdBuses
    <2>1. [a \in HdAddresses |-> 0] \in [HdAddresses -> Nat]
      OBVIOUS
    <2> QED
      BY <2>1 DEF HalIdle, HdBuses
  <1> HIDE DEF b
  <1>4. HdTypes
    <2>1. b = HalIdle(HdAddresses)
      BY DEF b
    <2>2. <<>> \in Seq(HdAddresses \X Nat) /\ FALSE \in BOOLEAN
      OBVIOUS
    <2> QED
      BY <1>2, <1>3, <2>1, <2>2 DEF HdTypes, HdReading
  <1> QED
    BY <1>2, <1>4 DEF HdInv, HdMarks, HdInTime, HdFoundIsThere

(* The invariant says that the pad is found where it is, or missed with    *)
(* an excuse.                                                              *)
LEMMA HdInvFinds == HdInv => HdFindsThePad
  BY DEF HdInv, HdInTime, HdTypes, HdFindsThePad, HdMissedOnlyLate

(* For every set of candidate addresses and every length of a header and a *)
(* descriptor, with any devices on the bus: detection ends at the touchpad *)
(* or at none, whatever answers to reads that gave up arrive during later  *)
(* ones and whatever commands a full FIFO loses, and ends without the one   *)
(* that is there only when a read gave up on unserved commands, a command  *)
(* was lost or the backend never reports a byte.                           *)
THEOREM HdPadAlwaysFound == HdSpec => []HdFindsThePad
  <1>1. HdInit => HdInv
    BY HdInitKeeps
  <1>2. HdInv /\ [HdNext]_hdVars => HdInv'
    BY HdNextKeeps
  <1>3. HdInv => HdFindsThePad
    BY HdInvFinds
  <1> QED
    BY <1>1, <1>2, <1>3, PTL DEF HdSpec
===============================================================================
