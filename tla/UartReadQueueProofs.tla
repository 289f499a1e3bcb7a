------------------------- MODULE UartReadQueueProofs -------------------------
(***************************************************************************)
(* However many reads and processors there are, a read IRP has one owner   *)
(* at a time: what is parked in ReadQueue is live, and every read is       *)
(* handled as IrpContract promises.                                        *)
(***************************************************************************)
EXTENDS UartReadQueue, TLAPS

(* A processor or the PnP thread holds an IRP exactly while it is about to *)
(* complete it, and a DPC that goes on has completions left.               *)
HoldersAtWork ==
    /\ \A c \in Cpu : dpc[c].irp # NoIrp <=> dpc[c].pc = "complete"
    /\ \A c \in Cpu : dpc[c].pc = "reads" => dpc[c].n < CompletionLimit
    /\ pnp.irp # NoIrp <=> pnp.pc \in {"flushing", "purging"}

(* An IRP that somebody took out of ReadQueue has been dispatched, is not  *)
(* completed, and nobody else took it.                                     *)
OneHolder ==
    /\ \A r \in Irp : Held(r) => disp[r] = "returned" /\ done[r] = 0
    /\ \A r \in Irp : cancel[r] = "found" =>
          pnp.irp # r /\ \A c \in Cpu : dpc[c].irp # r
    /\ \A c \in Cpu : dpc[c].irp # NoIrp =>
          pnp.irp # dpc[c].irp /\ \A d \in Cpu \ {c} : dpc[d].irp # dpc[c].irp

(* Completed at most once, and not before the dispatch routine let it go.  *)
OnceDone ==
    \A r \in Irp : done[r] \in {0, 1} /\ (disp[r] # "returned" => done[r] = 0)

IInv == TypeOK /\ QueuedAreLive /\ HoldersAtWork /\ OneHolder /\ OnceDone
-----------------------------------------------------------------------------
(* Taking the head out of ReadQueue leaves the other entries, once each.   *)
LEMMA TailEntries ==
    ASSUME IInv, queue # <<>>
    PROVE  /\ Head(queue) \in Irp /\ Queued(Head(queue))
           /\ Tail(queue) \in Seq(Irp)
           /\ \A i \in DOMAIN Tail(queue) :
                 /\ i + 1 \in DOMAIN queue /\ Tail(queue)[i] = queue[i + 1]
                 /\ Tail(queue)[i] # Head(queue)
           /\ \A i, j \in DOMAIN Tail(queue) : Tail(queue)[i] = Tail(queue)[j] => i = j
  <1>1. queue \in Seq(Irp)
    BY DEF IInv, TypeOK, IrpTypes
  <1>2. Head(queue) = queue[1] /\ 1 \in DOMAIN queue
    BY <1>1
  <1>3. \A i \in DOMAIN Tail(queue) :
           i \in Nat /\ i # 0 /\ i + 1 \in DOMAIN queue /\ Tail(queue)[i] = queue[i + 1]
    BY <1>1
  <1>4. \A i, j \in DOMAIN queue : queue[i] = queue[j] => i = j
    BY DEF IInv, QueuedAreLive
  <1>5. ASSUME NEW i \in DOMAIN Tail(queue) PROVE Tail(queue)[i] # Head(queue)
    BY <1>2, <1>3, <1>4
  <1>6. ASSUME NEW i \in DOMAIN Tail(queue), NEW j \in DOMAIN Tail(queue),
               Tail(queue)[i] = Tail(queue)[j]
        PROVE  i = j
    BY <1>3, <1>4, <1>6
  <1> QED
    BY <1>1, <1>2, <1>3, <1>5, <1>6 DEF Queued

(* So does taking an entry out of its middle.                              *)
LEMMA OtherEntries ==
    ASSUME IInv, NEW k \in DOMAIN queue
    PROVE  /\ queue[k] \in Irp
           /\ Without(k) \in Seq(Irp)
           /\ \A i \in DOMAIN Without(k) :
                 /\ \E j \in DOMAIN queue : Without(k)[i] = queue[j]
                 /\ Without(k)[i] # queue[k]
           /\ \A i, j \in DOMAIN Without(k) : Without(k)[i] = Without(k)[j] => i = j
  <1>1. queue \in Seq(Irp) /\ DOMAIN queue = 1 .. Len(queue) /\ Len(queue) \in Nat
    BY DEF IInv, TypeOK, IrpTypes
  <1>2. \A i, j \in DOMAIN queue : queue[i] = queue[j] => i = j
    BY DEF IInv, QueuedAreLive
  <1>3. \A i \in DOMAIN queue : queue[i] \in Irp
    BY <1>1
  <1> DEFINE From(i) == IF i < k THEN i ELSE i + 1
  <1>4. DOMAIN Without(k) = 1 .. Len(queue) - 1
    BY DEF Without
  <1>5. ASSUME NEW i \in DOMAIN Without(k)
        PROVE  From(i) \in DOMAIN queue /\ From(i) # k /\ Without(k)[i] = queue[From(i)]
    BY <1>1, <1>4 DEF Without
  <1>6. ASSUME NEW i \in DOMAIN Without(k), NEW j \in DOMAIN Without(k),
  From(i) = From(j)
        PROVE  i = j
    BY <1>1, <1>4, <1>6
  <1> HIDE DEF From
  <1>7. Without(k) \in Seq(Irp)
    <2>1. \A i \in 1 .. Len(queue) - 1 :
             (IF i < k THEN queue[i] ELSE queue[i + 1]) \in Irp
      BY <1>1, <1>3
    <2> QED
      BY <1>1, <2>1 DEF Without
  <1>8. \A i \in DOMAIN Without(k) : Without(k)[i] # queue[k]
    BY <1>2, <1>5
  <1>9. ASSUME NEW i \in DOMAIN Without(k), NEW j \in DOMAIN Without(k),
               Without(k)[i] = Without(k)[j]
        PROVE  i = j
    BY <1>2, <1>5, <1>6, <1>9
  <1> QED
    BY <1>3, <1>5, <1>7, <1>8, <1>9

(* The initial state satisfies the invariant.                              *)
LEMMA InitIInv == Init => IInv
  <1> SUFFICES ASSUME Init PROVE IInv
    OBVIOUS
  <1> USE UartAssumption DEF Init, IdleDpc
  <1>1. TypeOK
    <2> USE DEF IrpTypes, DataTypes, DpcTypes, PnpTypes, Request
    <2>1. IrpTypes
      OBVIOUS
    <2>3. DataTypes
      <3>1. avail \in 0 .. RxMax /\ line \in 0 .. MaxBytes
        OBVIOUS
      <3>2. polled \in BOOLEAN /\ connected \in BOOLEAN
        OBVIOUS
      <3> QED
        BY <3>1, <3>2
    <2>2. DpcTypes /\ PnpTypes
      OBVIOUS
    <2> QED
      BY <2>1, <2>2, <2>3 DEF TypeOK
  <1>2. QueuedAreLive
    BY DEF QueuedAreLive
  <1>3. HoldersAtWork
    BY DEF HoldersAtWork
  <1>4. OneHolder
    BY DEF OneHolder, Held
  <1>5. OnceDone
    BY DEF OnceDone
  <1> QED
    BY <1>1, <1>2, <1>3, <1>4, <1>5 DEF IInv

(* A read is dispatched.                                                   *)
LEMMA ReadIInv ==
    ASSUME IInv, NEW r \in Irp, Read(r) PROVE IInv'
  <1> USE UartAssumption DEF IInv, Read, DeviceUnchanged, Dispatch
  <1>1. TypeOK'
    BY DEF TypeOK, IrpTypes, DataTypes, DpcTypes, PnpTypes, Request
  <1>2. (QueuedAreLive /\ HoldersAtWork)'
    BY DEF TypeOK, IrpTypes, DataTypes, DpcTypes, PnpTypes, QueuedAreLive, HoldersAtWork,
        OneHolder, OnceDone, Held, Queued
  <1>3. (OneHolder /\ OnceDone)'
    BY DEF TypeOK, IrpTypes, DataTypes, DpcTypes, PnpTypes, QueuedAreLive, HoldersAtWork,
        OneHolder, OnceDone, Held, Queued
  <1> QED
    BY <1>1, <1>2, <1>3

(* It fails at once ...                                                    *)
LEMMA ReadFailsIInv ==
    ASSUME IInv, NEW r \in Irp, ReadFails(r) PROVE IInv'
  <1> USE UartAssumption DEF IInv, ReadFails, DeviceUnchanged, Dispatch, CompleteIrp
  <1>1. TypeOK'
    BY DEF TypeOK, IrpTypes, DataTypes, DpcTypes, PnpTypes, Request
  <1>2. (QueuedAreLive /\ HoldersAtWork)'
    BY DEF TypeOK, IrpTypes, DataTypes, DpcTypes, PnpTypes, QueuedAreLive, HoldersAtWork,
        OneHolder, OnceDone, Held, Queued
  <1>3. (OneHolder /\ OnceDone)'
    BY DEF TypeOK, IrpTypes, DataTypes, DpcTypes, PnpTypes, QueuedAreLive, HoldersAtWork,
        OneHolder, OnceDone, Held, Queued
  <1> QED
    BY <1>1, <1>2, <1>3

(* ... or is answered at once ...                                          *)
LEMMA ReadCopiesIInv ==
    ASSUME IInv, NEW r \in Irp, ReadCopies(r) PROVE IInv'
  <1> USE UartAssumption DEF IInv, ReadCopies, DeviceUnchanged, Dispatch, CompleteIrp
  <1>1. TypeOK'
    BY DEF TypeOK, IrpTypes, DataTypes, DpcTypes, PnpTypes, Request
  <1>2. (QueuedAreLive /\ HoldersAtWork)'
    BY DEF TypeOK, IrpTypes, DataTypes, DpcTypes, PnpTypes, QueuedAreLive, HoldersAtWork,
        OneHolder, OnceDone, Held, Queued
  <1>3. (OneHolder /\ OnceDone)'
    BY DEF TypeOK, IrpTypes, DataTypes, DpcTypes, PnpTypes, QueuedAreLive, HoldersAtWork,
        OneHolder, OnceDone, Held, Queued
  <1> QED
    BY <1>1, <1>2, <1>3

(* ... or has to wait.                                                     *)
LEMMA ReadFindsNothingIInv ==
    ASSUME IInv, NEW r \in Irp, ReadFindsNothing(r) PROVE IInv'
  <1> USE UartAssumption DEF IInv, ReadFindsNothing, DeviceUnchanged, Dispatch
  <1>1. TypeOK'
    BY DEF TypeOK, IrpTypes, DataTypes, DpcTypes, PnpTypes, Request
  <1>2. (QueuedAreLive /\ HoldersAtWork)'
    BY DEF TypeOK, IrpTypes, DataTypes, DpcTypes, PnpTypes, QueuedAreLive, HoldersAtWork,
        OneHolder, OnceDone, Held, Queued
  <1>3. (OneHolder /\ OnceDone)'
    BY DEF TypeOK, IrpTypes, DataTypes, DpcTypes, PnpTypes, QueuedAreLive, HoldersAtWork,
        OneHolder, OnceDone, Held, Queued
  <1> QED
    BY <1>1, <1>2, <1>3

(* It becomes cancellable ...                                              *)
LEMMA ReadArmsCancelIInv ==
    ASSUME IInv, NEW r \in Irp, ReadArmsCancel(r) PROVE IInv'
  <1> USE UartAssumption DEF IInv, ReadArmsCancel, DeviceUnchanged, Dispatch
  <1>1. TypeOK'
    BY DEF TypeOK, IrpTypes, DataTypes, DpcTypes, PnpTypes, Request
  <1>2. (QueuedAreLive /\ HoldersAtWork)'
    BY DEF TypeOK, IrpTypes, DataTypes, DpcTypes, PnpTypes, QueuedAreLive, HoldersAtWork,
        OneHolder, OnceDone, Held, Queued
  <1>3. (OneHolder /\ OnceDone)'
    BY DEF TypeOK, IrpTypes, DataTypes, DpcTypes, PnpTypes, QueuedAreLive, HoldersAtWork,
        OneHolder, OnceDone, Held, Queued
  <1> QED
    BY <1>1, <1>2, <1>3

(* ... and is parked.                                                      *)
LEMMA ReadQueuesIInv ==
    ASSUME IInv, NEW r \in Irp, ReadQueues(r) PROVE IInv'
  <1> USE UartAssumption DEF IInv, ReadQueues, DeviceUnchanged, Dispatch
  <1>0. Append(queue, r) \in Seq(Irp)
    BY DEF TypeOK, IrpTypes
  <1>1. TypeOK'
    <2>1. disp' \in [Irp -> {"none", "try", "empty", "armed", "returned"}]
      BY DEF TypeOK, IrpTypes
    <2> QED
      BY <1>0, <2>1 DEF TypeOK, IrpTypes, DataTypes, DpcTypes, PnpTypes
  <1>2. QueuedAreLive'
    BY <1>0, <1>1
    DEF TypeOK, IrpTypes, DataTypes, DpcTypes, PnpTypes, QueuedAreLive, HoldersAtWork,
        OneHolder, OnceDone, Held, Queued
  <1>3. HoldersAtWork'
    BY <1>0, <1>1 DEF TypeOK, IrpTypes, DataTypes, DpcTypes, PnpTypes, HoldersAtWork
  <1>4. OneHolder'
    BY <1>0, <1>1
    DEF TypeOK, IrpTypes, DataTypes, DpcTypes, PnpTypes, QueuedAreLive, HoldersAtWork,
        OneHolder, OnceDone, Held, Queued
  <1>5. OnceDone'
    BY <1>0, <1>1
    DEF TypeOK, IrpTypes, DataTypes, DpcTypes, PnpTypes, QueuedAreLive, HoldersAtWork,
        OneHolder, OnceDone, Held, Queued
  <1> QED
    BY <1>1, <1>2, <1>3, <1>4, <1>5

(* It is cancelled.                                                        *)
LEMMA IoCancelIrpIInv ==
    ASSUME IInv, NEW r \in Irp, IoCancelIrp(r) PROVE IInv'
  <1> USE UartAssumption DEF IInv, IoCancelIrp, DeviceUnchanged, CancelStep
  <1>1. TypeOK'
    BY DEF TypeOK, IrpTypes, DataTypes, DpcTypes, PnpTypes, Request
  <1>2. (QueuedAreLive /\ HoldersAtWork)'
    BY DEF TypeOK, IrpTypes, DataTypes, DpcTypes, PnpTypes, QueuedAreLive, HoldersAtWork,
        OneHolder, OnceDone, Held, Queued
  <1>3. (OneHolder /\ OnceDone)'
    BY DEF TypeOK, IrpTypes, DataTypes, DpcTypes, PnpTypes, QueuedAreLive, HoldersAtWork,
        OneHolder, OnceDone, Held, Queued
  <1> QED
    BY <1>1, <1>2, <1>3

(* The cancel routine takes it ...                                         *)
LEMMA CancelFindsIInv ==
    ASSUME IInv, NEW r \in Irp, CancelFinds(r) PROVE IInv'
  <1> USE UartAssumption DEF IInv, CancelFinds, DeviceUnchanged, CancelStep
  <1>0. PICK k \in DOMAIN queue : queue[k] = r /\ queue' = Without(k)
    OBVIOUS
  <1>1. TypeOK'
    BY <1>0, OtherEntries DEF TypeOK, IrpTypes, DataTypes, DpcTypes, PnpTypes
  <1>2. QueuedAreLive'
    BY <1>0, OtherEntries, <1>1
    DEF TypeOK, IrpTypes, DataTypes, DpcTypes, PnpTypes, QueuedAreLive, HoldersAtWork,
        OneHolder, OnceDone, Held, Queued
  <1>3. HoldersAtWork'
    BY <1>0, OtherEntries, <1>1
    DEF TypeOK, IrpTypes, DataTypes, DpcTypes, PnpTypes, HoldersAtWork
  <1>4. OneHolder'
    BY <1>0, OtherEntries, <1>1
    DEF TypeOK, IrpTypes, DataTypes, DpcTypes, PnpTypes, QueuedAreLive, HoldersAtWork,
        OneHolder, OnceDone, Held, Queued
  <1>5. OnceDone'
    BY <1>0, OtherEntries, <1>1
    DEF TypeOK, IrpTypes, DataTypes, DpcTypes, PnpTypes, QueuedAreLive, HoldersAtWork,
        OneHolder, OnceDone, Held, Queued
  <1> QED
    BY <1>1, <1>2, <1>3, <1>4, <1>5

(* ... or does not find it ...                                             *)
LEMMA CancelMissesIInv ==
    ASSUME IInv, NEW r \in Irp, CancelMisses(r) PROVE IInv'
  <1> USE UartAssumption DEF IInv, CancelMisses, DeviceUnchanged, CancelStep
  <1>1. TypeOK'
    BY DEF TypeOK, IrpTypes, DataTypes, DpcTypes, PnpTypes, Request
  <1>2. (QueuedAreLive /\ HoldersAtWork)'
    BY DEF TypeOK, IrpTypes, DataTypes, DpcTypes, PnpTypes, QueuedAreLive, HoldersAtWork,
        OneHolder, OnceDone, Held, Queued
  <1>3. (OneHolder /\ OnceDone)'
    BY DEF TypeOK, IrpTypes, DataTypes, DpcTypes, PnpTypes, QueuedAreLive, HoldersAtWork,
        OneHolder, OnceDone, Held, Queued
  <1> QED
    BY <1>1, <1>2, <1>3

(* ... or completes what it took.                                          *)
LEMMA CancelCompletesIInv ==
    ASSUME IInv, NEW r \in Irp, CancelCompletes(r) PROVE IInv'
  <1> USE UartAssumption
  DEF IInv, CancelCompletes, DeviceUnchanged, CancelStep, CompleteIrp
  <1>1. TypeOK'
    BY DEF TypeOK, IrpTypes, DataTypes, DpcTypes, PnpTypes, Request
  <1>2. (QueuedAreLive /\ HoldersAtWork)'
    BY DEF TypeOK, IrpTypes, DataTypes, DpcTypes, PnpTypes, QueuedAreLive, HoldersAtWork,
        OneHolder, OnceDone, Held, Queued
  <1>3. (OneHolder /\ OnceDone)'
    BY DEF TypeOK, IrpTypes, DataTypes, DpcTypes, PnpTypes, QueuedAreLive, HoldersAtWork,
        OneHolder, OnceDone, Held, Queued
  <1> QED
    BY <1>1, <1>2, <1>3

(* The interrupt moves no IRP ...                                          *)
LEMMA IsrIInv ==
    ASSUME IInv, NEW n \in 0 .. MaxBytes, Isr(n) PROVE IInv'
  <1> USE UartAssumption DEF IInv, Isr, DispatchUnchanged, Drain, Smaller
  <1>1. TypeOK'
    <2> USE DEF TypeOK, IrpTypes, DataTypes, DpcTypes, PnpTypes
    <2>1. IrpTypes' /\ PnpTypes'
      OBVIOUS
    <2>2. DataTypes'
      <3>1. avail \in Nat /\ avail <= RxMax /\ line \in Nat /\ line <= MaxBytes /\ n \in Nat
        OBVIOUS
      <3>2. avail' \in 0 .. RxMax /\ line' \in 0 .. MaxBytes
        BY <3>1
      <3> QED
        BY <3>2
    <2>3. DpcTypes'
      OBVIOUS
    <2> QED
      BY <2>1, <2>2, <2>3
  <1>2. QueuedAreLive'
    BY <1>1
    DEF TypeOK, IrpTypes, DataTypes, DpcTypes, PnpTypes, QueuedAreLive, HoldersAtWork,
        OneHolder, OnceDone, Held, Queued
  <1>3. HoldersAtWork'
    BY <1>1 DEF TypeOK, IrpTypes, DataTypes, DpcTypes, PnpTypes, HoldersAtWork
  <1>4. OneHolder'
    BY <1>1
    DEF TypeOK, IrpTypes, DataTypes, DpcTypes, PnpTypes, QueuedAreLive, HoldersAtWork,
        OneHolder, OnceDone, Held, Queued
  <1>5. OnceDone'
    BY <1>1
    DEF TypeOK, IrpTypes, DataTypes, DpcTypes, PnpTypes, QueuedAreLive, HoldersAtWork,
        OneHolder, OnceDone, Held, Queued
  <1> QED
    BY <1>1, <1>2, <1>3, <1>4, <1>5

(* ... nor does the start of its DPC.                                      *)
LEMMA DpcStartsIInv ==
    ASSUME IInv, NEW c \in Cpu, NEW n \in 0 .. MaxBytes, DpcStarts(c, n) PROVE IInv'
  <1> USE UartAssumption DEF IInv, DpcStarts, DispatchUnchanged, Drain, Smaller, IdleDpc
  <1>1. TypeOK'
    <2> USE DEF TypeOK, IrpTypes, DataTypes, DpcTypes, PnpTypes
    <2>1. IrpTypes' /\ PnpTypes'
      OBVIOUS
    <2>2. DataTypes'
      <3>1. avail \in Nat /\ avail <= RxMax /\ line \in Nat /\ line <= MaxBytes /\ n \in Nat
        OBVIOUS
      <3>2. avail' \in 0 .. RxMax /\ line' \in 0 .. MaxBytes
        BY <3>1
      <3> QED
        BY <3>2
    <2>3. DpcTypes'
      OBVIOUS
    <2> QED
      BY <2>1, <2>2, <2>3
  <1>2. QueuedAreLive'
    BY <1>1
    DEF TypeOK, IrpTypes, DataTypes, DpcTypes, PnpTypes, QueuedAreLive, HoldersAtWork,
        OneHolder, OnceDone, Held, Queued
  <1>3. HoldersAtWork'
    BY <1>1 DEF TypeOK, IrpTypes, DataTypes, DpcTypes, PnpTypes, HoldersAtWork
  <1>4. OneHolder'
    BY <1>1
    DEF TypeOK, IrpTypes, DataTypes, DpcTypes, PnpTypes, QueuedAreLive, HoldersAtWork,
        OneHolder, OnceDone, Held, Queued
  <1>5. OnceDone'
    BY <1>1
    DEF TypeOK, IrpTypes, DataTypes, DpcTypes, PnpTypes, QueuedAreLive, HoldersAtWork,
        OneHolder, OnceDone, Held, Queued
  <1> QED
    BY <1>1, <1>2, <1>3, <1>4, <1>5

(* The DPC takes the head of ReadQueue ...                                 *)
LEMMA DpcTakesIInv ==
    ASSUME IInv, NEW c \in Cpu, DpcTakes(c) PROVE IInv'
  <1> USE UartAssumption DEF IInv, DpcTakes, DispatchUnchanged
  <1>0. PICK r : r = Head(queue)
    OBVIOUS
  <1>1. /\ r \in Irp /\ disp[r] = "returned" /\ done[r] = 0 /\ ~Held(r)
        /\ queue' = Tail(queue) /\ Tail(queue) \in Seq(Irp)
    BY <1>0, TailEntries DEF QueuedAreLive, Queued
  <1>2. \A i \in DOMAIN queue' : queue'[i] # r /\ \E k \in DOMAIN queue : queue'[i] = queue[k]
    BY <1>0, <1>1, TailEntries
  <1>3. \A i, j \in DOMAIN queue' : queue'[i] = queue'[j] => i = j
    BY <1>1, TailEntries
  <1>4. TypeOK'
    <2> USE DEF TypeOK, IrpTypes, DataTypes, DpcTypes, PnpTypes
    <2>1. IrpTypes' /\ DataTypes'
      BY <1>1
    <2>2. DpcTypes'
      BY <1>0, <1>1 DEF HoldersAtWork
    <2>3. PnpTypes'
      BY <1>0, <1>1
    <2> QED
      BY <2>1, <2>2, <2>3
  <1>5. \A s \in Irp : Held(s)' => s = r \/ Held(s)
    BY <1>0, <1>1 DEF Held, TypeOK, IrpTypes, DataTypes, DpcTypes, PnpTypes
  <1>6. QueuedAreLive'
    <2>1. ASSUME NEW i \in DOMAIN queue'
          PROVE  (disp[queue[i]] = "returned" /\ done[queue[i]] = 0 /\ ~Held(queue[i]))'
      <3>1. PICK s \in Irp : s = queue'[i] /\ s # r /\ \E k \in DOMAIN queue : s = queue[k]
        BY <1>2 DEF TypeOK, IrpTypes
      <3>2. disp[s] = "returned" /\ done[s] = 0 /\ ~Held(s)
        BY <3>1 DEF QueuedAreLive
      <3>3. ~Held(s)'
        BY <1>5, <3>1, <3>2
      <3> QED
        BY <3>1, <3>2, <3>3 DEF Held
    <2> QED
      BY <1>3, <2>1 DEF QueuedAreLive
  <1>7. HoldersAtWork'
    BY <1>0, <1>1 DEF TypeOK, IrpTypes, DataTypes, DpcTypes, PnpTypes, HoldersAtWork
  <1>8. OneHolder'
    BY <1>0, <1>1
    DEF TypeOK, IrpTypes, DataTypes, DpcTypes, PnpTypes, HoldersAtWork, OneHolder, Held
  <1>9. OnceDone'
    BY DEF OnceDone
  <1> QED
    BY <1>4, <1>6, <1>7, <1>8, <1>9

(* ... completes it ...                                                    *)
LEMMA DpcCompletesIInv ==
    ASSUME IInv, NEW c \in Cpu, DpcCompletes(c) PROVE IInv'
  <1> USE UartAssumption DEF IInv, DpcCompletes, DispatchUnchanged, CompleteIrp, IdleDpc
  <1> DEFINE r == dpc[c].irp
  <1>0. r \in Irp /\ done[r] = 0 /\ disp[r] = "returned"
    BY DEF TypeOK, IrpTypes, DataTypes, DpcTypes, PnpTypes, HoldersAtWork, OneHolder, Held
  <1>1. TypeOK'
    <2> USE DEF TypeOK, IrpTypes, DataTypes, DpcTypes, PnpTypes
    <2>1. IrpTypes'
      <3>1. done' \in [Irp -> Nat]
        BY <1>0
      <3> QED
        BY <3>1
    <2>2. DataTypes' /\ PnpTypes'
      BY DEF Request
    <2>3. DpcTypes'
      <3> DEFINE Run == [pc : {"idle", "reads", "complete"}, irp : Irp \cup {NoIrp},
                         n : 0 .. CompletionLimit]
      <3>1. dpc[c] \in Run /\ IdleDpc \in Run
        OBVIOUS
      <3>2. [dpc[c] EXCEPT !.pc = "reads", !.irp = NoIrp] \in Run
        BY <3>1
      <3>3. dpc' = [dpc EXCEPT ![c] = IdleDpc]
            \/ dpc' = [dpc EXCEPT ![c] = [dpc[c] EXCEPT !.pc = "reads", !.irp = NoIrp]]
        OBVIOUS
      <3> QED
        BY <3>1, <3>2, <3>3
    <2> QED
      BY <2>1, <2>2, <2>3
  <1>2. QueuedAreLive'
    BY <1>0, <1>1
    DEF TypeOK, IrpTypes, DataTypes, DpcTypes, PnpTypes, QueuedAreLive, HoldersAtWork,
        OneHolder, OnceDone, Held, Queued
  <1>3. HoldersAtWork'
    BY <1>0, <1>1 DEF TypeOK, IrpTypes, DataTypes, DpcTypes, PnpTypes, HoldersAtWork
  <1>4. OneHolder'
    BY <1>0, <1>1
    DEF TypeOK, IrpTypes, DataTypes, DpcTypes, PnpTypes, QueuedAreLive, HoldersAtWork,
        OneHolder, OnceDone, Held, Queued
  <1>5. OnceDone'
    BY <1>0, <1>1
    DEF TypeOK, IrpTypes, DataTypes, DpcTypes, PnpTypes, QueuedAreLive, HoldersAtWork,
        OneHolder, OnceDone, Held, Queued
  <1> QED
    BY <1>1, <1>2, <1>3, <1>4, <1>5

(* ... and ends.                                                           *)
LEMMA DpcEndsIInv ==
    ASSUME IInv, NEW c \in Cpu, DpcEnds(c) PROVE IInv'
  <1> USE UartAssumption DEF IInv, DpcEnds, DispatchUnchanged, IdleDpc
  <1>1. TypeOK'
    BY DEF TypeOK, IrpTypes, DataTypes, DpcTypes, PnpTypes, Request
  <1>2. (QueuedAreLive /\ HoldersAtWork)'
    BY DEF TypeOK, IrpTypes, DataTypes, DpcTypes, PnpTypes, QueuedAreLive, HoldersAtWork,
        OneHolder, OnceDone, Held, Queued
  <1>3. (OneHolder /\ OnceDone)'
    BY DEF TypeOK, IrpTypes, DataTypes, DpcTypes, PnpTypes, QueuedAreLive, HoldersAtWork,
        OneHolder, OnceDone, Held, Queued
  <1> QED
    BY <1>1, <1>2, <1>3

(* A stop begins, which moves no IRP.                                      *)
LEMMA StopDisconnectsIInv ==
    ASSUME IInv, NEW op \in Request, StopDisconnects(op) PROVE IInv'
  <1> USE UartAssumption DEF IInv, StopDisconnects, DispatchUnchanged, Request
  <1>1. TypeOK'
    BY DEF TypeOK, IrpTypes, DataTypes, DpcTypes, PnpTypes, Request
  <1>2. (QueuedAreLive /\ HoldersAtWork)'
    BY DEF TypeOK, IrpTypes, DataTypes, DpcTypes, PnpTypes, QueuedAreLive, HoldersAtWork,
        OneHolder, OnceDone, Held, Queued
  <1>3. (OneHolder /\ OnceDone)'
    BY DEF TypeOK, IrpTypes, DataTypes, DpcTypes, PnpTypes, QueuedAreLive, HoldersAtWork,
        OneHolder, OnceDone, Held, Queued
  <1> QED
    BY <1>1, <1>2, <1>3

(* It takes the head of ReadQueue ...                                      *)
LEMMA StopTakesIInv ==
    ASSUME IInv, StopTakes PROVE IInv'
  <1> USE UartAssumption DEF IInv, StopTakes, DispatchUnchanged, PnpGoto
  <1>0. PICK r : r = Head(queue)
    OBVIOUS
  <1>1. /\ r \in Irp /\ disp[r] = "returned" /\ done[r] = 0 /\ ~Held(r)
        /\ queue' = Tail(queue) /\ Tail(queue) \in Seq(Irp)
    BY <1>0, TailEntries DEF QueuedAreLive, Queued
  <1>2. \A i \in DOMAIN queue' : queue'[i] # r /\ \E k \in DOMAIN queue : queue'[i] = queue[k]
    BY <1>0, <1>1, TailEntries
  <1>3. \A i, j \in DOMAIN queue' : queue'[i] = queue'[j] => i = j
    BY <1>1, TailEntries
  <1>4. TypeOK'
    <2> USE DEF TypeOK, IrpTypes, DataTypes, DpcTypes, PnpTypes
    <2>1. IrpTypes' /\ DataTypes'
      BY <1>1
    <2>2. DpcTypes'
      BY <1>0, <1>1 DEF HoldersAtWork
    <2>3. PnpTypes'
      BY <1>0, <1>1
    <2> QED
      BY <2>1, <2>2, <2>3
  <1>5. \A s \in Irp : Held(s)' => s = r \/ Held(s)
    BY <1>0, <1>1 DEF Held, TypeOK, IrpTypes, DataTypes, DpcTypes, PnpTypes
  <1>6. QueuedAreLive'
    <2>1. ASSUME NEW i \in DOMAIN queue'
          PROVE  (disp[queue[i]] = "returned" /\ done[queue[i]] = 0 /\ ~Held(queue[i]))'
      <3>1. PICK s \in Irp : s = queue'[i] /\ s # r /\ \E k \in DOMAIN queue : s = queue[k]
        BY <1>2 DEF TypeOK, IrpTypes
      <3>2. disp[s] = "returned" /\ done[s] = 0 /\ ~Held(s)
        BY <3>1 DEF QueuedAreLive
      <3>3. ~Held(s)'
        BY <1>5, <3>1, <3>2
      <3> QED
        BY <3>1, <3>2, <3>3 DEF Held
    <2> QED
      BY <1>3, <2>1 DEF QueuedAreLive
  <1>7. HoldersAtWork'
    BY <1>0, <1>1 DEF TypeOK, IrpTypes, DataTypes, DpcTypes, PnpTypes, HoldersAtWork
  <1>8. OneHolder'
    BY <1>0, <1>1
    DEF TypeOK, IrpTypes, DataTypes, DpcTypes, PnpTypes, HoldersAtWork, OneHolder, Held
  <1>9. OnceDone'
    BY DEF OnceDone
  <1> QED
    BY <1>4, <1>6, <1>7, <1>8, <1>9

(* ... completes it ...                                                    *)
LEMMA StopCompletesIInv ==
    ASSUME IInv, StopCompletes PROVE IInv'
  <1> USE UartAssumption
  DEF IInv, StopCompletes, DispatchUnchanged, PnpGoto, CompleteIrp
  <1> DEFINE r == pnp.irp
  <1>0. r \in Irp /\ done[r] = 0 /\ disp[r] = "returned"
    BY DEF TypeOK, IrpTypes, DataTypes, DpcTypes, PnpTypes, HoldersAtWork, OneHolder, Held
  <1>1. TypeOK'
    <2> USE DEF TypeOK, IrpTypes, DataTypes, DpcTypes, PnpTypes
    <2>1. IrpTypes'
      <3>1. done' \in [Irp -> Nat]
        BY <1>0
      <3> QED
        BY <3>1
    <2>2. DataTypes' /\ PnpTypes'
      BY DEF Request
    <2>3. DpcTypes'
      OBVIOUS
    <2> QED
      BY <2>1, <2>2, <2>3
  <1>2. QueuedAreLive'
    BY <1>0, <1>1
    DEF TypeOK, IrpTypes, DataTypes, DpcTypes, PnpTypes, QueuedAreLive, HoldersAtWork,
        OneHolder, OnceDone, Held, Queued
  <1>3. HoldersAtWork'
    BY <1>0, <1>1 DEF TypeOK, IrpTypes, DataTypes, DpcTypes, PnpTypes, HoldersAtWork
  <1>4. OneHolder'
    BY <1>0, <1>1
    DEF TypeOK, IrpTypes, DataTypes, DpcTypes, PnpTypes, QueuedAreLive, HoldersAtWork,
        OneHolder, OnceDone, Held, Queued
  <1>5. OnceDone'
    BY <1>0, <1>1
    DEF TypeOK, IrpTypes, DataTypes, DpcTypes, PnpTypes, QueuedAreLive, HoldersAtWork,
        OneHolder, OnceDone, Held, Queued
  <1> QED
    BY <1>1, <1>2, <1>3, <1>4, <1>5

(* ... and goes on ...                                                     *)
LEMMA StopFlushedIInv ==
    ASSUME IInv, StopFlushed PROVE IInv'
  <1> USE UartAssumption DEF IInv, StopFlushed, DispatchUnchanged, PnpGoto
  <1>1. TypeOK'
    BY DEF TypeOK, IrpTypes, DataTypes, DpcTypes, PnpTypes, Request
  <1>2. (QueuedAreLive /\ HoldersAtWork)'
    BY DEF TypeOK, IrpTypes, DataTypes, DpcTypes, PnpTypes, QueuedAreLive, HoldersAtWork,
        OneHolder, OnceDone, Held, Queued
  <1>3. (OneHolder /\ OnceDone)'
    BY DEF TypeOK, IrpTypes, DataTypes, DpcTypes, PnpTypes, QueuedAreLive, HoldersAtWork,
        OneHolder, OnceDone, Held, Queued
  <1> QED
    BY <1>1, <1>2, <1>3

(* ... until it has freed the buffers.                                     *)
LEMMA StopFreesIInv ==
    ASSUME IInv, StopFrees PROVE IInv'
  <1> USE UartAssumption DEF IInv, StopFrees, DispatchUnchanged, PnpGoto
  <1>1. TypeOK'
    <2> USE DEF TypeOK, IrpTypes, DataTypes, DpcTypes, PnpTypes
    <2>1. IrpTypes' /\ DpcTypes'
      OBVIOUS
    <2>4. PnpTypes'
      BY DEF Request
    <2>2. polled' \in BOOLEAN /\ connected' \in BOOLEAN
      OBVIOUS
    <2>3. avail' \in 0 .. RxMax /\ line' \in 0 .. MaxBytes
      OBVIOUS
    <2> QED
      BY <2>1, <2>2, <2>3, <2>4
  <1>2. QueuedAreLive'
    BY <1>1
    DEF TypeOK, IrpTypes, DataTypes, DpcTypes, PnpTypes, QueuedAreLive, HoldersAtWork,
        OneHolder, OnceDone, Held, Queued
  <1>3. HoldersAtWork'
    BY <1>1 DEF TypeOK, IrpTypes, DataTypes, DpcTypes, PnpTypes, HoldersAtWork
  <1>4. OneHolder'
    BY <1>1
    DEF TypeOK, IrpTypes, DataTypes, DpcTypes, PnpTypes, QueuedAreLive, HoldersAtWork,
        OneHolder, OnceDone, Held, Queued
  <1>5. OnceDone'
    BY <1>1
    DEF TypeOK, IrpTypes, DataTypes, DpcTypes, PnpTypes, QueuedAreLive, HoldersAtWork,
        OneHolder, OnceDone, Held, Queued
  <1> QED
    BY <1>1, <1>2, <1>3, <1>4, <1>5

(* A remove takes what is left ...                                         *)
LEMMA RemoveTakesIInv ==
    ASSUME IInv, RemoveTakes PROVE IInv'
  <1> USE UartAssumption DEF IInv, RemoveTakes, DispatchUnchanged, PnpGoto
  <1>0. PICK r : r = Head(queue)
    OBVIOUS
  <1>1. /\ r \in Irp /\ disp[r] = "returned" /\ done[r] = 0 /\ ~Held(r)
        /\ queue' = Tail(queue) /\ Tail(queue) \in Seq(Irp)
    BY <1>0, TailEntries DEF QueuedAreLive, Queued
  <1>2. \A i \in DOMAIN queue' : queue'[i] # r /\ \E k \in DOMAIN queue : queue'[i] = queue[k]
    BY <1>0, <1>1, TailEntries
  <1>3. \A i, j \in DOMAIN queue' : queue'[i] = queue'[j] => i = j
    BY <1>1, TailEntries
  <1>4. TypeOK'
    <2> USE DEF TypeOK, IrpTypes, DataTypes, DpcTypes, PnpTypes
    <2>1. IrpTypes' /\ DataTypes'
      BY <1>1
    <2>2. DpcTypes'
      BY <1>0, <1>1 DEF HoldersAtWork
    <2>3. PnpTypes'
      BY <1>0, <1>1
    <2> QED
      BY <2>1, <2>2, <2>3
  <1>5. \A s \in Irp : Held(s)' => s = r \/ Held(s)
    BY <1>0, <1>1 DEF Held, TypeOK, IrpTypes, DataTypes, DpcTypes, PnpTypes
  <1>6. QueuedAreLive'
    <2>1. ASSUME NEW i \in DOMAIN queue'
          PROVE  (disp[queue[i]] = "returned" /\ done[queue[i]] = 0 /\ ~Held(queue[i]))'
      <3>1. PICK s \in Irp : s = queue'[i] /\ s # r /\ \E k \in DOMAIN queue : s = queue[k]
        BY <1>2 DEF TypeOK, IrpTypes
      <3>2. disp[s] = "returned" /\ done[s] = 0 /\ ~Held(s)
        BY <3>1 DEF QueuedAreLive
      <3>3. ~Held(s)'
        BY <1>5, <3>1, <3>2
      <3> QED
        BY <3>1, <3>2, <3>3 DEF Held
    <2> QED
      BY <1>3, <2>1 DEF QueuedAreLive
  <1>7. HoldersAtWork'
    BY <1>0, <1>1 DEF TypeOK, IrpTypes, DataTypes, DpcTypes, PnpTypes, HoldersAtWork
  <1>8. OneHolder'
    BY <1>0, <1>1
    DEF TypeOK, IrpTypes, DataTypes, DpcTypes, PnpTypes, HoldersAtWork, OneHolder, Held
  <1>9. OnceDone'
    BY DEF OnceDone
  <1> QED
    BY <1>4, <1>6, <1>7, <1>8, <1>9

(* ... completes it ...                                                    *)
LEMMA RemoveCompletesIInv ==
    ASSUME IInv, RemoveCompletes PROVE IInv'
  <1> USE UartAssumption
  DEF IInv, RemoveCompletes, DispatchUnchanged, PnpGoto, CompleteIrp
  <1> DEFINE r == pnp.irp
  <1>0. r \in Irp /\ done[r] = 0 /\ disp[r] = "returned"
    BY DEF TypeOK, IrpTypes, DataTypes, DpcTypes, PnpTypes, HoldersAtWork, OneHolder, Held
  <1>1. TypeOK'
    <2> USE DEF TypeOK, IrpTypes, DataTypes, DpcTypes, PnpTypes
    <2>1. IrpTypes'
      <3>1. done' \in [Irp -> Nat]
        BY <1>0
      <3> QED
        BY <3>1
    <2>2. DataTypes' /\ PnpTypes'
      BY DEF Request
    <2>3. DpcTypes'
      OBVIOUS
    <2> QED
      BY <2>1, <2>2, <2>3
  <1>2. QueuedAreLive'
    BY <1>0, <1>1
    DEF TypeOK, IrpTypes, DataTypes, DpcTypes, PnpTypes, QueuedAreLive, HoldersAtWork,
        OneHolder, OnceDone, Held, Queued
  <1>3. HoldersAtWork'
    BY <1>0, <1>1 DEF TypeOK, IrpTypes, DataTypes, DpcTypes, PnpTypes, HoldersAtWork
  <1>4. OneHolder'
    BY <1>0, <1>1
    DEF TypeOK, IrpTypes, DataTypes, DpcTypes, PnpTypes, QueuedAreLive, HoldersAtWork,
        OneHolder, OnceDone, Held, Queued
  <1>5. OnceDone'
    BY <1>0, <1>1
    DEF TypeOK, IrpTypes, DataTypes, DpcTypes, PnpTypes, QueuedAreLive, HoldersAtWork,
        OneHolder, OnceDone, Held, Queued
  <1> QED
    BY <1>1, <1>2, <1>3, <1>4, <1>5

(* ... and ends.                                                           *)
LEMMA RemoveDeletesIInv ==
    ASSUME IInv, RemoveDeletes PROVE IInv'
  <1> USE UartAssumption DEF IInv, RemoveDeletes, DispatchUnchanged, PnpGoto
  <1>1. TypeOK'
    BY DEF TypeOK, IrpTypes, DataTypes, DpcTypes, PnpTypes, Request
  <1>2. (QueuedAreLive /\ HoldersAtWork)'
    BY DEF TypeOK, IrpTypes, DataTypes, DpcTypes, PnpTypes, QueuedAreLive, HoldersAtWork,
        OneHolder, OnceDone, Held, Queued
  <1>3. (OneHolder /\ OnceDone)'
    BY DEF TypeOK, IrpTypes, DataTypes, DpcTypes, PnpTypes, QueuedAreLive, HoldersAtWork,
        OneHolder, OnceDone, Held, Queued
  <1> QED
    BY <1>1, <1>2, <1>3

(* The device starts again ...                                             *)
LEMMA StartConnectsIInv ==
    ASSUME IInv, StartConnects PROVE IInv'
  <1> USE UartAssumption DEF IInv, StartConnects, DispatchUnchanged
  <1>1. TypeOK'
    BY DEF TypeOK, IrpTypes, DataTypes, DpcTypes, PnpTypes, Request
  <1>2. (QueuedAreLive /\ HoldersAtWork)'
    BY DEF TypeOK, IrpTypes, DataTypes, DpcTypes, PnpTypes, QueuedAreLive, HoldersAtWork,
        OneHolder, OnceDone, Held, Queued
  <1>3. (OneHolder /\ OnceDone)'
    BY DEF TypeOK, IrpTypes, DataTypes, DpcTypes, PnpTypes, QueuedAreLive, HoldersAtWork,
        OneHolder, OnceDone, Held, Queued
  <1> QED
    BY <1>1, <1>2, <1>3

(* ... with an empty ReadQueue.                                            *)
LEMMA StartInitializesIInv ==
    ASSUME IInv, StartInitializes PROVE IInv'
  <1> USE UartAssumption DEF IInv, StartInitializes, DispatchUnchanged, PnpGoto
  <1>1. TypeOK'
    <2> USE DEF TypeOK, IrpTypes, DataTypes, DpcTypes, PnpTypes
    <2>1. IrpTypes' /\ DpcTypes'
      OBVIOUS
    <2>4. PnpTypes'
      BY DEF Request
    <2>2. polled' \in BOOLEAN /\ connected' \in BOOLEAN
      OBVIOUS
    <2>3. avail' \in 0 .. RxMax /\ line' \in 0 .. MaxBytes
      OBVIOUS
    <2> QED
      BY <2>1, <2>2, <2>3, <2>4
  <1>2. QueuedAreLive'
    BY <1>1
    DEF TypeOK, IrpTypes, DataTypes, DpcTypes, PnpTypes, QueuedAreLive, HoldersAtWork,
        OneHolder, OnceDone, Held, Queued
  <1>3. HoldersAtWork'
    BY <1>1 DEF TypeOK, IrpTypes, DataTypes, DpcTypes, PnpTypes, HoldersAtWork
  <1>4. OneHolder'
    BY <1>1
    DEF TypeOK, IrpTypes, DataTypes, DpcTypes, PnpTypes, QueuedAreLive, HoldersAtWork,
        OneHolder, OnceDone, Held, Queued
  <1>5. OnceDone'
    BY <1>1
    DEF TypeOK, IrpTypes, DataTypes, DpcTypes, PnpTypes, QueuedAreLive, HoldersAtWork,
        OneHolder, OnceDone, Held, Queued
  <1> QED
    BY <1>1, <1>2, <1>3, <1>4, <1>5

(* The invariant is inductive.                                             *)
LEMMA NextIInv == IInv /\ [Next]_vars => IInv'
  <1> SUFFICES ASSUME IInv, [Next]_vars PROVE IInv'
    OBVIOUS
  <1>1. ASSUME NEW r \in Irp, ReadStep(r) PROVE IInv'
    BY <1>1, ReadIInv, ReadFailsIInv, ReadCopiesIInv, ReadFindsNothingIInv,
       ReadArmsCancelIInv, ReadQueuesIInv DEF ReadStep
  <1>2. ASSUME NEW r \in Irp, IoCancelIrp(r) \/ CancelRoutine(r) PROVE IInv'
    BY <1>2, IoCancelIrpIInv, CancelFindsIInv, CancelMissesIInv, CancelCompletesIInv
    DEF CancelRoutine
  <1>3. ASSUME NEW n \in 0 .. MaxBytes, Isr(n) \/ \E c \in Cpu : DpcStarts(c, n)
        PROVE  IInv'
    BY <1>3, IsrIInv, DpcStartsIInv
  <1>4. ASSUME NEW c \in Cpu, DpcRoutine(c) PROVE IInv'
    BY <1>4, DpcTakesIInv, DpcCompletesIInv, DpcEndsIInv DEF DpcRoutine
  <1>5. ASSUME NEW op \in Request, StopDisconnects(op) PROVE IInv'
    BY <1>5, StopDisconnectsIInv
  <1>6. CASE StopDevice
    BY <1>6, StopTakesIInv, StopCompletesIInv, StopFlushedIInv, StopFreesIInv
    DEF StopDevice
  <1>7. CASE RemoveDevice
    BY <1>7, RemoveTakesIInv, RemoveCompletesIInv, RemoveDeletesIInv DEF RemoveDevice
  <1>8. CASE StartConnects \/ StartInitializes
    BY <1>8, StartConnectsIInv, StartInitializesIInv
  <1>9. CASE UNCHANGED vars
    BY <1>9 DEF vars, IInv, TypeOK, IrpTypes, DataTypes, DpcTypes, PnpTypes,
       QueuedAreLive, HoldersAtWork, OneHolder, OnceDone, Held
  <1> QED
    BY <1>1, <1>2, <1>3, <1>4, <1>5, <1>6, <1>7, <1>8, <1>9 DEF Next

(* What is parked in ReadQueue is in it once, dispatched, not completed and*)
(* in nobody's hands, for any number of reads and processors.              *)
THEOREM ReadsLive == Spec => [](TypeOK /\ QueuedAreLive)
  <1>1. IInv => TypeOK /\ QueuedAreLive
    BY DEF IInv
  <1> QED
    BY <1>1, InitIInv, NextIInv, PTL DEF Spec

(* A step that moves one IRP and no other is a step of the contract.       *)
LEMMA OneMoves ==
    ASSUME NEW r \in Irp, NEW from, NEW to,
           IrpState[r] = from, IrpState'[r] = to,
           \A s \in Irp \ {r} : IrpState'[s] = IrpState[s]
    PROVE  Irps!Move(r, from, to)
  BY DEF Irps!Move, IrpState

(* An IRP nobody touches keeps its state.                                  *)
LEMMA SameState ==
    ASSUME NEW s \in Irp, done'[s] = done[s], disp'[s] = disp[s], Held(s)' <=> Held(s)
    PROVE  IrpState'[s] = IrpState[s]
  BY DEF IrpState

(* Read: an IRP is received.                                               *)
LEMMA ReadMoves ==
    ASSUME IInv, NEW r \in Irp, Read(r) PROVE Irps!Next
  <1> USE UartAssumption DEF Read, Dispatch, DeviceUnchanged
  <1>1. done[r] = 0 /\ disp[r] = "none"
    BY UartAssumption
    DEF IInv, QueuedAreLive, HoldersAtWork, OneHolder, OnceDone, TypeOK, IrpTypes,
        DpcTypes, PnpTypes, Held, Queued
  <1>2. done'[r] = 0 /\ disp'[r] = "try"
    BY <1>1
    DEF IInv, QueuedAreLive, HoldersAtWork, OneHolder, OnceDone, TypeOK, IrpTypes,
        DpcTypes, PnpTypes, Held
  <1>3. ASSUME NEW s \in Irp \ {r}
        PROVE  done'[s] = done[s] /\ disp'[s] = disp[s] /\ (Held(s)' <=> Held(s))
    <2>1. done'[s] = done[s] /\ disp'[s] = disp[s]
      BY UartAssumption
      DEF IInv, QueuedAreLive, HoldersAtWork, OneHolder, OnceDone, TypeOK, IrpTypes,
          DpcTypes, PnpTypes
    <2>2. Held(s)' <=> Held(s)
      BY UartAssumption
      DEF IInv, QueuedAreLive, HoldersAtWork, OneHolder, OnceDone, TypeOK, IrpTypes,
          DpcTypes, PnpTypes, Held
    <2> QED
      BY <2>1, <2>2
  <1>4. IrpState[r] = "free" /\ IrpState'[r] = "owned"
    BY <1>1, <1>2 DEF IrpState
  <1> QED
    BY <1>3, <1>4, SameState, OneMoves DEF Irps!Next, Irps!Receive

(* ReadFails: an IRP is completed.                                         *)
LEMMA ReadFailsMoves ==
    ASSUME IInv, NEW r \in Irp, ReadFails(r) PROVE Irps!Next
  <1> USE UartAssumption DEF ReadFails, Dispatch, CompleteIrp, DeviceUnchanged
  <1>1. done[r] = 0 /\ disp[r] \notin {"none", "returned"}
    BY UartAssumption
    DEF IInv, QueuedAreLive, HoldersAtWork, OneHolder, OnceDone, TypeOK, IrpTypes,
        DpcTypes, PnpTypes, Held, Queued
  <1>2. done'[r] = 1
    BY <1>1
    DEF IInv, QueuedAreLive, HoldersAtWork, OneHolder, OnceDone, TypeOK, IrpTypes,
        DpcTypes, PnpTypes, Held
  <1>3. ASSUME NEW s \in Irp \ {r}
        PROVE  done'[s] = done[s] /\ disp'[s] = disp[s] /\ (Held(s)' <=> Held(s))
    <2>1. done'[s] = done[s] /\ disp'[s] = disp[s]
      BY UartAssumption
      DEF IInv, QueuedAreLive, HoldersAtWork, OneHolder, OnceDone, TypeOK, IrpTypes,
          DpcTypes, PnpTypes
    <2>2. Held(s)' <=> Held(s)
      BY UartAssumption
      DEF IInv, QueuedAreLive, HoldersAtWork, OneHolder, OnceDone, TypeOK, IrpTypes,
          DpcTypes, PnpTypes, Held
    <2> QED
      BY <2>1, <2>2
  <1>4. IrpState[r] = "owned" /\ IrpState'[r] = "completed"
    BY <1>1, <1>2 DEF IrpState
  <1> QED
    BY <1>3, <1>4, SameState, OneMoves DEF Irps!Next, Irps!Complete

(* ReadCopies: an IRP is completed.                                        *)
LEMMA ReadCopiesMoves ==
    ASSUME IInv, NEW r \in Irp, ReadCopies(r) PROVE Irps!Next
  <1> USE UartAssumption DEF ReadCopies, Dispatch, CompleteIrp, DeviceUnchanged
  <1>1. done[r] = 0 /\ disp[r] \notin {"none", "returned"}
    BY UartAssumption
    DEF IInv, QueuedAreLive, HoldersAtWork, OneHolder, OnceDone, TypeOK, IrpTypes,
        DpcTypes, PnpTypes, Held, Queued
  <1>2. done'[r] = 1
    BY <1>1
    DEF IInv, QueuedAreLive, HoldersAtWork, OneHolder, OnceDone, TypeOK, IrpTypes,
        DpcTypes, PnpTypes, Held
  <1>3. ASSUME NEW s \in Irp \ {r}
        PROVE  done'[s] = done[s] /\ disp'[s] = disp[s] /\ (Held(s)' <=> Held(s))
    <2>1. done'[s] = done[s] /\ disp'[s] = disp[s]
      BY UartAssumption
      DEF IInv, QueuedAreLive, HoldersAtWork, OneHolder, OnceDone, TypeOK, IrpTypes,
          DpcTypes, PnpTypes
    <2>2. Held(s)' <=> Held(s)
      BY UartAssumption
      DEF IInv, QueuedAreLive, HoldersAtWork, OneHolder, OnceDone, TypeOK, IrpTypes,
          DpcTypes, PnpTypes, Held
    <2> QED
      BY <2>1, <2>2
  <1>4. IrpState[r] = "owned" /\ IrpState'[r] = "completed"
    BY <1>1, <1>2 DEF IrpState
  <1> QED
    BY <1>3, <1>4, SameState, OneMoves DEF Irps!Next, Irps!Complete

(* ReadQueues: an IRP is parked.                                           *)
LEMMA ReadQueuesMoves ==
    ASSUME IInv, NEW r \in Irp, ReadQueues(r) PROVE Irps!Next
  <1> USE UartAssumption DEF ReadQueues, Dispatch, DeviceUnchanged
  <1>1. done[r] = 0 /\ disp[r] \notin {"none", "returned"} /\ ~Held(r)
    BY UartAssumption
    DEF IInv, QueuedAreLive, HoldersAtWork, OneHolder, OnceDone, TypeOK, IrpTypes,
        DpcTypes, PnpTypes, Held, Queued
  <1>2. done'[r] = 0 /\ disp'[r] = "returned" /\ ~Held(r)'
    BY <1>1
    DEF IInv, QueuedAreLive, HoldersAtWork, OneHolder, OnceDone, TypeOK, IrpTypes,
        DpcTypes, PnpTypes, Held
  <1>3. ASSUME NEW s \in Irp \ {r}
        PROVE  done'[s] = done[s] /\ disp'[s] = disp[s] /\ (Held(s)' <=> Held(s))
    <2>1. done'[s] = done[s] /\ disp'[s] = disp[s]
      BY UartAssumption
      DEF IInv, QueuedAreLive, HoldersAtWork, OneHolder, OnceDone, TypeOK, IrpTypes,
          DpcTypes, PnpTypes
    <2>2. Held(s)' <=> Held(s)
      BY UartAssumption
      DEF IInv, QueuedAreLive, HoldersAtWork, OneHolder, OnceDone, TypeOK, IrpTypes,
          DpcTypes, PnpTypes, Held
    <2> QED
      BY <2>1, <2>2
  <1>4. IrpState[r] = "owned" /\ IrpState'[r] = "parked"
    BY <1>1, <1>2 DEF IrpState
  <1> QED
    BY <1>3, <1>4, SameState, OneMoves DEF Irps!Next, Irps!Park

(* CancelFinds: an IRP is taken.                                           *)
LEMMA CancelFindsMoves ==
    ASSUME IInv, NEW r \in Irp, CancelFinds(r) PROVE Irps!Next
  <1> USE UartAssumption DEF CancelFinds, CancelStep, DeviceUnchanged
  <1>1. done[r] = 0 /\ disp[r] = "returned" /\ ~Held(r)
    BY UartAssumption
    DEF IInv, QueuedAreLive, HoldersAtWork, OneHolder, OnceDone, TypeOK, IrpTypes,
        DpcTypes, PnpTypes, Held, Queued
  <1>2. done'[r] = 0 /\ Held(r)' /\ disp'[r] = "returned"
    BY <1>1
    DEF IInv, QueuedAreLive, HoldersAtWork, OneHolder, OnceDone, TypeOK, IrpTypes,
        DpcTypes, PnpTypes, Held
  <1>3. ASSUME NEW s \in Irp \ {r}
        PROVE  done'[s] = done[s] /\ disp'[s] = disp[s] /\ (Held(s)' <=> Held(s))
    <2>1. done'[s] = done[s] /\ disp'[s] = disp[s]
      BY UartAssumption
      DEF IInv, QueuedAreLive, HoldersAtWork, OneHolder, OnceDone, TypeOK, IrpTypes,
          DpcTypes, PnpTypes
    <2>2. Held(s)' <=> Held(s)
      BY UartAssumption
      DEF IInv, QueuedAreLive, HoldersAtWork, OneHolder, OnceDone, TypeOK, IrpTypes,
          DpcTypes, PnpTypes, Held
    <2> QED
      BY <2>1, <2>2
  <1>4. IrpState[r] = "parked" /\ IrpState'[r] = "owned"
    BY <1>1, <1>2 DEF IrpState
  <1> QED
    BY <1>3, <1>4, SameState, OneMoves DEF Irps!Next, Irps!Take

(* CancelCompletes: an IRP is completed.                                   *)
LEMMA CancelCompletesMoves ==
    ASSUME IInv, NEW r \in Irp, CancelCompletes(r) PROVE Irps!Next
  <1> USE UartAssumption DEF CancelCompletes, CancelStep, CompleteIrp, DeviceUnchanged
  <1>1. done[r] = 0 /\ Held(r) /\ disp[r] = "returned"
    BY UartAssumption
    DEF IInv, QueuedAreLive, HoldersAtWork, OneHolder, OnceDone, TypeOK, IrpTypes,
        DpcTypes, PnpTypes, Held, Queued
  <1>2. done'[r] = 1
    BY <1>1
    DEF IInv, QueuedAreLive, HoldersAtWork, OneHolder, OnceDone, TypeOK, IrpTypes,
        DpcTypes, PnpTypes, Held
  <1>3. ASSUME NEW s \in Irp \ {r}
        PROVE  done'[s] = done[s] /\ disp'[s] = disp[s] /\ (Held(s)' <=> Held(s))
    <2>1. done'[s] = done[s] /\ disp'[s] = disp[s]
      BY UartAssumption
      DEF IInv, QueuedAreLive, HoldersAtWork, OneHolder, OnceDone, TypeOK, IrpTypes,
          DpcTypes, PnpTypes
    <2>2. Held(s)' <=> Held(s)
      BY UartAssumption
      DEF IInv, QueuedAreLive, HoldersAtWork, OneHolder, OnceDone, TypeOK, IrpTypes,
          DpcTypes, PnpTypes, Held
    <2> QED
      BY <2>1, <2>2
  <1>4. IrpState[r] = "owned" /\ IrpState'[r] = "completed"
    BY <1>1, <1>2 DEF IrpState
  <1> QED
    BY <1>3, <1>4, SameState, OneMoves DEF Irps!Next, Irps!Complete

(* DpcTakes: an IRP is taken.                                              *)
LEMMA DpcTakesMoves ==
    ASSUME IInv, NEW c \in Cpu, DpcTakes(c) PROVE Irps!Next
  <1> USE UartAssumption DEF DpcTakes, DispatchUnchanged
  <1>0. PICK r \in Irp : r = Head(queue)
    BY TailEntries
    DEF IInv, QueuedAreLive, HoldersAtWork, OneHolder, OnceDone, TypeOK, IrpTypes,
        DpcTypes, PnpTypes
  <1>1. done[r] = 0 /\ disp[r] = "returned" /\ ~Held(r)
    BY <1>0, TailEntries, UartAssumption
    DEF IInv, QueuedAreLive, HoldersAtWork, OneHolder, OnceDone, TypeOK, IrpTypes,
        DpcTypes, PnpTypes, Held, Queued
  <1>2. done'[r] = 0 /\ Held(r)' /\ disp'[r] = "returned"
    BY <1>0, TailEntries, <1>1
    DEF IInv, QueuedAreLive, HoldersAtWork, OneHolder, OnceDone, TypeOK, IrpTypes,
        DpcTypes, PnpTypes, Held
  <1>3. ASSUME NEW s \in Irp \ {r}
        PROVE  done'[s] = done[s] /\ disp'[s] = disp[s] /\ (Held(s)' <=> Held(s))
    <2>1. done'[s] = done[s] /\ disp'[s] = disp[s]
      BY <1>0, UartAssumption
      DEF IInv, QueuedAreLive, HoldersAtWork, OneHolder, OnceDone, TypeOK, IrpTypes,
          DpcTypes, PnpTypes
    <2>2. Held(s)' <=> Held(s)
      <3>1. dpc[c].irp = NoIrp
        BY DEF IInv, HoldersAtWork
      <3>2. \A d \in Cpu : dpc'[d].irp = IF d = c THEN r ELSE dpc[d].irp
        BY <1>0 DEF IInv, TypeOK, DpcTypes
      <3>3. UNCHANGED <<cancel, pnp>> /\ s # NoIrp
        BY UartAssumption
      <3>4. (\E d \in Cpu : dpc'[d].irp = s) <=> (\E d \in Cpu : dpc[d].irp = s)
        BY <3>1, <3>2, <3>3
      <3> QED
        BY <3>3, <3>4 DEF Held
    <2> QED
      BY <2>1, <2>2
  <1>4. IrpState[r] = "parked" /\ IrpState'[r] = "owned"
    BY <1>1, <1>2 DEF IrpState
  <1> QED
    BY <1>3, <1>4, SameState, OneMoves DEF Irps!Next, Irps!Take

(* DpcCompletes: an IRP is completed.                                      *)
LEMMA DpcCompletesMoves ==
    ASSUME IInv, NEW c \in Cpu, DpcCompletes(c) PROVE Irps!Next
  <1> USE UartAssumption DEF DpcCompletes, CompleteIrp, IdleDpc, DispatchUnchanged
  <1>0. PICK r \in Irp : r = dpc[c].irp
    BY DEF IInv, QueuedAreLive, HoldersAtWork, OneHolder, OnceDone, TypeOK, IrpTypes,
        DpcTypes, PnpTypes
  <1>1. done[r] = 0 /\ Held(r) /\ disp[r] = "returned"
    BY <1>0, UartAssumption
    DEF IInv, QueuedAreLive, HoldersAtWork, OneHolder, OnceDone, TypeOK, IrpTypes,
        DpcTypes, PnpTypes, Held, Queued
  <1>2. done'[r] = 1
    BY <1>0, <1>1
    DEF IInv, QueuedAreLive, HoldersAtWork, OneHolder, OnceDone, TypeOK, IrpTypes,
        DpcTypes, PnpTypes, Held
  <1>3. ASSUME NEW s \in Irp \ {r}
        PROVE  done'[s] = done[s] /\ disp'[s] = disp[s] /\ (Held(s)' <=> Held(s))
    <2>1. done'[s] = done[s] /\ disp'[s] = disp[s]
      BY <1>0, UartAssumption
      DEF IInv, QueuedAreLive, HoldersAtWork, OneHolder, OnceDone, TypeOK, IrpTypes,
          DpcTypes, PnpTypes
    <2>2. Held(s)' <=> Held(s)
      BY <1>0, UartAssumption
      DEF IInv, QueuedAreLive, HoldersAtWork, OneHolder, OnceDone, TypeOK, IrpTypes,
          DpcTypes, PnpTypes, Held
    <2> QED
      BY <2>1, <2>2
  <1>4. IrpState[r] = "owned" /\ IrpState'[r] = "completed"
    BY <1>1, <1>2 DEF IrpState
  <1> QED
    BY <1>3, <1>4, SameState, OneMoves DEF Irps!Next, Irps!Complete

(* StopTakes: an IRP is taken.                                             *)
LEMMA StopTakesMoves ==
    ASSUME IInv, StopTakes PROVE Irps!Next
  <1> USE UartAssumption DEF StopTakes, PnpGoto, DispatchUnchanged
  <1>0. PICK r \in Irp : r = Head(queue)
    BY TailEntries
    DEF IInv, QueuedAreLive, HoldersAtWork, OneHolder, OnceDone, TypeOK, IrpTypes,
        DpcTypes, PnpTypes
  <1>1. done[r] = 0 /\ disp[r] = "returned" /\ ~Held(r)
    BY <1>0, TailEntries, UartAssumption
    DEF IInv, QueuedAreLive, HoldersAtWork, OneHolder, OnceDone, TypeOK, IrpTypes,
        DpcTypes, PnpTypes, Held, Queued
  <1>2. done'[r] = 0 /\ Held(r)' /\ disp'[r] = "returned"
    BY <1>0, TailEntries, <1>1
    DEF IInv, QueuedAreLive, HoldersAtWork, OneHolder, OnceDone, TypeOK, IrpTypes,
        DpcTypes, PnpTypes, Held
  <1>3. ASSUME NEW s \in Irp \ {r}
        PROVE  done'[s] = done[s] /\ disp'[s] = disp[s] /\ (Held(s)' <=> Held(s))
    <2>1. done'[s] = done[s] /\ disp'[s] = disp[s]
      BY <1>0, UartAssumption
      DEF IInv, QueuedAreLive, HoldersAtWork, OneHolder, OnceDone, TypeOK, IrpTypes,
          DpcTypes, PnpTypes
    <2>2. Held(s)' <=> Held(s)
      BY <1>0, TailEntries, UartAssumption
      DEF IInv, QueuedAreLive, HoldersAtWork, OneHolder, OnceDone, TypeOK, IrpTypes,
          DpcTypes, PnpTypes, Held
    <2> QED
      BY <2>1, <2>2
  <1>4. IrpState[r] = "parked" /\ IrpState'[r] = "owned"
    BY <1>1, <1>2 DEF IrpState
  <1> QED
    BY <1>3, <1>4, SameState, OneMoves DEF Irps!Next, Irps!Take

(* StopCompletes: an IRP is completed.                                     *)
LEMMA StopCompletesMoves ==
    ASSUME IInv, StopCompletes PROVE Irps!Next
  <1> USE UartAssumption DEF StopCompletes, PnpGoto, CompleteIrp, DispatchUnchanged
  <1>0. PICK r \in Irp : r = pnp.irp
    BY DEF IInv, QueuedAreLive, HoldersAtWork, OneHolder, OnceDone, TypeOK, IrpTypes,
        DpcTypes, PnpTypes
  <1>1. done[r] = 0 /\ Held(r) /\ disp[r] = "returned"
    BY <1>0, UartAssumption
    DEF IInv, QueuedAreLive, HoldersAtWork, OneHolder, OnceDone, TypeOK, IrpTypes,
        DpcTypes, PnpTypes, Held, Queued
  <1>2. done'[r] = 1
    BY <1>0, <1>1
    DEF IInv, QueuedAreLive, HoldersAtWork, OneHolder, OnceDone, TypeOK, IrpTypes,
        DpcTypes, PnpTypes, Held
  <1>3. ASSUME NEW s \in Irp \ {r}
        PROVE  done'[s] = done[s] /\ disp'[s] = disp[s] /\ (Held(s)' <=> Held(s))
    <2>1. done'[s] = done[s] /\ disp'[s] = disp[s]
      BY <1>0, UartAssumption
      DEF IInv, QueuedAreLive, HoldersAtWork, OneHolder, OnceDone, TypeOK, IrpTypes,
          DpcTypes, PnpTypes
    <2>2. Held(s)' <=> Held(s)
      BY <1>0, UartAssumption
      DEF IInv, QueuedAreLive, HoldersAtWork, OneHolder, OnceDone, TypeOK, IrpTypes,
          DpcTypes, PnpTypes, Held
    <2> QED
      BY <2>1, <2>2
  <1>4. IrpState[r] = "owned" /\ IrpState'[r] = "completed"
    BY <1>1, <1>2 DEF IrpState
  <1> QED
    BY <1>3, <1>4, SameState, OneMoves DEF Irps!Next, Irps!Complete

(* RemoveTakes: an IRP is taken.                                           *)
LEMMA RemoveTakesMoves ==
    ASSUME IInv, RemoveTakes PROVE Irps!Next
  <1> USE UartAssumption DEF RemoveTakes, PnpGoto, DispatchUnchanged
  <1>0. PICK r \in Irp : r = Head(queue)
    BY TailEntries
    DEF IInv, QueuedAreLive, HoldersAtWork, OneHolder, OnceDone, TypeOK, IrpTypes,
        DpcTypes, PnpTypes
  <1>1. done[r] = 0 /\ disp[r] = "returned" /\ ~Held(r)
    BY <1>0, TailEntries, UartAssumption
    DEF IInv, QueuedAreLive, HoldersAtWork, OneHolder, OnceDone, TypeOK, IrpTypes,
        DpcTypes, PnpTypes, Held, Queued
  <1>2. done'[r] = 0 /\ Held(r)' /\ disp'[r] = "returned"
    BY <1>0, TailEntries, <1>1
    DEF IInv, QueuedAreLive, HoldersAtWork, OneHolder, OnceDone, TypeOK, IrpTypes,
        DpcTypes, PnpTypes, Held
  <1>3. ASSUME NEW s \in Irp \ {r}
        PROVE  done'[s] = done[s] /\ disp'[s] = disp[s] /\ (Held(s)' <=> Held(s))
    <2>1. done'[s] = done[s] /\ disp'[s] = disp[s]
      BY <1>0, UartAssumption
      DEF IInv, QueuedAreLive, HoldersAtWork, OneHolder, OnceDone, TypeOK, IrpTypes,
          DpcTypes, PnpTypes
    <2>2. Held(s)' <=> Held(s)
      BY <1>0, TailEntries, UartAssumption
      DEF IInv, QueuedAreLive, HoldersAtWork, OneHolder, OnceDone, TypeOK, IrpTypes,
          DpcTypes, PnpTypes, Held
    <2> QED
      BY <2>1, <2>2
  <1>4. IrpState[r] = "parked" /\ IrpState'[r] = "owned"
    BY <1>1, <1>2 DEF IrpState
  <1> QED
    BY <1>3, <1>4, SameState, OneMoves DEF Irps!Next, Irps!Take

(* RemoveCompletes: an IRP is completed.                                   *)
LEMMA RemoveCompletesMoves ==
    ASSUME IInv, RemoveCompletes PROVE Irps!Next
  <1> USE UartAssumption DEF RemoveCompletes, PnpGoto, CompleteIrp, DispatchUnchanged
  <1>0. PICK r \in Irp : r = pnp.irp
    BY DEF IInv, QueuedAreLive, HoldersAtWork, OneHolder, OnceDone, TypeOK, IrpTypes,
        DpcTypes, PnpTypes
  <1>1. done[r] = 0 /\ Held(r) /\ disp[r] = "returned"
    BY <1>0, UartAssumption
    DEF IInv, QueuedAreLive, HoldersAtWork, OneHolder, OnceDone, TypeOK, IrpTypes,
        DpcTypes, PnpTypes, Held, Queued
  <1>2. done'[r] = 1
    BY <1>0, <1>1
    DEF IInv, QueuedAreLive, HoldersAtWork, OneHolder, OnceDone, TypeOK, IrpTypes,
        DpcTypes, PnpTypes, Held
  <1>3. ASSUME NEW s \in Irp \ {r}
        PROVE  done'[s] = done[s] /\ disp'[s] = disp[s] /\ (Held(s)' <=> Held(s))
    <2>1. done'[s] = done[s] /\ disp'[s] = disp[s]
      BY <1>0, UartAssumption
      DEF IInv, QueuedAreLive, HoldersAtWork, OneHolder, OnceDone, TypeOK, IrpTypes,
          DpcTypes, PnpTypes
    <2>2. Held(s)' <=> Held(s)
      BY <1>0, UartAssumption
      DEF IInv, QueuedAreLive, HoldersAtWork, OneHolder, OnceDone, TypeOK, IrpTypes,
          DpcTypes, PnpTypes, Held
    <2> QED
      BY <2>1, <2>2
  <1>4. IrpState[r] = "owned" /\ IrpState'[r] = "completed"
    BY <1>1, <1>2 DEF IrpState
  <1> QED
    BY <1>3, <1>4, SameState, OneMoves DEF Irps!Next, Irps!Complete

(* A step that leaves done and the holders alone, and no dispatch routine  *)
(* lets go of an IRP, moves none.                                          *)
LEMMA SameStates ==
    ASSUME UNCHANGED done,
           \A s \in Irp : /\ Held(s)' <=> Held(s)
                          /\ \/ disp'[s] = disp[s]
                             \/ {disp'[s], disp[s]} \subseteq {"try", "empty", "armed"}
    PROVE  UNCHANGED IrpState
  <1>1. ASSUME NEW s \in Irp PROVE IrpState'[s] = IrpState[s]
    BY <1>1 DEF IrpState
  <1> QED
    BY <1>1 DEF IrpState

(* The steps of the model that are stutters of the contract.               *)
LEMMA Stutters ==
    ASSUME IInv,
           \/ \E r \in Irp : \/ ReadFindsNothing(r) \/ ReadArmsCancel(r)
                             \/ IoCancelIrp(r) \/ CancelMisses(r)
           \/ \E n \in 0 .. MaxBytes : Isr(n) \/ \E c \in Cpu : DpcStarts(c, n)
           \/ \E c \in Cpu : DpcEnds(c)
           \/ \E op \in Request : StopDisconnects(op)
           \/ StopFlushed \/ StopFrees \/ RemoveDeletes
           \/ StartConnects \/ StartInitializes \/ UNCHANGED vars
    PROVE  UNCHANGED IrpState
  <1> USE UartAssumption
      DEF IInv, TypeOK, IrpTypes, DpcTypes, PnpTypes, HoldersAtWork, Held,
          DeviceUnchanged, DispatchUnchanged
  <1>1. ASSUME NEW r \in Irp, ReadFindsNothing(r) \/ ReadArmsCancel(r)
        PROVE  UNCHANGED IrpState
    <2>1. UNCHANGED <<done, dpc, pnp>>
      BY <1>1 DEF ReadFindsNothing, ReadArmsCancel
    <2>2. \A s \in Irp :
             cancel'[s] = cancel[s] \/ {cancel'[s], cancel[s]} \cap {"found"} = {}
      BY <1>1 DEF ReadFindsNothing, ReadArmsCancel, Dispatch, OneHolder
    <2>3. \A s \in Irp :
             disp'[s] = disp[s] \/ {disp'[s], disp[s]} \subseteq {"try", "empty", "armed"}
      BY <1>1 DEF ReadFindsNothing, ReadArmsCancel, Dispatch
    <2> QED
      BY <2>1, <2>2, <2>3, SameStates
  <1>2. ASSUME NEW r \in Irp, IoCancelIrp(r) \/ CancelMisses(r) PROVE UNCHANGED IrpState
    <2>1. UNCHANGED <<done, dpc, pnp, disp>>
      BY <1>2 DEF IoCancelIrp, CancelMisses
    <2>2. \A s \in Irp :
             cancel'[s] = cancel[s] \/ {cancel'[s], cancel[s]} \cap {"found"} = {}
      BY <1>2 DEF IoCancelIrp, CancelMisses, CancelStep
    <2> QED
      BY <2>1, <2>2, SameStates
  <1>3. CASE \E n \in 0 .. MaxBytes : Isr(n)
    BY <1>3, SameStates DEF Isr
  <1>4. ASSUME NEW c \in Cpu, DpcEnds(c) \/ \E n \in 0 .. MaxBytes : DpcStarts(c, n)
        PROVE  UNCHANGED IrpState
    <2>1. UNCHANGED <<done, disp, cancel, pnp>>
      BY <1>4 DEF DpcStarts, DpcEnds
    <2>2. dpc[c].irp = NoIrp
      BY <1>4 DEF DpcStarts, DpcEnds
    <2>3. \A d \in Cpu : dpc'[d].irp = IF d = c THEN NoIrp ELSE dpc[d].irp
      BY <1>4 DEF DpcStarts, DpcEnds, IdleDpc
    <2> QED
      BY <2>1, <2>2, <2>3, SameStates
  <1>5. CASE \/ \E op \in Request : StopDisconnects(op)
             \/ StopFlushed \/ StopFrees \/ RemoveDeletes
             \/ StartConnects \/ StartInitializes
    <2>1. UNCHANGED <<done, disp, cancel, dpc>>
      BY <1>5 DEF StopDisconnects, StopFlushed, StopFrees, RemoveDeletes, StartConnects,
         StartInitializes
    <2>2. pnp.irp = NoIrp
      BY <1>5 DEF StopDisconnects, StopFlushed, StopFrees, RemoveDeletes, StartConnects,
         StartInitializes
    <2>3. pnp'.irp = NoIrp
      <3>1. CASE StartConnects \/ \E op \in Request : StopDisconnects(op)
        BY <3>1 DEF StopDisconnects, StartConnects
      <3>2. CASE StopFlushed \/ StopFrees \/ RemoveDeletes \/ StartInitializes
        <4>1. \E pc : PnpGoto(pc, NoIrp)
          BY <3>2 DEF StopFlushed, StopFrees, RemoveDeletes, StartInitializes
        <4> QED
          BY <4>1 DEF PnpGoto
      <3> QED
        BY <1>5, <3>1, <3>2
    <2> QED
      BY <2>1, <2>2, <2>3, SameStates
  <1>6. CASE UNCHANGED vars
    BY <1>6, SameStates DEF vars
  <1> QED
    BY <1>1, <1>2, <1>3, <1>4, <1>5, <1>6

(* For any number of reads and processors, each read IRP has one owner at  *)
(* a time and is completed at most once.                                   *)
THEOREM ReadsHonourContract == Spec => HonoursContract
  <1>1. Init => Irps!Init
    <2> SUFFICES ASSUME Init PROVE Irps!Init
      OBVIOUS
    <2>1. \A r \in Irp : done[r] = 0 /\ disp[r] = "none"
      BY DEF Init
    <2> QED
      BY <2>1 DEF Irps!Init, IrpState
  <1>2. IInv /\ [Next]_vars => [Irps!Next]_IrpState
    <2> SUFFICES ASSUME IInv, [Next]_vars PROVE Irps!Next \/ UNCHANGED IrpState
      OBVIOUS
    <2>1. ASSUME NEW r \in Irp, ReadStep(r) \/ IoCancelIrp(r) \/ CancelRoutine(r)
          PROVE  Irps!Next \/ UNCHANGED IrpState
      BY <2>1, ReadMoves, ReadFailsMoves, ReadCopiesMoves, ReadQueuesMoves,
         CancelFindsMoves, CancelCompletesMoves, Stutters DEF ReadStep, CancelRoutine
    <2>2. ASSUME NEW c \in Cpu, DpcRoutine(c) PROVE Irps!Next \/ UNCHANGED IrpState
      BY <2>2, DpcTakesMoves, DpcCompletesMoves, Stutters DEF DpcRoutine
    <2>3. CASE \E n \in 0 .. MaxBytes : Isr(n) \/ \E c \in Cpu : DpcStarts(c, n)
      BY <2>3, Stutters
    <2>4. CASE \E op \in Request : StopDisconnects(op)
      BY <2>4, Stutters
    <2>5. CASE StopDevice \/ RemoveDevice
      BY <2>5, StopTakesMoves, StopCompletesMoves, RemoveTakesMoves,
         RemoveCompletesMoves,
         Stutters DEF StopDevice, RemoveDevice
    <2>6. CASE StartConnects \/ StartInitializes \/ UNCHANGED vars
      BY <2>6, Stutters
    <2> QED
      BY <2>1, <2>2, <2>3, <2>4, <2>5, <2>6 DEF Next
  <1> QED
    BY <1>1, <1>2, InitIInv, NextIInv, PTL DEF Spec, HonoursContract, Irps!Spec
=============================================================================
