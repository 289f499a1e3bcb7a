--------------------------- MODULE GpioIrqProofs ---------------------------
(***************************************************************************)
(* Proofs about GpioIrq, for any pins, processors and callers: acknowledged *)
(* pins are not forgotten, latched pins are served, the ISR finds its      *)
(* registers mapped and pin writes do not undo each other.                 *)
(***************************************************************************)
EXTENDS GpioIrq, TLAPS

(* What the proofs need to know about the shape of the state.              *)
Shape ==
    /\ stat \subseteq Pin /\ inten \subseteq Pin /\ out \subseteq Pin /\ pending \subseteq Pin
    /\ regLock \in Cpu \cup {NoCpu}
    /\ isr \in [Cpu -> [at : IsrSteps, bits : SUBSET Pin]]
    /\ low \in [Cpu -> [at : LowSteps, bits : SUBSET Pin]]
    /\ call \in [Caller -> [at : CallSteps, op : Ops \cup {NoOp},
                            cpu : Cpu \cup {NoCpu}, reg : SUBSET Pin]]
    /\ pnp \in [at : PnpSteps, removing : BOOLEAN, starts : 0..MaxStarts]

InCall(k) == call[k].at \in {"locked", "read"}

(* RegLock has one holder: an ISR past its check, a DPC that drains, or a  *)
(* caller that reads and writes.                                           *)
OneHolder ==
    /\ \A c \in Cpu : isr[c].at \in {"log", "ack"} =>
          regLock = c /\ low[c].at \notin {"drain", "call"}
    /\ \A c \in Cpu : low[c].at \in {"drain", "call"} => regLock = c
    /\ \A k \in Caller : InCall(k) =>
          call[k].cpu \in Cpu /\ low[call[k].cpu].at = "call"
    /\ \A k, l \in Caller : InCall(k) /\ InCall(l) => k = l

(* Only a DPC between its drain and its last entry has pins.               *)
BitsOfDpc == \A c \in Cpu : low[c].at \notin {"mask", "pins"} => low[c].bits = {}

(* When the interrupt may be connected, and when Started is set.           *)
ConnectedWhileUp ==
    /\ \A c \in Cpu : isr[c].at # "no" => connected
    /\ connected => pnp.at \in {"connected", "up", "stop", "dpcRemoved"}
    /\ started <=> pnp.at \in {"up", "stop", "dpcRemoved", "disconnected", "unmapped"}

(* What a caller read of DATA_OUT is still there when it writes.           *)
ReadIsFresh ==
    \A k \in Caller : call[k].at = "read" /\ call[k].op.kind = "write" => call[k].reg = out

IInv ==
    /\ Shape /\ OneHolder /\ BitsOfDpc /\ ConnectedWhileUp /\ ReadIsFresh
    /\ NoPinForgotten /\ LatchedIsServed /\ IsrMapped /\ PinsAsWritten

LEMMA InitEstablishes == Init => IInv
BY GpioAssumption DEF Init, IInv, Shape, OneHolder, InCall, BitsOfDpc, ConnectedWhileUp,
       ReadIsFresh, NoPinForgotten, LatchedIsServed, IsrMapped, PinsAsWritten,
       NoIsr, Idle, Request, NoOp, IsrSteps, LowSteps, CallSteps, PnpSteps

LEMMA PinFiresKeeps ==
    ASSUME IInv, NEW p \in Pin, PinFires(p)
    PROVE  IInv'
BY GpioAssumption DEF PinFires, power, latch, locks, ghost, IInv, Shape,
    OneHolder, InCall, BitsOfDpc, ConnectedWhileUp, ReadIsFresh,
    NoPinForgotten, LatchedIsServed, IsrMapped, PinsAsWritten

LEMMA IsrArrivesKeeps ==
    ASSUME IInv, NEW c \in Cpu, IsrArrives(c)
    PROVE  IInv'
BY GpioAssumption DEF IsrArrives, device, power, latch, locks, ghost, IInv,
    Shape, OneHolder, InCall, BitsOfDpc, ConnectedWhileUp, ReadIsFresh,
    NoPinForgotten, LatchedIsServed, IsrMapped, PinsAsWritten, IsrSteps

LEMMA IsrNotMineKeeps ==
    ASSUME IInv, NEW c \in Cpu, IsrNotMine(c)
    PROVE  IInv'
BY GpioAssumption DEF IsrNotMine, NoIsr, device, power, latch, locks, ghost,
    IInv, Shape, OneHolder, InCall, BitsOfDpc, ConnectedWhileUp, ReadIsFresh,
    NoPinForgotten, LatchedIsServed, IsrMapped, PinsAsWritten, IsrSteps

LEMMA IsrReadsKeeps ==
    ASSUME IInv, NEW c \in Cpu, IsrReads(c)
    PROVE  IInv'
BY GpioAssumption DEF IsrReads, device, power, latch, ghost, IInv, Shape,
    OneHolder, InCall, BitsOfDpc, ConnectedWhileUp, ReadIsFresh,
    NoPinForgotten, LatchedIsServed, IsrMapped, PinsAsWritten, IsrSteps

LEMMA IsrLogsKeeps ==
    ASSUME IInv, NEW c \in Cpu, IsrLogs(c)
    PROVE  IInv'
BY GpioAssumption DEF IsrLogs, device, power, latch, locks, ghost, IInv,
    Shape, OneHolder, InCall, BitsOfDpc, ConnectedWhileUp, ReadIsFresh,
    NoPinForgotten, LatchedIsServed, IsrMapped, PinsAsWritten, IsrSteps

LEMMA IsrLatchesKeeps ==
    ASSUME IInv, NEW c \in Cpu, IsrLatches(c)
    PROVE  IInv'
BY GpioAssumption DEF IsrLatches, Latch, NoIsr, power, IInv, Shape, OneHolder,
    InCall, BitsOfDpc, ConnectedWhileUp, ReadIsFresh, NoPinForgotten,
    LatchedIsServed, IsrMapped, PinsAsWritten, IsrSteps

LEMMA DpcRunsKeeps ==
    ASSUME IInv, NEW c \in Cpu, DpcRuns(c)
    PROVE  IInv'
BY GpioAssumption DEF DpcRuns, device, power, locks, ghost, IInv, Shape,
    OneHolder, InCall, BitsOfDpc, ConnectedWhileUp, ReadIsFresh,
    NoPinForgotten, LatchedIsServed, IsrMapped, PinsAsWritten, LowSteps

LEMMA DpcLocksKeeps ==
    ASSUME IInv, NEW c \in Cpu, DpcLocks(c)
    PROVE  IInv'
BY GpioAssumption DEF DpcLocks, device, power, latch, ghost, IInv, Shape,
    OneHolder, InCall, BitsOfDpc, ConnectedWhileUp, ReadIsFresh,
    NoPinForgotten, LatchedIsServed, IsrMapped, PinsAsWritten, LowSteps

LEMMA DpcDrainsKeeps ==
    ASSUME IInv, NEW c \in Cpu, DpcDrains(c)
    PROVE  IInv'
<1>1. /\ low[c].at = "drain" /\ low[c].bits = {} /\ regLock = c /\ regLock' = NoCpu
      /\ stranded' = FALSE
      /\ UNCHANGED <<stat, inten, out, isr, call, dpcOn, owed, wrote, mapped, connected,
                     started, pnp>>
  BY DEF DpcDrains, device, power, IInv, OneHolder, BitsOfDpc
<1>2. /\ pending' = {}
      /\ \/ pending = {} /\ low' = [low EXCEPT ![c] = Idle]
         \/ pending # {} /\ low' = [low EXCEPT ![c] = [at |-> "mask", bits |-> pending]]
  BY DEF DpcDrains, Taken
<1>3. Shape'
  BY <1>1, <1>2 DEF IInv, Shape, Idle, LowSteps
<1>4. OneHolder' /\ BitsOfDpc'
  <2>1. /\ low'[c].at \notin {"drain", "call"}
        /\ low'[c].at \notin {"mask", "pins"} => low'[c].bits = {}
        /\ \A d \in Cpu \ {c} : low'[d] = low[d]
    BY <1>2 DEF IInv, Shape, Idle
  <2>2. /\ \A d \in Cpu : isr[d].at \notin {"log", "ack"}
        /\ \A d \in Cpu \ {c} : low[d].at \notin {"drain", "call"}
        /\ \A k \in Caller : ~InCall(k)
    BY <1>1 DEF IInv, OneHolder
  <2> QED BY <1>1, <2>1, <2>2 DEF IInv, OneHolder, InCall, BitsOfDpc
<1>5. ConnectedWhileUp' /\ ReadIsFresh' /\ IsrMapped' /\ PinsAsWritten'
  BY <1>1 DEF IInv, ConnectedWhileUp, ReadIsFresh, IsrMapped, PinsAsWritten
<1>6. NoPinForgotten' /\ LatchedIsServed'
  BY <1>1, <1>2 DEF IInv, Shape, NoPinForgotten, LatchedIsServed, Idle
<1> QED BY <1>3, <1>4, <1>5, <1>6 DEF IInv

LEMMA DpcLogLocksKeeps ==
    ASSUME IInv, NEW c \in Cpu, DpcLogLocks(c)
    PROVE  IInv'
BY GpioAssumption DEF DpcLogLocks, device, power, latch, ghost, IInv, Shape,
    OneHolder, InCall, BitsOfDpc, ConnectedWhileUp, ReadIsFresh,
    NoPinForgotten, LatchedIsServed, IsrMapped, PinsAsWritten

LEMMA DpcLogsMaskKeeps ==
    ASSUME IInv, NEW c \in Cpu, DpcLogsMask(c)
    PROVE  IInv'
BY GpioAssumption DEF DpcLogsMask, device, power, latch, ghost, IInv, Shape,
    OneHolder, InCall, BitsOfDpc, ConnectedWhileUp, ReadIsFresh,
    NoPinForgotten, LatchedIsServed, IsrMapped, PinsAsWritten, LowSteps

LEMMA DpcLogsPinKeeps ==
    ASSUME IInv, NEW c \in Cpu, NEW p \in Pin, DpcLogsPin(c, p)
    PROVE  IInv'
BY GpioAssumption DEF DpcLogsPin, Idle, device, power, latch, IInv, Shape,
    OneHolder, InCall, BitsOfDpc, ConnectedWhileUp, ReadIsFresh,
    NoPinForgotten, LatchedIsServed, IsrMapped, PinsAsWritten, LowSteps

LEMMA CallValidatesKeeps ==
    ASSUME IInv, NEW k \in Caller, NEW o \in Ops, CallValidates(k, o)
    PROVE  IInv'
BY GpioAssumption DEF CallValidates, Request, device, power, latch, locks,
    ghost, IInv, Shape, OneHolder, InCall, BitsOfDpc, ConnectedWhileUp,
    ReadIsFresh, NoPinForgotten, LatchedIsServed, IsrMapped, PinsAsWritten,
    CallSteps

LEMMA CallLocksKeeps ==
    ASSUME IInv, NEW k \in Caller, NEW c \in Cpu, CallLocks(k, c)
    PROVE  IInv'
BY GpioAssumption DEF CallLocks, Request, device, power, latch, ghost, IInv,
    Shape, OneHolder, InCall, BitsOfDpc, ConnectedWhileUp, ReadIsFresh,
    NoPinForgotten, LatchedIsServed, IsrMapped, PinsAsWritten, LowSteps,
    CallSteps

LEMMA CallReadsKeeps ==
    ASSUME IInv, NEW k \in Caller, CallReads(k)
    PROVE  IInv'
BY GpioAssumption DEF CallReads, Request, device, power, latch, locks, ghost,
    IInv, Shape, OneHolder, InCall, BitsOfDpc, ConnectedWhileUp, ReadIsFresh,
    NoPinForgotten, LatchedIsServed, IsrMapped, PinsAsWritten, CallSteps

LEMMA CallWritesKeeps ==
    ASSUME IInv, NEW k \in Caller, CallWrites(k)
    PROVE  IInv'
<1> DEFINE o == call[k].op
<1>1. /\ call[k].at = "read" /\ InCall(k) /\ call[k].cpu \in Cpu
      /\ low[call[k].cpu].at = "call" /\ low[call[k].cpu].bits = {}
      /\ regLock = call[k].cpu /\ o \in Ops \cup {NoOp}
      /\ call[k].reg \in SUBSET Pin
  BY DEF CallWrites, IInv, Shape, OneHolder, BitsOfDpc, InCall
<1>2. UNCHANGED <<isr, pending, dpcOn, owed, stranded, mapped, connected, started, pnp>>
  BY DEF CallWrites, power, latch
<1>3. /\ regLock' = NoCpu
      /\ low' = [low EXCEPT ![call[k].cpu] = Idle]
      /\ call' = [call EXCEPT ![k] = Request("done", NoOp, NoCpu, {})]
  BY DEF CallWrites
<1>4. /\ out' = wrote' /\ out' \subseteq Pin /\ inten' \subseteq Pin /\ stat' \subseteq Pin
  <2>1. CASE o.kind = "write"
    <3>1. o \in Ops
      BY <1>1, <2>1 DEF NoOp
    <3>2. o.pin \in Pin
      BY <3>1 DEF Ops
    <3>3. out' = WithPin(out, o) /\ wrote' = WithPin(out, o) /\ UNCHANGED <<inten, stat>>
      BY <1>1, <2>1 DEF CallWrites, IInv, ReadIsFresh, PinsAsWritten
    <3> QED BY <3>2, <3>3 DEF WithPin, IInv, Shape
  <2>2. CASE o.kind # "write"
    <3>1. o.kind = "configure" /\ o \in Ops
      BY <1>1, <2>2 DEF CallWrites, NoOp
    <3>2. o.pin \in Pin
      BY <3>1 DEF Ops
    <3>3. /\ inten' = WithPin(call[k].reg, o) /\ stat' = stat \ {o.pin}
          /\ UNCHANGED <<out, wrote>>
      BY <2>2 DEF CallWrites
    <3> QED BY <1>1, <3>2, <3>3 DEF WithPin, IInv, Shape, PinsAsWritten
  <2> QED BY <2>1, <2>2
<1>5. Shape'
  BY <1>1, <1>2, <1>3, <1>4 DEF IInv, Shape, Request, Idle, LowSteps, CallSteps
<1>6. OneHolder' /\ BitsOfDpc' /\ ReadIsFresh'
  BY <1>1, <1>2, <1>3, GpioAssumption
  DEF IInv, Shape, OneHolder, InCall, BitsOfDpc, ReadIsFresh, Request, Idle
<1>7. ConnectedWhileUp' /\ IsrMapped'
  BY <1>2 DEF IInv, ConnectedWhileUp, IsrMapped
<1>8. NoPinForgotten' /\ LatchedIsServed'
  BY <1>1, <1>2, <1>3 DEF IInv, Shape, NoPinForgotten, LatchedIsServed, Idle
<1> QED BY <1>4, <1>5, <1>6, <1>7, <1>8 DEF IInv, PinsAsWritten

LEMMA StartMapsKeeps ==
    ASSUME IInv, StartMaps
    PROVE  IInv'
BY GpioAssumption DEF StartMaps, device, latch, locks, ghost, IInv, Shape,
    OneHolder, InCall, BitsOfDpc, ConnectedWhileUp, ReadIsFresh,
    NoPinForgotten, LatchedIsServed, IsrMapped, PinsAsWritten, PnpSteps

LEMMA StartClearsKeeps ==
    ASSUME IInv, StartClears
    PROVE  IInv'
BY GpioAssumption DEF StartClears, PnpGoes, latch, locks, ghost, IInv, Shape,
    OneHolder, InCall, BitsOfDpc, ConnectedWhileUp, ReadIsFresh,
    NoPinForgotten, LatchedIsServed, IsrMapped, PinsAsWritten, PnpSteps

LEMMA StartEnablesKeeps ==
    ASSUME IInv, StartEnables
    PROVE  IInv'
BY GpioAssumption DEF StartEnables, PnpGoes, latch, locks, ghost, IInv, Shape,
    OneHolder, InCall, BitsOfDpc, ConnectedWhileUp, ReadIsFresh,
    NoPinForgotten, LatchedIsServed, IsrMapped, PinsAsWritten, PnpSteps

LEMMA StartConnectsKeeps ==
    ASSUME IInv, StartConnects
    PROVE  IInv'
BY GpioAssumption DEF StartConnects, PnpGoes, device, latch, locks, ghost,
    IInv, Shape, OneHolder, InCall, BitsOfDpc, ConnectedWhileUp, ReadIsFresh,
    NoPinForgotten, LatchedIsServed, IsrMapped, PinsAsWritten, PnpSteps

LEMMA StartFinishesKeeps ==
    ASSUME IInv, StartFinishes
    PROVE  IInv'
BY GpioAssumption DEF StartFinishes, PnpGoes, device, latch, locks, ghost,
    IInv, Shape, OneHolder, InCall, BitsOfDpc, ConnectedWhileUp, ReadIsFresh,
    NoPinForgotten, LatchedIsServed, IsrMapped, PinsAsWritten, PnpSteps

LEMMA StopBeginsKeeps ==
    ASSUME IInv, StopBegins
    PROVE  IInv'
BY GpioAssumption DEF StopBegins, PnpGoes, device, latch, locks, ghost, IInv,
    Shape, OneHolder, InCall, BitsOfDpc, ConnectedWhileUp, ReadIsFresh,
    NoPinForgotten, LatchedIsServed, IsrMapped, PinsAsWritten, PnpSteps

LEMMA RemoveBeginsKeeps ==
    ASSUME IInv, RemoveBegins
    PROVE  IInv'
BY GpioAssumption DEF RemoveBegins, latch, locks, ghost, IInv, Shape,
    OneHolder, InCall, BitsOfDpc, ConnectedWhileUp, ReadIsFresh,
    NoPinForgotten, LatchedIsServed, IsrMapped, PinsAsWritten, PnpSteps

LEMMA StopRemovesDpcKeeps ==
    ASSUME IInv, StopRemovesDpc
    PROVE  IInv'
BY GpioAssumption DEF StopRemovesDpc, PnpGoes, device, locks, IInv, Shape,
    OneHolder, InCall, BitsOfDpc, ConnectedWhileUp, ReadIsFresh,
    NoPinForgotten, LatchedIsServed, IsrMapped, PinsAsWritten, PnpSteps

LEMMA StopDisconnectsKeeps ==
    ASSUME IInv, StopDisconnects
    PROVE  IInv'
BY GpioAssumption DEF StopDisconnects, PnpGoes, device, latch, locks, ghost,
    IInv, Shape, OneHolder, InCall, BitsOfDpc, ConnectedWhileUp, ReadIsFresh,
    NoPinForgotten, LatchedIsServed, IsrMapped, PinsAsWritten, PnpSteps

LEMMA StopUnmapsKeeps ==
    ASSUME IInv, StopUnmaps
    PROVE  IInv'
BY GpioAssumption DEF StopUnmaps, PnpGoes, device, latch, locks, ghost, IInv,
    Shape, OneHolder, InCall, BitsOfDpc, ConnectedWhileUp, ReadIsFresh,
    NoPinForgotten, LatchedIsServed, IsrMapped, PinsAsWritten, PnpSteps

LEMMA StopFinishesKeeps ==
    ASSUME IInv, StopFinishes
    PROVE  IInv'
BY GpioAssumption DEF StopFinishes, PnpGoes, device, latch, locks, ghost,
    IInv, Shape, OneHolder, InCall, BitsOfDpc, ConnectedWhileUp, ReadIsFresh,
    NoPinForgotten, LatchedIsServed, IsrMapped, PinsAsWritten, PnpSteps

LEMMA RemoveFlushesKeeps ==
    ASSUME IInv, RemoveFlushes
    PROVE  IInv'
BY GpioAssumption DEF RemoveFlushes, PnpGoes, device, latch, locks, ghost,
    IInv, Shape, OneHolder, InCall, BitsOfDpc, ConnectedWhileUp, ReadIsFresh,
    NoPinForgotten, LatchedIsServed, IsrMapped, PinsAsWritten, PnpSteps

LEMMA StepKeeps == IInv /\ [Next]_vars => IInv'
<1> SUFFICES ASSUME IInv, [Next]_vars PROVE IInv'
  OBVIOUS
<1>1. CASE UNCHANGED vars
  BY <1>1 DEF vars, device, power, latch, locks, ghost, IInv, Shape, OneHolder, InCall,
    BitsOfDpc, ConnectedWhileUp, ReadIsFresh, NoPinForgotten, LatchedIsServed, IsrMapped,
    PinsAsWritten
<1>2. ASSUME NEW p \in Pin, PinFires(p) PROVE IInv'
  BY <1>2, PinFiresKeeps
<1>3. ASSUME NEW c \in Cpu, Isr(c) PROVE IInv'
  BY <1>3, IsrArrivesKeeps, IsrNotMineKeeps, IsrReadsKeeps, IsrLogsKeeps, IsrLatchesKeeps
  DEF Isr
<1>4. ASSUME NEW c \in Cpu, Dpc(c) PROVE IInv'
  BY <1>4, DpcRunsKeeps, DpcLocksKeeps, DpcDrainsKeeps, DpcLogLocksKeeps, DpcLogsMaskKeeps,
     DpcLogsPinKeeps DEF Dpc
<1>5. ASSUME NEW k \in Caller, Call(k) PROVE IInv'
  BY <1>5, CallValidatesKeeps, CallLocksKeeps, CallReadsKeeps, CallWritesKeeps DEF Call
<1>6. CASE Pnp
  BY <1>6, StartMapsKeeps, StartClearsKeeps, StartEnablesKeeps, StartConnectsKeeps,
     StartFinishesKeeps, StopBeginsKeeps, RemoveBeginsKeeps, StopRemovesDpcKeeps,
     StopDisconnectsKeeps, StopUnmapsKeeps, StopFinishesKeeps, RemoveFlushesKeeps DEF Pnp
<1> QED BY <1>1, <1>2, <1>3, <1>4, <1>5, <1>6 DEF Next

(* An acknowledged pin is latched or with a DPC until a DPC has logged it, *)
(* and while pins are latched a DPC is coming, unless a stop took it away: *)
(* the ISR's latch and the DPC's drain meet under RegLock                  *)
(* (gpioctrl_isr.c:107-112, 139-143).                                      *)
THEOREM PinsReachTheDpc == Spec => [](NoPinForgotten /\ LatchedIsServed)
<1>1. IInv => NoPinForgotten /\ LatchedIsServed
  BY DEF IInv
<1> QED BY <1>1, InitEstablishes, StepKeeps, PTL DEF Spec

(* The disconnection keeps the ISR off unmapped registers (gpioctrl.c:910, *)
(* 967), and RegLock keeps pin writes from undoing each other              *)
(* (gpioctrl_io.c:134-142).                                                *)
THEOREM RegistersAreSafe == Spec => [](IsrMapped /\ PinsAsWritten)
<1>1. IInv => IsrMapped /\ PinsAsWritten
  BY DEF IInv
<1> QED BY <1>1, InitEstablishes, StepKeeps, PTL DEF Spec

(* What the ISR has latched does not wait without a DPC, whatever the other*)
(* processors and the PnP thread do (gpioctrl_isr.c:110-112).              *)
THEOREM LatchedPinsAreServed == Spec => []LatchedIsServed
BY PinsReachTheDpc, PTL

(* The ISR never reads registers that a stop has unmapped                  *)
(* (gpioctrl_isr.c:94, gpioctrl.c:910, 967).                               *)
THEOREM IsrFindsRegisters == Spec => []IsrMapped
BY RegistersAreSafe, PTL
=============================================================================
