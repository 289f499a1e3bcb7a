--------------------------- MODULE XferEngineProofs ---------------------------
(***************************************************************************)
(* What the transfer engine keeps, for any number of requests, CPUs and    *)
(* stops.  EngInv says why a stop leaves the engine quiet: nothing enters  *)
(* it once the device is marked, a CPU seen idle by the flush stays out,   *)
(* and what is put down after the flush stays down.  EngTicketsInv says    *)
(* why a request is ended once: the right to end it is in one place.       *)
(***************************************************************************)
EXTENDS XferEngine, FiniteSetTheorems, TLAPS

(* A DPC routine that is past the Stopping check and may still arm the     *)
(* transfer context or its timer.                                          *)
Into == {"pick", "zero", "arm", "timer", "issue", "retry"}

(* The steps of a DPC that has a request in hand.                          *)
InHand == {"drained", "zero", "arm", "timer", "issue", "cancel", "finish", "timeout",
           "retry", "timedOut", "notReady", "failed"}

EngTypes ==
    /\ TypeOK
    /\ \A c \in Cpu : cpu[c].pc \in InHand => cpu[c].irp \in Request

(* Once the stop path has marked the device, nothing enters the engine; a  *)
(* CPU that the flush has seen idle stays out; and what the stop path has  *)
(* put down after the flush stays down.                                    *)
EngStops ==
    /\ pnp.pc # "running" => stopping /\ ~started
    /\ pnp.pc # "flush" => flushed = {}
    /\ pnp.pc = "flush" => \A c \in flushed : cpu[c].pc \notin Into
    /\ pnp.pc \in {"cancel", "fence", "complete", "reset", "stopped"} =>
           \A c \in Cpu : cpu[c].pc \notin Into
    /\ pnp.pc \in {"fence", "complete", "reset", "stopped"} => timer = "off"
    /\ pnp.pc \in {"complete", "reset", "stopped"} => xc.irp = NoIrp /\ ~busy

EngInv == EngTypes /\ EngStops /\ BusyWhileActive

(* A CPU on its way to make r the active irp, or about to fail it.         *)
Claims(c, r) == cpu[c].irp = r /\ cpu[c].pc \in {"zero", "arm", "failed"}

Unclaimed(r) == xc.irp # r /\ pnp.irp # r /\ \A c \in Cpu : ~Claims(c, r)

Ended(r) == \E i \in DOMAIN done[r] : done[r][i] \in {"timeout", "stop"}

EndedOnce(r) ==
    \A i, j \in DOMAIN done[r] :
        done[r][i] \in {"timeout", "stop"} /\ done[r][j] \in {"timeout", "stop"} => i = j

(* A request waits in one place of one queue at most, inserted, not ended  *)
(* and in nobody's hands.                                                  *)
EngQueued ==
    /\ \A p, q \in Class : \A i \in DOMAIN queue[p], j \in DOMAIN queue[q] :
           queue[p][i] = queue[q][j] => p = q /\ i = j
    /\ \A p \in Class : \A i \in DOMAIN queue[p] : \A r \in Request :
           queue[p][i] = r => r \in inserted /\ ~Ended(r) /\ Unclaimed(r)

(* The right to end a request is held once: by the context, by the stop    *)
(* path or by one CPU, and by nobody once it has been used.                *)
EngTickets ==
    \A r \in Request :
        /\ r \notin inserted => Unclaimed(r) /\ ~Ended(r)
        /\ Ended(r) => Unclaimed(r)
        /\ EndedOnce(r)
        /\ xc.irp = r => pnp.irp # r
        /\ xc.irp = r \/ pnp.irp = r => \A c \in Cpu : ~Claims(c, r)
        /\ \A c, d \in Cpu : Claims(c, r) /\ Claims(d, r) => c = d

-----------------------------------------------------------------------------
(* The queues keep their types.                                            *)
LEMMA EngQueueTypes ==
    ASSUME QTypeOK, NEW p \in Class, NEW r,
           \/ r \in Request /\ QueueInsert(r, p)
           \/ Pick(p, r)
           \/ DrainOne(p, r)
    PROVE  QTypeOK' /\ r \in Request
  <1> USE DEF QTypeOK
  <1>1. CASE r \in Request /\ QueueInsert(r, p)
    BY <1>1 DEF QueueInsert
  <1>2. ASSUME Waiting(p), r = Head(queue[p]), RemoveHead(p)
        PROVE  r \in Request /\ queue' \in [Class -> Seq(Request)]
    <2>1. queue[p] \in Seq(Request) /\ queue[p] # <<>>
      BY <1>2 DEF Waiting
    <2>2. Head(queue[p]) \in Request /\ Tail(queue[p]) \in Seq(Request)
      BY <2>1
    <2> QED
      BY <1>2, <2>2 DEF RemoveHead
  <1>3. CASE Pick(p, r)
    <2>1. Waiting(p) /\ r = Head(queue[p]) /\ RemoveHead(p)
      BY <1>3 DEF Pick, Picked, Eligible
    <2>2. \A n \in 0 .. UlongSize - 1 : UlongInc(n) \in 0 .. UlongSize - 1
      BY ONLY BurstAssumption DEF UlongInc
    <2>3. burst' \in [Class -> 0 .. UlongSize - 1]
      BY <1>3, <2>2, BurstAssumption DEF Pick, BurstsAfter
    <2> QED
      BY <1>2, <2>1, <2>3
  <1>4. CASE DrainOne(p, r)
    BY <1>2, <1>4 DEF DrainOne
  <1> QED
    BY <1>1, <1>3, <1>4

(* A DPC's next step, with the request it holds, is one of its steps.      *)
LEMMA EngGoto ==
    ASSUME EngTypes, NEW c \in Cpu, NEW pc \in DpcPc, NEW r \in Request \cup {NoIrp},
           pc \in InHand => r \in Request, Goto(c, pc, r)
    PROVE  /\ cpu' \in [Cpu -> [pc : DpcPc, irp : Request \cup {NoIrp}]]
           /\ \A d \in Cpu : cpu'[d].pc \in InHand => cpu'[d].irp \in Request
           /\ \A d \in Cpu : cpu'[d] = IF d = c THEN [pc |-> pc, irp |-> r] ELSE cpu[d]
  BY DEF EngTypes, TypeOK, Goto

(* A CPU whose routine ends holds no request.                              *)
LEMMA EngReturn ==
    ASSUME EngTypes, NEW c \in Cpu, Return(c)
    PROVE  /\ cpu' \in [Cpu -> [pc : DpcPc, irp : Request \cup {NoIrp}]]
           /\ \A d \in Cpu : cpu'[d].pc \in InHand => cpu'[d].irp \in Request
           /\ \A d \in Cpu : cpu'[d] = IF d = c THEN Idle ELSE cpu[d]
  <1>1. "idle" \in DpcPc /\ "idle" \notin InHand
    BY DEF DpcPc, InHand
  <1> QED
    BY <1>1, EngGoto DEF Return, Idle

(* Completing a request lengthens its history.                             *)
LEMMA EngComplete ==
    ASSUME EngTypes, NEW r \in Request, NEW who \in Actor, CompleteIrp(r, who)
    PROVE  /\ done' \in [Request -> Seq(Actor)]
           /\ \A s \in Request \ {r} : done'[s] = done[s]
           /\ done'[r] = Append(done[r], who)
  BY DEF EngTypes, TypeOK, CompleteIrp

-----------------------------------------------------------------------------
(* The fields no DPC writes are as they were.                              *)
EngRest == UNCHANGED <<inserted, started, stopping, seq, pnp, flushed, count>>

(* The CPUs keep their types.                                              *)
EngCpus ==
    /\ cpu \in [Cpu -> [pc : DpcPc, irp : Request \cup {NoIrp}]]
    /\ \A c \in Cpu : cpu[c].pc \in InHand => cpu[c].irp \in Request

XcType == [irp : Request \cup {NoIrp}, buf : {"none", "set", "ready"}, retry : Nat,
           completed : BOOLEAN,
           status : {"SUCCESS", "PENDING", "TIMEOUT", "ERROR", "CANCELLED", "NOT_READY"}]

(* Every step of the queue DPC keeps the types.                            *)
LEMMA EngQueueDpcTypes ==
    ASSUME EngTypes, NEW c \in Cpu, QueueDpc(c)
    PROVE  EngTypes'
  <1> USE DEF At, QueueUnchanged, ThreadUnchanged, FlagsUnchanged
  <1>q. EngTypes => QTypeOK /\ inserted \subseteq Request /\ xc \in XcType
                    /\ done \in [Request -> Seq(Actor)]
    BY DEF EngTypes, TypeOK, XcType
  <1>a. ASSUME NEW r \in Request, Detach(r) PROVE xc' \in XcType /\ busy' \in BOOLEAN
    <2>1. CASE xc.irp = r
      BY <1>a, <1>q, <2>1 DEF Detach, XcType
    <2>2. CASE xc.irp # r
      BY <1>a, <1>q, <2>2 DEF Detach, XcType, EngTypes, TypeOK
    <2> QED
      BY <2>1, <2>2
  <1>z. ASSUME ZeroContext PROVE xc' \in XcType /\ timer' \in {"off", "xcTimeout", "fdoTimeout"}
    BY <1>z DEF ZeroContext, ZeroXc, XcType, EngTypes, TypeOK
  <1>1. CASE StartQueueDpc(c)
    <2>1. \E pc \in {"pick", "drain"} : Goto(c, pc, NoIrp)
      BY <1>1 DEF StartQueueDpc
    <2>2. EngCpus'
      BY <2>1, EngGoto DEF EngCpus, DpcPc, InHand
    <2> QED
      BY <1>1, <2>2 DEF StartQueueDpc, EngTypes, EngCpus, TypeOK, QTypeOK
  <1>2. CASE QueueDpcDrain(c)
    <2>1. CASE \E p \in Class, r \in Request : DrainOne(p, r) /\ Goto(c, "drained", r)
      <3>1. PICK p \in Class, r \in Request : DrainOne(p, r) /\ Goto(c, "drained", r)
        BY <2>1
      <3>2. EngCpus'
        BY <3>1, EngGoto DEF EngCpus, DpcPc, InHand
      <3>3. QTypeOK'
        BY <3>1, <1>q, EngQueueTypes
      <3> QED
        BY <1>2, <3>2, <3>3 DEF QueueDpcDrain, EngTypes, EngCpus, TypeOK
    <2>2. CASE Return(c) /\ UNCHANGED <<queue, burst>>
      <3>1. EngCpus'
        BY <2>2, EngReturn DEF EngCpus
      <3> QED
        BY <1>2, <2>2, <3>1 DEF QueueDpcDrain, EngTypes, EngCpus, TypeOK, QTypeOK
    <2> QED
      BY <1>2, <2>1, <2>2 DEF QueueDpcDrain
  <1>3. CASE QueueDpcDrained(c) \/ QueueDpcFinish(c)
    <2>1. /\ cpu[c].irp \in Request /\ Detach(cpu[c].irp) /\ Return(c)
          /\ \E who \in Actor : CompleteIrp(cpu[c].irp, who)
          /\ UNCHANGED <<timer, kdpc, isrDpc, queue, burst, inserted, event>> /\ EngRest
      BY <1>3 DEF QueueDpcDrained, QueueDpcFinish, EngTypes, InHand, Actor, EngRest
    <2>2. EngCpus'
      BY <2>1, EngReturn DEF EngCpus
    <2>3. done' \in [Request -> Seq(Actor)]
      BY <2>1, EngComplete
    <2> QED
      BY <1>a, <2>1, <2>2, <2>3 DEF EngTypes, EngCpus, TypeOK, QTypeOK, XcType, EngRest
  <1>4. CASE QueueDpcPick(c)
    <2>1. CASE \E p \in Class, r \in Request : Pick(p, r) /\ Goto(c, "zero", r)
      <3>1. PICK p \in Class, r \in Request : Pick(p, r) /\ Goto(c, "zero", r)
        BY <2>1
      <3>2. EngCpus'
        BY <3>1, EngGoto DEF EngCpus, DpcPc, InHand
      <3>3. QTypeOK'
        BY <3>1, <1>q, EngQueueTypes
      <3> QED
        BY <1>4, <3>2, <3>3 DEF QueueDpcPick, EngTypes, EngCpus, TypeOK
    <2>2. CASE Return(c) /\ UNCHANGED <<queue, burst>>
      <3>1. EngCpus'
        BY <2>2, EngReturn DEF EngCpus
      <3> QED
        BY <1>4, <2>2, <3>1 DEF QueueDpcPick, EngTypes, EngCpus, TypeOK, QTypeOK
    <2> QED
      BY <1>4, <2>1, <2>2 DEF QueueDpcPick
  <1>5. CASE QueueDpcZero(c)
    <2>1. EngCpus'
      BY <1>5, EngGoto DEF QueueDpcZero, EngCpus, DpcPc, InHand, EngTypes
    <2> QED
      BY <1>5, <1>z, <2>1 DEF QueueDpcZero, EngTypes, EngCpus, TypeOK, QTypeOK, XcType
  <1>6. CASE QueueDpcArm(c)
    <2>1. EngCpus' /\ cpu[c].irp \in Request
      BY <1>6, EngGoto DEF QueueDpcArm, EngCpus, DpcPc, InHand, EngTypes
    <2>2. xc' \in XcType
      BY <1>6, <1>q, <2>1 DEF QueueDpcArm, XcType
    <2> QED
      BY <1>6, <2>1, <2>2 DEF QueueDpcArm, EngTypes, EngCpus, TypeOK, QTypeOK, XcType
  <1>7. CASE QueueDpcTimer(c)
    <2>1. EngCpus'
      BY <1>7, EngGoto DEF QueueDpcTimer, EngCpus, DpcPc, InHand, EngTypes
    <2> QED
      BY <1>7, <2>1 DEF QueueDpcTimer, EngTypes, EngCpus, TypeOK, QTypeOK
  <1>8. CASE QueueDpcIssue(c)
    <2>1. EngCpus'
      <3>1. CASE Return(c)
        BY <3>1, EngReturn DEF EngCpus
      <3>2. CASE Goto(c, "cancel", cpu[c].irp)
        BY <1>8, <3>2, EngGoto DEF QueueDpcIssue, EngCpus, DpcPc, InHand, EngTypes
      <3> QED
        BY <1>8, <3>1, <3>2 DEF QueueDpcIssue
    <2> QED
      BY <1>8, <2>1 DEF QueueDpcIssue, EngTypes, EngCpus, TypeOK, QTypeOK
  <1>9. CASE QueueDpcCancelTimer(c)
    <2>1. EngCpus'
      BY <1>9, EngGoto DEF QueueDpcCancelTimer, EngCpus, DpcPc, InHand, EngTypes
    <2> QED
      BY <1>9, <2>1 DEF QueueDpcCancelTimer, EngTypes, EngCpus, TypeOK, QTypeOK
  <1> QED
    BY <1>1, <1>2, <1>3, <1>4, <1>5, <1>6, <1>7, <1>8, <1>9 DEF QueueDpc

-----------------------------------------------------------------------------
(* Every step of the timeout DPC keeps the types.                          *)
LEMMA EngTimeoutDpcTypes ==
    ASSUME EngTypes, NEW c \in Cpu, TimeoutDpc(c)
    PROVE  EngTypes'
  <1> USE DEF At, QueueUnchanged, ThreadUnchanged, FlagsUnchanged
  <1>q. xc \in XcType /\ busy \in BOOLEAN /\ kdpc \subseteq {"queue", "xcTimeout", "fdoTimeout"}
    BY DEF EngTypes, TypeOK, XcType
  <1>1. CASE \E k \in kdpc : StartTimeoutDpc(c, k)
    <2>1. PICK k \in kdpc : StartTimeoutDpc(c, k)
      BY <1>1
    <2>2. EngCpus'
      <3>1. CASE xc.irp # NoIrp /\ busy
        <4>1. Goto(c, "timeout", xc.irp) /\ xc.irp \in Request
          BY <1>q, <2>1, <3>1 DEF StartTimeoutDpc, XcType
        <4> QED
          BY <4>1, EngGoto DEF EngCpus, DpcPc, InHand
      <3>2. CASE ~(xc.irp # NoIrp /\ busy)
        BY <2>1, <3>2 DEF StartTimeoutDpc, EngCpus, EngTypes, TypeOK
      <3> QED
        BY <3>1, <3>2
    <2>3. kdpc' \subseteq {"queue", "xcTimeout", "fdoTimeout"}
      BY <1>q, <2>1 DEF StartTimeoutDpc
    <2> QED
      BY <2>1, <2>2, <2>3 DEF StartTimeoutDpc, EngTypes, EngCpus, TypeOK, QTypeOK
  <1>2. CASE TimeoutDpcDecide(c)
    <2>1. /\ \E pc \in {"notReady", "retry", "timedOut"} : Goto(c, pc, cpu[c].irp)
          /\ cpu[c].irp \in Request
      BY <1>2 DEF TimeoutDpcDecide, EngTypes, InHand
    <2>2. EngCpus'
      BY <2>1, EngGoto DEF EngCpus, DpcPc
    <2> QED
      BY <1>2, <2>2 DEF TimeoutDpcDecide, EngTypes, EngCpus, TypeOK, QTypeOK
  <1>3. CASE TimeoutDpcRetry(c)
    <2>1. EngCpus'
      BY <1>3, EngReturn DEF TimeoutDpcRetry, EngCpus
    <2>2. xc' \in XcType
      BY <1>3, <1>q DEF TimeoutDpcRetry, XcType
    <2>3. kdpc' \subseteq {"queue", "xcTimeout", "fdoTimeout"}
      BY <1>3, <1>q DEF TimeoutDpcRetry, QueueKick
    <2> QED
      BY <1>3, <2>1, <2>2, <2>3 DEF TimeoutDpcRetry, EngTypes, EngCpus, TypeOK, QTypeOK, XcType
  <1>4. CASE TimeoutDpcFail(c)
    <2>1. CASE xc.irp = cpu[c].irp
      <3>1. EngCpus'
        BY <1>4, <2>1, EngGoto DEF TimeoutDpcFail, EngCpus, DpcPc, InHand, EngTypes
      <3>2. xc' \in XcType /\ busy' \in BOOLEAN
        BY <1>4, <1>q, <2>1 DEF TimeoutDpcFail, XcType
      <3> QED
        BY <1>4, <3>1, <3>2 DEF TimeoutDpcFail, EngTypes, EngCpus, TypeOK, QTypeOK, XcType
    <2>2. CASE xc.irp # cpu[c].irp
      <3>1. EngCpus'
        BY <1>4, <2>2, EngReturn DEF TimeoutDpcFail, EngCpus
      <3> QED
        BY <1>4, <2>2, <3>1 DEF TimeoutDpcFail, EngTypes, EngCpus, TypeOK, QTypeOK
    <2> QED
      BY <2>1, <2>2
  <1>5. CASE TimeoutDpcFailed(c)
    <2>1. EngCpus'
      BY <1>5, EngReturn DEF TimeoutDpcFailed, EngCpus
    <2>2. done' \in [Request -> Seq(Actor)]
      <3>1. cpu[c].irp \in Request /\ CompleteIrp(cpu[c].irp, "timeout")
        BY <1>5 DEF TimeoutDpcFailed, EngTypes, InHand
      <3> QED
        BY <3>1, EngComplete DEF Actor
    <2> QED
      BY <1>5, <2>1, <2>2 DEF TimeoutDpcFailed, EngTypes, EngCpus, TypeOK, QTypeOK
  <1> QED
    BY <1>1, <1>2, <1>3, <1>4, <1>5 DEF TimeoutDpc

(* Every step of the interrupt DPC keeps the types.                        *)
LEMMA EngIsrDpcTypes ==
    ASSUME EngTypes, NEW c \in Cpu, IsrDpc(c)
    PROVE  EngTypes'
  <1> USE DEF At, QueueUnchanged, ThreadUnchanged, FlagsUnchanged
  <1>q. xc \in XcType /\ isrDpc \in {"none", "STOP", "ABORT", "OTHER"}
    BY DEF EngTypes, TypeOK, XcType
  <1>1. CASE StartIsrDpc(c)
    <2>1. EngCpus' /\ xc' \in XcType
      <3>1. CASE UNCHANGED <<xc, cpu>>
        BY <1>q, <3>1 DEF EngCpus, EngTypes, TypeOK
      <3>2. CASE /\ Goto(c, "isr", NoIrp)
                 /\ \E s \in {"SUCCESS", "ERROR"} : xc' = [xc EXCEPT !.status = s]
        <4>0. "isr" \in DpcPc \ InHand
          BY DEF DpcPc, InHand
        <4>1. EngCpus'
          BY <3>2, <4>0, EngGoto DEF EngCpus
        <4> QED
          BY <1>q, <3>2, <4>1 DEF XcType
      <3> QED
        BY <1>1, <3>1, <3>2 DEF StartIsrDpc
    <2> QED
      BY <1>1, <2>1 DEF StartIsrDpc, EngTypes, EngCpus, TypeOK, QTypeOK, XcType
  <1>2. CASE IsrDpcCancelTimer(c)
    <2>1. EngCpus'
      BY <1>2, EngGoto DEF IsrDpcCancelTimer, EngCpus, DpcPc, InHand
    <2> QED
      BY <1>2, <2>1 DEF IsrDpcCancelTimer, EngTypes, EngCpus, TypeOK, QTypeOK
  <1>3. CASE IsrDpcClaim(c)
    <2>1. EngCpus'
      <3>1. CASE Return(c)
        BY <3>1, EngReturn DEF EngCpus
      <3>2. CASE Goto(c, "xchg", NoIrp)
        <4>0. "xchg" \in DpcPc \ InHand
          BY DEF DpcPc, InHand
        <4> QED
          BY <3>2, <4>0, EngGoto DEF EngCpus
      <3> QED
        BY <1>3, <3>1, <3>2 DEF IsrDpcClaim
    <2>2. xc' \in XcType
      BY <1>3, <1>q DEF IsrDpcClaim, XcType
    <2> QED
      BY <1>3, <2>1, <2>2 DEF IsrDpcClaim, EngTypes, EngCpus, TypeOK, QTypeOK, XcType
  <1>4. CASE IsrDpcComplete(c)
    <2>1. EngCpus'
      BY <1>4, EngReturn DEF IsrDpcComplete, EngCpus
    <2>2. xc' \in XcType
      BY <1>4, <1>q DEF IsrDpcComplete, XcType
    <2>3. done' \in [Request -> Seq(Actor)] /\ event' \in BOOLEAN
      <3>1. CASE xc.irp # NoIrp
        <4>1. xc.irp \in Request /\ CompleteIrp(xc.irp, "isr") /\ event' = TRUE
          BY <1>4, <1>q, <3>1 DEF IsrDpcComplete, XcType
        <4> QED
          BY <4>1, EngComplete DEF Actor
      <3>2. CASE xc.irp = NoIrp
        BY <1>4, <3>2 DEF IsrDpcComplete, EngTypes, TypeOK
      <3> QED
        BY <3>1, <3>2
    <2> QED
      BY <1>4, <2>1, <2>2, <2>3 DEF IsrDpcComplete, EngTypes, EngCpus, TypeOK, QTypeOK, XcType
  <1> QED
    BY <1>1, <1>2, <1>3, <1>4 DEF IsrDpc

(* And so does every step of the world outside the DPCs: callers, timers,  *)
(* the interrupt, the sequence thread and the PnP thread.                  *)
LEMMA EngThreadTypes ==
    ASSUME EngTypes,
           \/ \E r \in Request, p \in Priority : Insert(r, p)
           \/ TimerExpires
           \/ \E cause \in {"STOP", "ABORT", "OTHER"} : Isr(cause)
           \/ Sequence \/ StopMark \/ StopDevice \/ StartDevice
    PROVE  EngTypes'
  <1> USE DEF At, QueueUnchanged, ThreadUnchanged, FlagsUnchanged, PnpStep
  <1>q. /\ xc \in XcType /\ isrDpc \in {"none", "STOP", "ABORT", "OTHER"}
        /\ kdpc \subseteq {"queue", "xcTimeout", "fdoTimeout"}
        /\ timer \in {"off", "xcTimeout", "fdoTimeout"}
        /\ count \in [interrupts : Nat, sequences : Nat, stops : Nat]
        /\ pnp \in [pc : PnpPc, irp : Request \cup {NoIrp}]
        /\ QTypeOK /\ inserted \subseteq Request
    BY DEF EngTypes, TypeOK, XcType
  <1>0. ZeroXc \in XcType
    BY DEF ZeroXc, XcType
  <1>k. UNCHANGED cpu => EngCpus'
    BY DEF EngCpus, EngTypes, TypeOK
  <1>1. ASSUME NEW r \in Request, NEW p \in Priority, Insert(r, p) PROVE EngTypes'
    <2>1. QTypeOK'
      BY <1>q, <1>1, EngQueueTypes, EngineAssumption DEF Insert
    <2>2. inserted' \subseteq Request /\ kdpc' \subseteq {"queue", "xcTimeout", "fdoTimeout"}
      BY <1>q, <1>1 DEF Insert, QueueKick
    <2> QED
      BY <1>1, <1>k, <2>1, <2>2 DEF Insert, EngTypes, EngCpus, TypeOK
  <1>2. CASE TimerExpires
    <2>1. kdpc' \subseteq {"queue", "xcTimeout", "fdoTimeout"}
      BY <1>q, <1>2 DEF TimerExpires
    <2> QED
      BY <1>2, <1>k, <2>1 DEF TimerExpires, EngTypes, EngCpus, TypeOK, QTypeOK
  <1>3. ASSUME NEW cause \in {"STOP", "ABORT", "OTHER"}, Isr(cause) PROVE EngTypes'
    <2>1. /\ count' \in [interrupts : Nat, sequences : Nat, stops : Nat]
          /\ isrDpc' \in {"none", "STOP", "ABORT", "OTHER"}
      BY <1>q, <1>3 DEF Isr
    <2> QED
      BY <1>3, <1>k, <2>1 DEF Isr, EngTypes, EngCpus, TypeOK, QTypeOK
  <1>4. CASE SequenceSetup
    <2>1. /\ count' \in [interrupts : Nat, sequences : Nat, stops : Nat]
          /\ timer' \in {"off", "xcTimeout", "fdoTimeout"}
      BY <1>q, <1>4 DEF SequenceSetup
    <2>2. xc' \in XcType
      BY <1>4 DEF SequenceSetup, XcType, ZeroXc
    <2> QED
      BY <1>4, <1>k, <2>1, <2>2 DEF SequenceSetup, EngTypes, EngCpus, TypeOK, QTypeOK, XcType
  <1>5. CASE SequenceStart
    <2>1. xc' \in XcType /\ event' \in BOOLEAN /\ seq' \in {"idle", "set", "wait"}
      <3>1. CASE started /\ ~stopping /\ xc.buf # "none"
        <4>1. /\ xc' = [xc EXCEPT !.buf = "ready", !.status = "PENDING"]
              /\ event' = FALSE /\ seq' = "wait"
          BY <1>5, <3>1 DEF SequenceStart
        <4> QED
          BY <1>q, <4>1 DEF XcType
      <3>2. CASE ~(started /\ ~stopping /\ xc.buf # "none")
        BY <1>q, <1>5, <3>2 DEF SequenceStart, EngTypes, TypeOK
      <3> QED
        BY <3>1, <3>2
    <2> QED
      BY <1>5, <1>k, <2>1 DEF SequenceStart, EngTypes, EngCpus, TypeOK, QTypeOK, XcType
  <1>6. CASE SequenceReturn
    <2>1. \E s \in {"TIMEOUT", xc.status} : xc' = [xc EXCEPT !.status = s]
      BY <1>6 DEF SequenceReturn
    <2>2. xc' \in XcType
      BY <1>q, <2>1 DEF XcType
    <2> QED
      BY <1>6, <1>k, <2>2 DEF SequenceReturn, EngTypes, EngCpus, TypeOK, QTypeOK, XcType
  <1>7. CASE StopMark
    <2>1. /\ count' \in [interrupts : Nat, sequences : Nat, stops : Nat]
          /\ pnp' \in [pc : PnpPc, irp : Request \cup {NoIrp}]
      BY <1>q, <1>7 DEF StopMark, PnpPc
    <2>2. /\ started' \in BOOLEAN /\ stopping' \in BOOLEAN
          /\ UNCHANGED <<queue, burst, inserted, done, busy, xc, timer, kdpc, isrDpc, cpu, seq,
                         event, flushed>>
      BY <1>7 DEF StopMark
    <2> QED
      BY <1>k, <2>1, <2>2 DEF EngTypes, EngCpus, TypeOK, QTypeOK
  <1>8. CASE StopRemoveDpcs \/ StopDisconnect \/ StopQuiesce \/ StopCancelTimer
    <2>1. \E pc \in PnpPc : pnp' = [pnp EXCEPT !.pc = pc]
      BY <1>8 DEF StopRemoveDpcs, StopDisconnect, StopQuiesce, StopCancelTimer, PnpPc
    <2>2. pnp' \in [pc : PnpPc, irp : Request \cup {NoIrp}]
      BY <1>q, <2>1
    <2>3. /\ kdpc' \subseteq {"queue", "xcTimeout", "fdoTimeout"}
          /\ isrDpc' \in {"none", "STOP", "ABORT", "OTHER"}
          /\ timer' \in {"off", "xcTimeout", "fdoTimeout"} /\ busy' \in BOOLEAN
          /\ UNCHANGED <<queue, burst, inserted, done, xc, cpu, started, stopping, flushed,
                         count, seq, event>>
      BY <1>q, <1>8 DEF StopRemoveDpcs, StopDisconnect, StopQuiesce, StopCancelTimer,
                        EngTypes, TypeOK
    <2> QED
      BY <1>k, <2>2, <2>3 DEF EngTypes, EngCpus, TypeOK, QTypeOK
  <1>9. ASSUME NEW c \in Cpu, StopFlush(c) PROVE EngTypes'
    <2>1. pnp' \in [pc : PnpPc, irp : Request \cup {NoIrp}] /\ flushed' \subseteq Cpu
      <3>1. CASE flushed \cup {c} = Cpu
        BY <1>q, <1>9, <3>1 DEF StopFlush, PnpPc
      <3>2. CASE flushed \cup {c} # Cpu
        BY <1>q, <1>9, <3>2 DEF StopFlush, EngTypes, TypeOK
      <3> QED
        BY <3>1, <3>2
    <2> QED
      BY <1>9, <1>k, <2>1 DEF StopFlush, EngTypes, EngCpus, TypeOK, QTypeOK
  <1>10. CASE StopFence
    <2>1. pnp' \in [pc : PnpPc, irp : Request \cup {NoIrp}] /\ xc' \in XcType
      BY <1>q, <1>10 DEF StopFence, PnpPc, XcType
    <2> QED
      BY <1>10, <1>k, <2>1 DEF StopFence, EngTypes, EngCpus, TypeOK, QTypeOK, XcType
  <1>11. CASE StopComplete
    <2>1. pnp' \in [pc : PnpPc, irp : Request \cup {NoIrp}]
      BY <1>11 DEF StopComplete, PnpPc
    <2>2. done' \in [Request -> Seq(Actor)] /\ event' \in BOOLEAN
      <3>1. CASE pnp.irp # NoIrp
        <4>1. pnp.irp \in Request /\ CompleteIrp(pnp.irp, "stop") /\ event' = TRUE
          BY <1>11, <1>q, <3>1 DEF StopComplete
        <4> QED
          BY <4>1, EngComplete DEF Actor
      <3>2. CASE pnp.irp = NoIrp
        BY <1>11, <3>2 DEF StopComplete, EngTypes, TypeOK
      <3> QED
        BY <3>1, <3>2
    <2> QED
      BY <1>11, <1>k, <2>1, <2>2 DEF StopComplete, EngTypes, EngCpus, TypeOK, QTypeOK
  <1>12. CASE StopReset \/ StartDevice
    <2>1. \E pc \in PnpPc : pnp' = [pnp EXCEPT !.pc = pc]
      BY <1>12 DEF StopReset, StartDevice, PnpPc
    <2>2. pnp' \in [pc : PnpPc, irp : Request \cup {NoIrp}]
      BY <1>q, <2>1
    <2>3. xc' \in XcType /\ timer' \in {"off", "xcTimeout", "fdoTimeout"}
      BY <1>q, <1>0, <1>12 DEF StopReset, StartDevice, ZeroContext
    <2>4. /\ busy' = FALSE /\ event' = FALSE /\ started' \in BOOLEAN
          /\ stopping' \in {FALSE, stopping}
          /\ UNCHANGED <<queue, burst, inserted, done, kdpc, isrDpc, cpu, flushed, count, seq>>
      BY <1>12 DEF StopReset, StartDevice
    <2> QED
      BY <1>k, <2>2, <2>3, <2>4 DEF EngTypes, EngCpus, TypeOK, QTypeOK, XcType
  <1> QED
    BY <1>1, <1>2, <1>3, <1>4, <1>5, <1>6, <1>7, <1>8, <1>9, <1>10, <1>11, <1>12
    DEF Sequence, StopDevice

(* The types hold at first.                                                *)
LEMMA EngTypesInit == Init => EngTypes
  <1> SUFFICES ASSUME Init PROVE EngTypes
    OBVIOUS
  <1>1. xc \in XcType
    BY DEF Init, ZeroXc, XcType
  <1>2. QTypeOK
    BY BurstAssumption DEF Init, QInit, QTypeOK
  <1>3. EngCpus
    BY DEF Init, Idle, EngCpus, DpcPc, InHand
  <1>4. done \in [Request -> Seq(Actor)]
    BY DEF Init
  <1>5. pnp \in [pc : PnpPc, irp : Request \cup {NoIrp}]
    BY DEF Init, PnpPc
  <1>6. count \in [interrupts : Nat, sequences : Nat, stops : Nat]
    BY DEF Init
  <1>7. /\ {started, stopping, busy, event} \subseteq BOOLEAN /\ inserted = {} /\ timer = "off"
        /\ kdpc = {} /\ isrDpc = "none" /\ seq = "idle" /\ flushed = {}
    BY DEF Init
  <1> QED
    BY <1>1, <1>2, <1>3, <1>4, <1>5, <1>6, <1>7 DEF EngTypes, EngCpus, TypeOK, XcType

(* And every step keeps them.                                             *)
LEMMA EngTypesStep == EngTypes /\ [Next]_vars => EngTypes'
  <1> SUFFICES ASSUME EngTypes, [Next]_vars PROVE EngTypes'
    OBVIOUS
  <1>1. CASE UNCHANGED vars
    BY <1>1 DEF vars, EngTypes, TypeOK, QTypeOK
  <1>2. ASSUME NEW c \in Cpu, Dpc(c) PROVE EngTypes'
    BY <1>2, EngQueueDpcTypes, EngTimeoutDpcTypes, EngIsrDpcTypes DEF Dpc
  <1> QED
    BY <1>1, <1>2, EngThreadTypes DEF Next

-----------------------------------------------------------------------------
EngCalm ==
    /\ UNCHANGED <<pnp, started, stopping, flushed>>
    /\ \A c \in Cpu : cpu'[c].pc \in Into => cpu[c].pc \in Into \/ ~stopping
    /\ timer' \in {timer, "off"} \/ \E c \in Cpu : cpu[c].pc \in Into
    /\ xc'.irp \in {xc.irp, NoIrp} \/ \E c \in Cpu : cpu[c].pc \in Into
    /\ busy' => busy \/ \E c \in Cpu : cpu[c].pc \in Into
    /\ xc'.irp = NoIrp \/ busy' \/ (xc'.irp = xc.irp /\ (busy => busy'))

(* A step outside the PnP thread keeps a stopped device quiet when only a  *)
(* CPU that is in the engine may arm the context or its timer.             *)
LEMMA EngCalmKeeps ==
    ASSUME EngTypes, EngStops, BusyWhileActive, EngCalm
    PROVE  EngStops' /\ BusyWhileActive'
  <1> USE DEF EngStops, EngCalm
  <1>1. UNCHANGED <<pnp, started, stopping, flushed>>
    OBVIOUS
  <1>2. ASSUME pnp.pc # "running" PROVE \A c \in Cpu : cpu'[c].pc \in Into => cpu[c].pc \in Into
    BY <1>2
  <1>3. ASSUME pnp.pc = "flush" PROVE \A c \in flushed' : cpu'[c].pc \notin Into
    BY <1>1, <1>2, <1>3 DEF EngTypes, TypeOK
  <1>4. ASSUME pnp.pc \in {"cancel", "fence", "complete", "reset", "stopped"}
        PROVE  /\ \A c \in Cpu : cpu[c].pc \notin Into /\ cpu'[c].pc \notin Into
               /\ timer' \in {timer, "off"} /\ xc'.irp \in {xc.irp, NoIrp} /\ (busy' => busy)
    BY <1>2, <1>4
  <1>5. BusyWhileActive'
    BY <1>1 DEF BusyWhileActive
  <1> QED
    BY <1>1, <1>3, <1>4, <1>5

(* The steps of a DPC are of this kind.                                    *)
LEMMA EngDpcCalm ==
    ASSUME EngTypes, EngStops, NEW c \in Cpu, Dpc(c)
    PROVE  EngCalm
  <1> USE DEF At, QueueUnchanged, ThreadUnchanged, FlagsUnchanged
  <1>q. /\ xc \in XcType /\ EngCpus
    BY DEF EngTypes, TypeOK, XcType, EngCpus
  <1>g. ASSUME NEW pc, NEW r, Goto(c, pc, r)
        PROVE  \A d \in Cpu : cpu'[d].pc = IF d = c THEN pc ELSE cpu[d].pc
    BY <1>g, <1>q DEF Goto, EngCpus
  <1>r. ASSUME Return(c) PROVE \A d \in Cpu : cpu'[d].pc \in Into => cpu[d].pc \in Into
    BY <1>r, <1>g DEF Return, Into
  <1>d. ASSUME NEW r \in Request, Detach(r)
        PROVE  xc'.irp \in {xc.irp, NoIrp} /\ (busy' => busy) /\ (xc'.irp = NoIrp \/ (busy => busy'))
    BY <1>d, <1>q DEF Detach, XcType
  <1>1. CASE StartQueueDpc(c)
    <2>1. CASE started /\ ~stopping
      <3>1. UNCHANGED <<pnp, started, stopping, flushed, timer, xc, busy>>
        BY <1>1 DEF StartQueueDpc
      <3> QED
        BY <2>1, <3>1 DEF EngCalm
    <2>2. CASE ~(started /\ ~stopping)
      <3>1. Goto(c, "drain", NoIrp) /\ UNCHANGED <<pnp, started, stopping, flushed, timer, xc, busy>>
        BY <1>1, <2>2 DEF StartQueueDpc
      <3> QED
        BY <1>g, <3>1 DEF EngCalm, Into
    <2> QED
      BY <2>1, <2>2
  <1>2. CASE QueueDpcDrain(c)
    <2>1. \A d \in Cpu : cpu'[d].pc \in Into => cpu[d].pc \in Into
      <3>1. CASE Return(c)
        BY <1>r, <3>1
      <3>2. CASE \E r \in Request : Goto(c, "drained", r)
        BY <1>g, <3>2 DEF Into
      <3> QED
        BY <1>2, <3>1, <3>2 DEF QueueDpcDrain
    <2> QED
      BY <1>2, <2>1 DEF QueueDpcDrain, EngCalm
  <1>3. CASE QueueDpcDrained(c) \/ QueueDpcFinish(c)
    <2>1. /\ cpu[c].irp \in Request /\ Detach(cpu[c].irp) /\ Return(c)
          /\ UNCHANGED <<pnp, started, stopping, flushed, timer>>
      BY <1>3 DEF QueueDpcDrained, QueueDpcFinish, EngTypes, InHand
    <2> QED
      BY <1>r, <1>d, <2>1 DEF EngCalm
  <1>4. CASE QueueDpcPick(c)
    <2>1. cpu[c].pc \in Into /\ UNCHANGED <<pnp, started, stopping, flushed, timer, xc, busy>>
      BY <1>4 DEF QueueDpcPick, Into
    <2>2. \A d \in Cpu : cpu'[d].pc \in Into => cpu[d].pc \in Into
      <3>1. CASE Return(c)
        BY <1>r, <3>1
      <3>2. CASE \E r \in Request : Goto(c, "zero", r)
        BY <1>g, <2>1, <3>2
      <3> QED
        BY <1>4, <3>1, <3>2 DEF QueueDpcPick
    <2> QED
      BY <2>1, <2>2 DEF EngCalm
  <1>5. CASE QueueDpcZero(c) \/ QueueDpcArm(c) \/ QueueDpcTimer(c)
    <2>1. /\ cpu[c].pc \in Into /\ UNCHANGED <<pnp, started, stopping, flushed>>
          /\ \E pc \in DpcPc, r \in Request : Goto(c, pc, r)
      BY <1>5, <1>q DEF QueueDpcZero, QueueDpcArm, QueueDpcTimer, Into, EngCpus, InHand, DpcPc
    <2>2. \A d \in Cpu : cpu'[d].pc \in Into => cpu[d].pc \in Into
      BY <1>g, <2>1
    <2>3. xc'.irp = NoIrp \/ busy' \/ (xc'.irp = xc.irp /\ (busy => busy'))
      <3>1. CASE QueueDpcZero(c)
        BY <3>1 DEF QueueDpcZero, ZeroContext, ZeroXc
      <3>2. CASE QueueDpcArm(c)
        BY <3>2 DEF QueueDpcArm
      <3>3. CASE QueueDpcTimer(c)
        BY <3>3 DEF QueueDpcTimer
      <3> QED
        BY <1>5, <3>1, <3>2, <3>3
    <2> QED
      BY <2>1, <2>2, <2>3 DEF EngCalm
  <1>6. CASE QueueDpcIssue(c)
    <2>1. \A d \in Cpu : cpu'[d].pc \in Into => cpu[d].pc \in Into
      <3>1. CASE Return(c)
        BY <1>r, <3>1
      <3>2. CASE Goto(c, "cancel", cpu[c].irp)
        BY <1>g, <3>2 DEF Into
      <3> QED
        BY <1>6, <3>1, <3>2 DEF QueueDpcIssue
    <2> QED
      BY <1>6, <2>1 DEF QueueDpcIssue, EngCalm
  <1>7. CASE QueueDpcCancelTimer(c)
    <2>1. Goto(c, "finish", cpu[c].irp)
      BY <1>7 DEF QueueDpcCancelTimer
    <2>2. \A d \in Cpu : cpu'[d].pc \in Into => cpu[d].pc \in Into
      BY <1>g, <2>1 DEF Into
    <2> QED
      BY <1>7, <2>2 DEF QueueDpcCancelTimer, EngCalm
  <1>8. CASE \E k \in kdpc : StartTimeoutDpc(c, k)
    <2>1. \A d \in Cpu : cpu'[d].pc \in Into => cpu[d].pc \in Into
      <3>1. CASE UNCHANGED cpu
        BY <3>1
      <3>2. CASE Goto(c, "timeout", xc.irp)
        BY <1>g, <3>2 DEF Into
      <3> QED
        BY <1>8, <3>1, <3>2 DEF StartTimeoutDpc
    <2> QED
      BY <1>8, <2>1 DEF StartTimeoutDpc, EngCalm
  <1>9. CASE TimeoutDpcDecide(c)
    <2>1. CASE ~stopping
      BY <1>9, <2>1 DEF TimeoutDpcDecide, EngCalm
    <2>2. CASE stopping
      <3>1. Goto(c, "notReady", cpu[c].irp)
        BY <1>9, <2>2 DEF TimeoutDpcDecide
      <3>2. \A d \in Cpu : cpu'[d].pc \in Into => cpu[d].pc \in Into
        BY <1>g, <3>1 DEF Into
      <3> QED
        BY <1>9, <3>2 DEF TimeoutDpcDecide, EngCalm
    <2> QED
      BY <2>1, <2>2
  <1>10. CASE TimeoutDpcRetry(c)
    <2>1. Return(c) /\ cpu[c].pc \in Into /\ xc'.irp = xc.irp
      BY <1>10, <1>q DEF TimeoutDpcRetry, Into, XcType
    <2>2. \A d \in Cpu : cpu'[d].pc \in Into => cpu[d].pc \in Into
      BY <1>r, <2>1
    <2> QED
      BY <1>10, <2>1, <2>2 DEF TimeoutDpcRetry, EngCalm
  <1>11. CASE TimeoutDpcFail(c)
    <2>1. \A d \in Cpu : cpu'[d].pc \in Into => cpu[d].pc \in Into
      <3>1. CASE Return(c)
        BY <1>r, <3>1
      <3>2. CASE Goto(c, "failed", cpu[c].irp)
        BY <1>g, <3>2 DEF Into
      <3> QED
        BY <1>11, <3>1, <3>2 DEF TimeoutDpcFail
    <2>2. \/ xc'.irp = NoIrp /\ ~busy'
          \/ UNCHANGED <<xc, busy>>
      BY <1>11, <1>q DEF TimeoutDpcFail, XcType
    <2> QED
      BY <1>11, <2>1, <2>2 DEF TimeoutDpcFail, EngCalm
  <1>12. CASE TimeoutDpcFailed(c)
    BY <1>12, <1>r DEF TimeoutDpcFailed, EngCalm
  <1>13. CASE IsrDpc(c)
    <2>1. \A d \in Cpu : cpu'[d].pc \in Into => cpu[d].pc \in Into
      <3>1. CASE Return(c)
        BY <1>r, <3>1
      <3>2. CASE UNCHANGED cpu
        BY <3>2
      <3>3. CASE \E pc \in {"isr", "cas", "xchg"} : Goto(c, pc, NoIrp)
        BY <1>g, <3>3 DEF Into
      <3> QED
        BY <1>13, <3>1, <3>2, <3>3
        DEF IsrDpc, StartIsrDpc, IsrDpcCancelTimer, IsrDpcClaim, IsrDpcComplete
    <2>2. xc'.irp \in {xc.irp, NoIrp} /\ busy' = busy /\ timer' \in {timer, "off"}
      BY <1>13, <1>q DEF IsrDpc, StartIsrDpc, IsrDpcCancelTimer, IsrDpcClaim, IsrDpcComplete,
                         XcType
    <2>3. UNCHANGED <<pnp, started, stopping, flushed>>
      BY <1>13 DEF IsrDpc, StartIsrDpc, IsrDpcCancelTimer, IsrDpcClaim, IsrDpcComplete
    <2> QED
      BY <2>1, <2>2, <2>3 DEF EngCalm
  <1> QED
    BY <1>1, <1>2, <1>3, <1>4, <1>5, <1>6, <1>7, <1>8, <1>9, <1>10, <1>11, <1>12, <1>13
    DEF Dpc, QueueDpc, TimeoutDpc

(* The callers, the timers, the interrupt and the sequence thread are.     *)
LEMMA EngOthersCalm ==
    ASSUME EngTypes, EngStops,
           \/ \E r \in Request, p \in Priority : Insert(r, p)
           \/ TimerExpires
           \/ \E cause \in {"STOP", "ABORT", "OTHER"} : Isr(cause)
           \/ Sequence
           \/ UNCHANGED vars
    PROVE  EngCalm
  <1> USE DEF QueueUnchanged, ThreadUnchanged, FlagsUnchanged
  <1>q. xc \in XcType
    BY DEF EngTypes, TypeOK, XcType
  <1>1. UNCHANGED <<pnp, started, stopping, flushed, cpu, busy>> /\ timer' \in {timer, "off"}
    BY DEF Insert, TimerExpires, Isr, Sequence, SequenceSetup, SequenceStart, SequenceReturn, vars
  <1>2. CASE Sequence
    <2>1. ASSUME SequenceSetup PROVE xc'.irp = NoIrp
      <3>1. xc' = [ZeroXc EXCEPT !.buf = "set", !.status = "PENDING"]
        BY <2>1 DEF SequenceSetup
      <3> QED
        BY <3>1 DEF ZeroXc
    <2>2. ASSUME SequenceStart PROVE xc'.irp = xc.irp
      <3>1. xc' = [xc EXCEPT !.buf = "ready", !.status = "PENDING"] \/ xc' = xc
        BY <2>2 DEF SequenceStart
      <3> QED
        BY <1>q, <3>1 DEF XcType
    <2>3. ASSUME SequenceReturn PROVE xc'.irp = xc.irp
      <3>1. \E t \in {"TIMEOUT", xc.status} : xc' = [xc EXCEPT !.status = t]
        BY <2>3 DEF SequenceReturn
      <3> QED
        BY <1>q, <3>1 DEF XcType
    <2>4. xc'.irp \in {xc.irp, NoIrp}
      BY <1>2, <2>1, <2>2, <2>3 DEF Sequence
    <2> QED
      BY <1>1, <2>4 DEF EngCalm
  <1>3. CASE UNCHANGED xc
    BY <1>1, <1>3 DEF EngCalm
  <1> QED
    BY <1>2, <1>3 DEF Insert, TimerExpires, Isr, vars

-----------------------------------------------------------------------------
(* The stop path goes down in order: it leaves the flush when every CPU    *)
(* has been seen idle, and what it puts down later stays down.             *)
LEMMA EngPnpKeeps ==
    ASSUME EngTypes, EngStops, BusyWhileActive, StopMark \/ StopDevice \/ StartDevice
    PROVE  EngStops' /\ BusyWhileActive'
  <1> USE DEF At, QueueUnchanged, ThreadUnchanged, PnpStep, EngStops, BusyWhileActive
  <1>q. /\ xc \in XcType /\ pnp \in [pc : PnpPc, irp : Request \cup {NoIrp}]
        /\ flushed \subseteq Cpu
    BY DEF EngTypes, TypeOK, XcType
  <1>1. CASE StopMark
    <2>1. pnp.pc = "running" /\ pnp'.pc = "marked" /\ stopping' /\ ~started' /\ UNCHANGED flushed
      BY <1>1, <1>q DEF StopMark
    <2> QED
      BY <2>1
  <1>2. CASE StopRemoveDpcs \/ StopDisconnect \/ StopQuiesce
    <2>1. /\ pnp.pc \in {"marked", "quiesced", "removed", "disconnected"}
          /\ pnp'.pc \in {"removed", "flush", "disconnected", "quiesced"}
          /\ UNCHANGED <<started, stopping, flushed, cpu>>
      BY <1>2, <1>q DEF StopRemoveDpcs, StopDisconnect, StopQuiesce
    <2> QED
      BY <2>1
  <1>3. ASSUME NEW c \in Cpu, StopFlush(c) PROVE EngStops' /\ BusyWhileActive'
    <2>1. /\ pnp.pc = "flush" /\ cpu[c].pc = "idle"
          /\ UNCHANGED <<started, stopping, cpu, timer, xc, busy>>
      BY <1>3 DEF StopFlush
    <2>2. \A d \in flushed \cup {c} : cpu[d].pc \notin Into
      BY <2>1 DEF Into
    <2>3. CASE flushed \cup {c} = Cpu
      <3>1. pnp'.pc = "cancel" /\ flushed' = {}
        BY <1>3, <1>q, <2>3 DEF StopFlush
      <3> QED
        BY <2>1, <2>2, <2>3, <3>1
    <2>4. CASE flushed \cup {c} # Cpu
      <3>1. flushed' = flushed \cup {c} /\ UNCHANGED pnp
        BY <1>3, <2>4 DEF StopFlush
      <3> QED
        BY <2>1, <2>2, <3>1
    <2> QED
      BY <2>3, <2>4
  <1>4. CASE StopCancelTimer
    <2>1. /\ pnp.pc = "cancel" /\ pnp'.pc = "fence" /\ timer' = "off"
          /\ UNCHANGED <<started, stopping, cpu, xc, busy, flushed>>
      BY <1>4, <1>q DEF StopCancelTimer
    <2> QED
      BY <2>1
  <1>5. CASE StopFence
    <2>1. pnp.pc = "fence" /\ pnp'.pc = "complete" /\ busy' = FALSE /\ xc'.irp = NoIrp
      BY <1>5, <1>q DEF StopFence, XcType
    <2>2. UNCHANGED <<started, stopping, cpu, timer, flushed>>
      BY <1>5 DEF StopFence
    <2> QED
      BY <2>1, <2>2
  <1>6. CASE StopComplete
    <2>1. /\ pnp.pc = "complete" /\ pnp'.pc = "reset"
          /\ UNCHANGED <<started, stopping, cpu, timer, xc, busy, flushed>>
      BY <1>6 DEF StopComplete
    <2> QED
      BY <2>1
  <1>7. CASE StopReset
    <2>1. /\ pnp.pc = "reset" /\ pnp'.pc = "stopped" /\ ~started' /\ ~busy'
          /\ xc'.irp = NoIrp /\ timer' \in {timer, "off"}
          /\ UNCHANGED <<stopping, cpu, flushed>>
      BY <1>7, <1>q DEF StopReset, ZeroContext, ZeroXc
    <2> QED
      BY <2>1
  <1>8. CASE StartDevice
    <2>1. /\ pnp.pc = "stopped" /\ pnp'.pc = "running" /\ xc'.irp = NoIrp
          /\ UNCHANGED flushed
      BY <1>8, <1>q DEF StartDevice, ZeroContext, ZeroXc
    <2> QED
      BY <2>1
  <1> QED
    BY <1>1, <1>2, <1>3, <1>4, <1>5, <1>6, <1>7, <1>8 DEF StopDevice

(* Every step keeps the invariant of the engine.                           *)
LEMMA EngInvStep == EngInv /\ [Next]_vars => EngInv'
  <1> SUFFICES ASSUME EngInv, [Next]_vars PROVE EngInv'
    OBVIOUS
  <1>1. EngTypes /\ EngStops /\ BusyWhileActive
    BY DEF EngInv
  <1>2. EngTypes'
    BY <1>1, EngTypesStep
  <1>3. ASSUME NEW c \in Cpu, Dpc(c) PROVE EngStops' /\ BusyWhileActive'
    BY <1>1, <1>3, EngDpcCalm, EngCalmKeeps
  <1>4. CASE \/ \E r \in Request, p \in Priority : Insert(r, p)
             \/ TimerExpires
             \/ \E cause \in {"STOP", "ABORT", "OTHER"} : Isr(cause)
             \/ Sequence
             \/ UNCHANGED vars
    <2>1. EngCalm
      BY <1>1, <1>4, EngOthersCalm
    <2> QED
      BY <1>1, <1>2, <2>1, EngCalmKeeps DEF EngInv
  <1>5. CASE StopMark \/ StopDevice \/ StartDevice
    BY <1>1, <1>2, <1>5, EngPnpKeeps DEF EngInv
  <1> QED
    BY <1>2, <1>3, <1>4, <1>5 DEF Next, EngInv

(* It holds at every moment.                                               *)
LEMMA EngInvKept == Spec => []EngInv
  <1>1. Init => EngInv
    BY EngTypesInit DEF Init, Idle, Into, EngInv, EngStops, BusyWhileActive, ZeroXc
  <1> QED
    BY <1>1, EngInvStep, PTL DEF Spec

(* A stopped device has no active transfer and no timer, and no queue DPC  *)
(* is between its pick and its issue.                                      *)
THEOREM EngStoppedIsQuiet == Spec => []StoppedIsQuiet
  <1>1. EngInv => StoppedIsQuiet
    BY DEF EngInv, EngStops, StoppedIsQuiet, Into
  <1> QED
    BY <1>1, EngInvKept, PTL

(* While the device is not stopping, an active request has ActiveBusy set. *)
THEOREM EngActiveIsBusy == Spec => []BusyWhileActive
  <1>1. EngInv => BusyWhileActive
    BY DEF EngInv
  <1> QED
    BY <1>1, EngInvKept, PTL

-----------------------------------------------------------------------------
(* The places of a request, and whether it has been ended, other than by   *)
(* giving up a claim, are as before.                                       *)
EngHandsOff ==
    /\ UNCHANGED <<queue, inserted>>
    /\ \A r \in Request : (Ended(r)' <=> Ended(r)) /\ (EndedOnce(r) => EndedOnce(r)')
    /\ xc'.irp \in {xc.irp, NoIrp} /\ pnp'.irp \in {pnp.irp, NoIrp}
    /\ \A c \in Cpu, r \in Request : Claims(c, r)' => Claims(c, r)

EngTicketsInv == EngQueued /\ EngTickets

(* A step that at most gives up claims keeps the tickets.                  *)
LEMMA EngHandsOffKeeps ==
    ASSUME EngTypes, EngTicketsInv, EngHandsOff
    PROVE  EngTicketsInv'
  <1> USE DEF EngHandsOff, EngTicketsInv
  <1>1. ASSUME NEW r \in Request PROVE Unclaimed(r) => Unclaimed(r)'
    BY EngineAssumption DEF Unclaimed
  <1>2. \A p \in Class : \A i \in DOMAIN queue[p] : queue[p][i] \in Request
    BY DEF EngTypes, TypeOK, QTypeOK
  <1>3. EngQueued'
    BY <1>1, <1>2 DEF EngQueued
  <1>4. ASSUME NEW r \in Request
        PROVE  /\ r \notin inserted' => Unclaimed(r)' /\ ~Ended(r)'
               /\ Ended(r)' => Unclaimed(r)'
               /\ EndedOnce(r)'
               /\ xc'.irp = r => pnp'.irp # r
               /\ xc'.irp = r \/ pnp'.irp = r => \A c \in Cpu : ~Claims(c, r)'
               /\ \A c, d \in Cpu : Claims(c, r)' /\ Claims(d, r)' => c = d
    BY <1>1, EngineAssumption DEF EngTickets
  <1>5. EngTickets'
    BY <1>4 DEF EngTickets
  <1> QED
    BY <1>3, <1>5

(* A completion by another actor ends nothing.                             *)
LEMMA EngOtherCompletion ==
    ASSUME EngTypes, NEW r \in Request, NEW who \in Actor \ {"timeout", "stop"},
           CompleteIrp(r, who), NEW s \in Request
    PROVE  (Ended(s)' <=> Ended(s)) /\ (EndedOnce(s) => EndedOnce(s)')
  <1>1. /\ \A t \in Request \ {r} : done'[t] = done[t]
        /\ done'[r] = Append(done[r], who)
    BY EngComplete
  <1>2. CASE s # r
    BY <1>1, <1>2 DEF Ended, EndedOnce
  <1>3. CASE s = r
    <2>1. /\ DOMAIN done[r] = 1 .. Len(done[r]) /\ Len(done[r]) \in Nat
          /\ DOMAIN done'[r] = 1 .. Len(done[r]) + 1
          /\ \A i \in DOMAIN done[r] : done'[r][i] = done[r][i]
          /\ done'[r][Len(done[r]) + 1] = who
      BY <1>1 DEF EngTypes, TypeOK
    <2>2. \A i \in DOMAIN done'[r] : done'[r][i] \in {"timeout", "stop"} => i \in DOMAIN done[r]
      BY <2>1
    <2> QED
      BY <1>3, <2>1, <2>2 DEF Ended, EndedOnce
  <1> QED
    BY <1>2, <1>3

(* The first completion by the timeout or the stop path ends a request.    *)
LEMMA EngEndingCompletion ==
    ASSUME EngTypes, NEW r \in Request, NEW who \in {"timeout", "stop"},
           CompleteIrp(r, who), ~Ended(r)
    PROVE  /\ Ended(r)' /\ EndedOnce(r)'
           /\ \A s \in Request \ {r} : (Ended(s)' <=> Ended(s)) /\ (EndedOnce(s) => EndedOnce(s)')
  <1>1. /\ \A t \in Request \ {r} : done'[t] = done[t]
        /\ done'[r] = Append(done[r], who)
    BY EngComplete DEF Actor
  <1>2. /\ DOMAIN done[r] = 1 .. Len(done[r]) /\ Len(done[r]) \in Nat
        /\ DOMAIN done'[r] = 1 .. Len(done[r]) + 1
        /\ \A i \in DOMAIN done[r] : done'[r][i] = done[r][i]
        /\ done'[r][Len(done[r]) + 1] = who
    BY <1>1 DEF EngTypes, TypeOK
  <1>3. \A i \in DOMAIN done'[r] : done'[r][i] \in {"timeout", "stop"} => i = Len(done[r]) + 1
    BY <1>2 DEF Ended
  <1> QED
    BY <1>1, <1>2, <1>3 DEF Ended, EndedOnce

-----------------------------------------------------------------------------
(* The head of a queue, taken out, is in no place of any queue, and every  *)
(* place left was one before.                                              *)
LEMMA EngHeadTaken ==
    ASSUME EngTypes, EngQueued, NEW p \in Class, NEW r, Waiting(p), r = Head(queue[p]),
           RemoveHead(p)
    PROVE  /\ r \in Request /\ r \in inserted /\ ~Ended(r) /\ Unclaimed(r)
           /\ \A q \in Class : \A i \in DOMAIN queue'[q] :
                 queue'[q][i] # r /\ \E j \in DOMAIN queue[q] : queue[q][j] = queue'[q][i]
           /\ \A q, s \in Class : \A i \in DOMAIN queue'[q], j \in DOMAIN queue'[s] :
                 queue'[q][i] = queue'[s][j] => q = s /\ i = j
  <1>1. queue[p] \in Seq(Request) /\ queue[p] # <<>> /\ queue \in [Class -> Seq(Request)]
    BY DEF Waiting, EngTypes, TypeOK, QTypeOK
  <1>2. r = queue[p][1] /\ 1 \in DOMAIN queue[p]
    BY <1>1
  <1>3. r \in Request /\ r \in inserted /\ ~Ended(r) /\ Unclaimed(r)
    BY <1>1, <1>2 DEF EngQueued
  <1>4. queue'[p] = Tail(queue[p]) /\ \A q \in Class \ {p} : queue'[q] = queue[q]
    BY <1>1 DEF RemoveHead
  <1>5. \A i \in DOMAIN Tail(queue[p]) :
           i \in Nat /\ i + 1 # 1 /\ i + 1 \in DOMAIN queue[p] /\ Tail(queue[p])[i] = queue[p][i + 1]
    BY <1>1
  <1> DEFINE Old(q, i) == IF q = p THEN i + 1 ELSE i
  <1>6. ASSUME NEW q \in Class, NEW i \in DOMAIN queue'[q]
        PROVE  /\ Old(q, i) \in DOMAIN queue[q] /\ queue'[q][i] = queue[q][Old(q, i)]
               /\ q = p => Old(q, i) # 1 /\ i \in Nat
    BY <1>4, <1>5, <1>6
  <1> HIDE DEF Old
  <1>7. ASSUME NEW q \in Class, NEW i \in DOMAIN queue'[q] PROVE queue'[q][i] # r
    BY <1>2, <1>6, <1>7 DEF EngQueued
  <1>8. ASSUME NEW q \in Class, NEW s \in Class, NEW i \in DOMAIN queue'[q],
               NEW j \in DOMAIN queue'[s], queue'[q][i] = queue'[s][j]
        PROVE  q = s /\ i = j
    <2>1. q = s /\ Old(q, i) = Old(s, j)
      BY <1>6, <1>8 DEF EngQueued
    <2> QED
      BY <1>6, <1>8, <2>1 DEF Old
  <1>9. ASSUME NEW q \in Class, NEW i \in DOMAIN queue'[q]
        PROVE  \E j \in DOMAIN queue[q] : queue[q][j] = queue'[q][i]
    BY <1>6
  <1> QED
    BY <1>3, <1>7, <1>8, <1>9

(* Taking a request out of its queue gives one CPU a claim on it or none.  *)
LEMMA EngTakeKeeps ==
    ASSUME EngTypes, EngTicketsInv, NEW p \in Class, NEW r, NEW c \in Cpu,
           Waiting(p), r = Head(queue[p]), RemoveHead(p), UNCHANGED <<inserted, done, xc, pnp>>,
           Goto(c, "drained", r) \/ Goto(c, "zero", r), ~(cpu[c].pc \in {"zero", "arm", "failed"})
    PROVE  EngTicketsInv'
  <1>1. EngQueued /\ EngTickets
    BY DEF EngTicketsInv
  <1>2. /\ r \in Request /\ r \in inserted /\ ~Ended(r) /\ Unclaimed(r)
        /\ \A q \in Class : \A i \in DOMAIN queue'[q] :
                 queue'[q][i] # r /\ \E j \in DOMAIN queue[q] : queue[q][j] = queue'[q][i]
        /\ \A q, s \in Class : \A i \in DOMAIN queue'[q], j \in DOMAIN queue'[s] :
                 queue'[q][i] = queue'[s][j] => q = s /\ i = j
    BY <1>1, EngHeadTaken
  <1>3. \A d \in Cpu : IF d = c THEN cpu'[d].irp = r ELSE cpu'[d] = cpu[d]
    BY DEF Goto, EngTypes, TypeOK
  <1>4. \A s \in Request : (Ended(s)' <=> Ended(s)) /\ (EndedOnce(s)' <=> EndedOnce(s))
    BY DEF Ended, EndedOnce
  <1>5. \A d \in Cpu, s \in Request : Claims(d, s)' => Claims(d, s) \/ (d = c /\ s = r)
    BY <1>3 DEF Claims
  <1>6. \A s \in Request \ {r} : Unclaimed(s) => Unclaimed(s)'
    BY <1>5 DEF Unclaimed
  <1>7. \A q \in Class : \A j \in DOMAIN queue[q] : queue[q][j] \in Request
    BY DEF EngTypes, TypeOK, QTypeOK
  <1>8. EngQueued'
    <2>1. ASSUME NEW q \in Class, NEW i \in DOMAIN queue'[q], NEW s \in Request,
                 queue'[q][i] = s
          PROVE  s \in inserted' /\ ~Ended(s)' /\ Unclaimed(s)'
      <3>1. PICK j \in DOMAIN queue[q] : queue[q][j] = s
        BY <1>2, <2>1
      <3>2. s # r /\ s \in inserted /\ ~Ended(s) /\ Unclaimed(s)
        BY <1>1, <1>2, <2>1, <3>1 DEF EngQueued
      <3> QED
        BY <1>4, <1>6, <3>2
    <2> QED
      BY <1>2, <2>1 DEF EngQueued
  <1>9. ASSUME NEW s \in Request
        PROVE  /\ s \notin inserted' => Unclaimed(s)' /\ ~Ended(s)'
               /\ Ended(s)' => Unclaimed(s)'
               /\ EndedOnce(s)'
               /\ xc'.irp = s => pnp'.irp # s
               /\ xc'.irp = s \/ pnp'.irp = s => \A d \in Cpu : ~Claims(d, s)'
               /\ \A d, e \in Cpu : Claims(d, s)' /\ Claims(e, s)' => d = e
    <2>1. CASE s = r
      BY <1>1, <1>2, <1>4, <1>5, <2>1 DEF EngTickets, Unclaimed
    <2>2. CASE s # r
      BY <1>1, <1>4, <1>5, <1>6, <2>2 DEF EngTickets
    <2> QED
      BY <2>1, <2>2
  <1> QED
    BY <1>8, <1>9 DEF EngTicketsInv, EngTickets

-----------------------------------------------------------------------------
(* Inserting a request puts it in one place of one queue.                  *)
LEMMA EngInsertKeeps ==
    ASSUME EngTypes, EngTicketsInv, NEW r \in Request, NEW p \in Priority, Insert(r, p)
    PROVE  EngTicketsInv'
  <1>1. EngQueued /\ EngTickets
    BY DEF EngTicketsInv
  <1>2. /\ r \notin inserted /\ queue' = [queue EXCEPT ![p] = Append(@, r)]
        /\ inserted' = inserted \cup {r} /\ UNCHANGED <<done, xc, pnp, cpu>> /\ p \in Class
    BY EngineAssumption DEF Insert, QueueInsert, FlagsUnchanged
  <1>3. queue \in [Class -> Seq(Request)]
    BY DEF EngTypes, TypeOK, QTypeOK
  <1>4. \A s \in Request : (Ended(s)' <=> Ended(s)) /\ (EndedOnce(s)' <=> EndedOnce(s))
                            /\ (Unclaimed(s)' <=> Unclaimed(s))
    BY <1>2 DEF Ended, EndedOnce, Unclaimed, Claims
  <1>5. \A c \in Cpu, s \in Request : Claims(c, s)' <=> Claims(c, s)
    BY <1>2 DEF Claims
  <1>6. /\ DOMAIN queue[p] = 1 .. Len(queue[p]) /\ Len(queue[p]) \in Nat
        /\ DOMAIN queue'[p] = 1 .. Len(queue[p]) + 1
        /\ \A i \in DOMAIN queue[p] : queue'[p][i] = queue[p][i]
        /\ queue'[p][Len(queue[p]) + 1] = r
        /\ \A q \in Class \ {p} : queue'[q] = queue[q]
    BY <1>2, <1>3
  <1>7. \A q \in Class : \A i \in DOMAIN queue[q] : queue[q][i] \in Request /\ queue[q][i] # r
    BY <1>1, <1>2, <1>3 DEF EngQueued
  <1>8. \A q \in Class : \A i \in DOMAIN queue'[q] :
           \/ q = p /\ i = Len(queue[p]) + 1 /\ queue'[q][i] = r
           \/ i \in DOMAIN queue[q] /\ queue'[q][i] = queue[q][i] /\ queue'[q][i] # r
    BY <1>6, <1>7
  <1>9. EngQueued'
    <2>1. ASSUME NEW q \in Class, NEW s \in Class, NEW i \in DOMAIN queue'[q],
                 NEW j \in DOMAIN queue'[s], queue'[q][i] = queue'[s][j]
          PROVE  q = s /\ i = j
      BY <1>1, <1>8, <2>1 DEF EngQueued
    <2>2. ASSUME NEW q \in Class, NEW i \in DOMAIN queue'[q], NEW s \in Request,
                 queue'[q][i] = s
          PROVE  s \in inserted' /\ ~Ended(s)' /\ Unclaimed(s)'
      <3>1. CASE s = r
        BY <1>1, <1>2, <1>4, <3>1 DEF EngTickets
      <3>2. CASE s # r
        BY <1>1, <1>2, <1>4, <1>8, <2>2, <3>2 DEF EngQueued
      <3> QED
        BY <3>1, <3>2
    <2> QED
      BY <2>1, <2>2 DEF EngQueued
  <1>10. EngTickets'
    BY <1>1, <1>2, <1>4, <1>5 DEF EngTickets
  <1> QED
    BY <1>9, <1>10 DEF EngTicketsInv

(* The claim on a request goes from a CPU to the context, from the context *)
(* to a CPU or to the stop path, and is used up by the completion; nothing *)
(* else about the requests changes.                                        *)
LEMMA EngPassKeeps ==
    ASSUME EngTypes, EngTicketsInv, UNCHANGED <<queue, inserted>>, NEW r \in Request,
           ~Unclaimed(r),
           \A s \in Request \ {r} :
               /\ (Ended(s)' <=> Ended(s)) /\ (EndedOnce(s) => EndedOnce(s)')
               /\ Unclaimed(s) => Unclaimed(s)'
               /\ xc'.irp = s => xc.irp = s
               /\ pnp'.irp = s => pnp.irp = s
               /\ \A c \in Cpu : Claims(c, s)' => Claims(c, s),
           Ended(r)' => Unclaimed(r)', EndedOnce(r)',
           xc'.irp = r => pnp'.irp # r,
           xc'.irp = r \/ pnp'.irp = r => \A c \in Cpu : ~Claims(c, r)',
           \A c, d \in Cpu : Claims(c, r)' /\ Claims(d, r)' => c = d
    PROVE  EngTicketsInv'
  <1>1. EngQueued /\ EngTickets
    BY DEF EngTicketsInv
  <1>2. EngQueued'
    <2>1. \A p \in Class : \A i \in DOMAIN queue[p] : queue[p][i] # r
      BY <1>1 DEF EngQueued
    <2> QED
      BY <1>1, <2>1 DEF EngQueued
  <1>3. r \in inserted
    BY <1>1 DEF EngTickets
  <1>4. ASSUME NEW s \in Request
        PROVE  /\ s \notin inserted' => Unclaimed(s)' /\ ~Ended(s)'
               /\ Ended(s)' => Unclaimed(s)'
               /\ EndedOnce(s)'
               /\ xc'.irp = s => pnp'.irp # s
               /\ xc'.irp = s \/ pnp'.irp = s => \A c \in Cpu : ~Claims(c, s)'
               /\ \A c, d \in Cpu : Claims(c, s)' /\ Claims(d, s)' => c = d
    <2>1. CASE s = r
      BY <1>3, <2>1
    <2>2. CASE s # r
      BY <1>1, <2>2 DEF EngTickets
    <2> QED
      BY <2>1, <2>2
  <1> QED
    BY <1>2, <1>4 DEF EngTicketsInv, EngTickets

-----------------------------------------------------------------------------
(* The steps of the DPCs keep the tickets: the context gives a request to  *)
(* the timeout DPC under QueueLock, and takes it from the queue DPC there. *)
LEMMA EngDpcTickets ==
    ASSUME EngTypes, EngTicketsInv, NEW c \in Cpu, Dpc(c)
    PROVE  EngTicketsInv'
  <1> USE DEF At, QueueUnchanged, ThreadUnchanged, FlagsUnchanged
  <1>q. /\ xc \in XcType /\ EngCpus /\ EngQueued /\ EngTickets
        /\ done \in [Request -> Seq(Actor)]
    BY DEF EngTypes, TypeOK, XcType, EngCpus, EngTicketsInv
  <1>g. ASSUME NEW pc, NEW r, Goto(c, pc, r)
        PROVE  /\ cpu'[c].pc = pc /\ cpu'[c].irp = r
               /\ \A d \in Cpu \ {c} : cpu'[d] = cpu[d]
    BY <1>g, <1>q DEF Goto, EngCpus
  <1>n. ASSUME NEW pc, NEW r, Goto(c, pc, r), pc \notin {"zero", "arm", "failed"}
        PROVE  \A d \in Cpu, s \in Request : Claims(d, s)' => Claims(d, s)
    <2>1. /\ cpu'[c].pc \notin {"zero", "arm", "failed"}
          /\ \A d \in Cpu \ {c} : cpu'[d] = cpu[d]
      BY <1>g, <1>n
    <2> QED
      BY <2>1 DEF Claims
  <1>r. ASSUME Return(c) PROVE \A d \in Cpu, s \in Request : Claims(d, s)' => Claims(d, s)
    BY <1>r, <1>n DEF Return
  <1>e. ASSUME UNCHANGED done
        PROVE  \A r \in Request : (Ended(r)' <=> Ended(r)) /\ (EndedOnce(r) => EndedOnce(r)')
    BY <1>e DEF Ended, EndedOnce
  <1>1. CASE StartQueueDpc(c)
    <2>1. \E pc \in {"pick", "drain"} : Goto(c, pc, NoIrp)
      BY <1>1 DEF StartQueueDpc
    <2>2. EngHandsOff
      BY <1>1, <1>n, <1>e, <2>1 DEF StartQueueDpc, EngHandsOff
    <2> QED
      BY <2>2, EngHandsOffKeeps
  <1>2. CASE QueueDpcDrain(c)
    <2>1. CASE \E p \in Class, r \in Request : DrainOne(p, r) /\ Goto(c, "drained", r)
      <3>1. PICK p \in Class, r \in Request : DrainOne(p, r) /\ Goto(c, "drained", r)
        BY <2>1
      <3>2. /\ Waiting(p) /\ r = Head(queue[p]) /\ RemoveHead(p)
            /\ UNCHANGED <<inserted, done, xc, pnp>> /\ cpu[c].pc \notin {"zero", "arm", "failed"}
        BY <1>2, <3>1 DEF QueueDpcDrain, DrainOne
      <3> QED
        BY <3>1, <3>2, EngTakeKeeps
    <2>2. CASE Return(c) /\ UNCHANGED <<queue, burst>>
      <3>1. EngHandsOff
        BY <1>2, <1>r, <1>e, <2>2 DEF QueueDpcDrain, EngHandsOff
      <3> QED
        BY <3>1, EngHandsOffKeeps
    <2> QED
      BY <1>2, <2>1, <2>2 DEF QueueDpcDrain
  <1>3. CASE QueueDpcDrained(c) \/ QueueDpcFinish(c)
    <2>1. /\ cpu[c].irp \in Request /\ Detach(cpu[c].irp) /\ Return(c)
          /\ \E who \in {"drain", "finish"} : CompleteIrp(cpu[c].irp, who)
          /\ UNCHANGED <<queue, inserted, pnp>>
      BY <1>3, <1>q DEF QueueDpcDrained, QueueDpcFinish, EngCpus, InHand
    <2>2. \A s \in Request : (Ended(s)' <=> Ended(s)) /\ (EndedOnce(s) => EndedOnce(s)')
      BY <2>1, EngOtherCompletion DEF Actor
    <2>3. xc'.irp \in {xc.irp, NoIrp}
      BY <1>q, <2>1 DEF Detach, XcType
    <2>4. EngHandsOff
      BY <1>r, <2>1, <2>2, <2>3 DEF EngHandsOff
    <2> QED
      BY <2>4, EngHandsOffKeeps
  <1>4. CASE QueueDpcPick(c)
    <2>1. CASE \E p \in Class, r \in Request : Pick(p, r) /\ Goto(c, "zero", r)
      <3>1. PICK p \in Class, r \in Request : Pick(p, r) /\ Goto(c, "zero", r)
        BY <2>1
      <3>2. /\ Waiting(p) /\ r = Head(queue[p]) /\ RemoveHead(p)
            /\ UNCHANGED <<inserted, done, xc, pnp>> /\ cpu[c].pc \notin {"zero", "arm", "failed"}
        BY <1>4, <3>1 DEF QueueDpcPick, Pick, Picked, Eligible
      <3> QED
        BY <3>1, <3>2, EngTakeKeeps
    <2>2. CASE Return(c) /\ UNCHANGED <<queue, burst>>
      <3>1. EngHandsOff
        BY <1>4, <1>r, <1>e, <2>2 DEF QueueDpcPick, EngHandsOff
      <3> QED
        BY <3>1, EngHandsOffKeeps
    <2> QED
      BY <1>4, <2>1, <2>2 DEF QueueDpcPick
  <1>5. CASE QueueDpcZero(c)
    <2>1. Goto(c, "arm", cpu[c].irp) /\ cpu[c].pc = "zero" /\ xc'.irp = NoIrp
          /\ UNCHANGED <<queue, inserted, pnp, done>>
      BY <1>5 DEF QueueDpcZero, ZeroContext, ZeroXc
    <2>a. cpu'[c].irp = cpu[c].irp /\ \A d \in Cpu \ {c} : cpu'[d] = cpu[d]
      BY <1>g, <2>1
    <2>2. \A d \in Cpu, s \in Request : Claims(d, s)' => Claims(d, s)
      BY <2>1, <2>a DEF Claims
    <2>3. EngHandsOff
      BY <1>e, <2>1, <2>2 DEF EngHandsOff
    <2> QED
      BY <2>3, EngHandsOffKeeps
  <1>6. CASE QueueDpcArm(c)
    <2>1. /\ cpu[c].pc = "arm" /\ cpu[c].irp \in Request
          /\ Goto(c, "timer", cpu[c].irp) /\ xc'.irp = cpu[c].irp
          /\ UNCHANGED <<queue, inserted, pnp, done>>
      BY <1>6, <1>q DEF QueueDpcArm, XcType, EngCpus, InHand
    <2>a. cpu'[c].pc = "timer" /\ \A d \in Cpu \ {c} : cpu'[d] = cpu[d]
      BY <1>g, <2>1
    <2>2. PICK t \in Request : t = cpu[c].irp
      BY <2>1
    <2>3. Claims(c, t)
      BY <2>1, <2>2 DEF Claims
    <2>4. ~Unclaimed(t) /\ ~Ended(t) /\ EndedOnce(t) /\ pnp.irp # t
      BY <1>q, <2>3 DEF Unclaimed, EngTickets
    <2>5. \A d \in Cpu, s \in Request : Claims(d, s)' => Claims(d, s) /\ d # c
      BY <2>a DEF Claims
    <2>6. \A d \in Cpu : ~Claims(d, t)'
      BY <1>q, <2>3, <2>5 DEF EngTickets
    <2>7. \A s \in Request \ {t} : Unclaimed(s) => Unclaimed(s)'
      BY <2>1, <2>2, <2>5 DEF Unclaimed
    <2>8. ~Ended(t)' /\ EndedOnce(t)'
      BY <1>e, <2>1, <2>4
    <2> QED
      BY <1>e, <2>1, <2>2, <2>4, <2>5, <2>6, <2>7, <2>8, EngPassKeeps
  <1>7. CASE QueueDpcTimer(c)
    <2>1. EngHandsOff
      BY <1>7, <1>n, <1>e DEF QueueDpcTimer, EngHandsOff
    <2> QED
      BY <2>1, EngHandsOffKeeps
  <1>8. CASE QueueDpcIssue(c)
    <2>1. \A d \in Cpu, s \in Request : Claims(d, s)' => Claims(d, s)
      BY <1>8, <1>n, <1>r DEF QueueDpcIssue
    <2>2. EngHandsOff
      BY <1>8, <1>e, <2>1 DEF QueueDpcIssue, EngHandsOff
    <2> QED
      BY <2>2, EngHandsOffKeeps
  <1>9. CASE QueueDpcCancelTimer(c)
    <2>1. EngHandsOff
      BY <1>9, <1>n, <1>e DEF QueueDpcCancelTimer, EngHandsOff
    <2> QED
      BY <2>1, EngHandsOffKeeps
  <1>10. CASE \E k \in kdpc : StartTimeoutDpc(c, k)
    <2>1. UNCHANGED cpu \/ Goto(c, "timeout", xc.irp)
      BY <1>10 DEF StartTimeoutDpc
    <2>2. \A d \in Cpu, s \in Request : Claims(d, s)' => Claims(d, s)
      <3>1. CASE UNCHANGED cpu
        BY <3>1 DEF Claims
      <3>2. CASE Goto(c, "timeout", xc.irp)
        BY <1>n, <3>2
      <3> QED
        BY <2>1, <3>1, <3>2
    <2>3. EngHandsOff
      BY <1>10, <1>e, <2>2 DEF StartTimeoutDpc, EngHandsOff
    <2> QED
      BY <2>3, EngHandsOffKeeps
  <1>11. CASE TimeoutDpcDecide(c)
    <2>1. \E pc \in {"notReady", "retry", "timedOut"} : Goto(c, pc, cpu[c].irp)
      BY <1>11 DEF TimeoutDpcDecide
    <2>2. EngHandsOff
      BY <1>11, <1>n, <1>e, <2>1 DEF TimeoutDpcDecide, EngHandsOff
    <2> QED
      BY <2>2, EngHandsOffKeeps
  <1>12. CASE TimeoutDpcRetry(c)
    <2>1. xc'.irp = xc.irp
      BY <1>12, <1>q DEF TimeoutDpcRetry, XcType
    <2>2. EngHandsOff
      BY <1>12, <1>r, <1>e, <2>1 DEF TimeoutDpcRetry, EngHandsOff
    <2> QED
      BY <2>2, EngHandsOffKeeps
  <1>13. CASE TimeoutDpcFail(c)
    <2>1. CASE xc.irp # cpu[c].irp
      <3>1. EngHandsOff
        BY <1>13, <1>r, <1>e, <2>1 DEF TimeoutDpcFail, EngHandsOff
      <3> QED
        BY <3>1, EngHandsOffKeeps
    <2>2. CASE xc.irp = cpu[c].irp
      <3>1. /\ cpu[c].pc \in {"timedOut", "notReady"} /\ Goto(c, "failed", cpu[c].irp)
            /\ cpu[c].irp \in Request /\ xc'.irp = NoIrp /\ UNCHANGED <<queue, inserted, pnp, done>>
        BY <1>13, <1>q, <2>2 DEF TimeoutDpcFail, XcType, EngCpus, InHand
      <3>2. PICK t \in Request : t = cpu[c].irp /\ xc.irp = t
        BY <2>2, <3>1
      <3>3. cpu'[c].irp = t /\ \A d \in Cpu \ {c} : cpu'[d] = cpu[d]
        BY <1>g, <3>1, <3>2
      <3>4. ~Unclaimed(t) /\ ~Ended(t) /\ EndedOnce(t) /\ pnp.irp # t /\ \A d \in Cpu : ~Claims(d, t)
        BY <1>q, <3>2 DEF Unclaimed, EngTickets
      <3>5. \A d \in Cpu, s \in Request : Claims(d, s)' => Claims(d, s) \/ (d = c /\ s = t)
        BY <3>3 DEF Claims
      <3>6. xc'.irp # t /\ pnp'.irp # t /\ \A s \in Request : xc'.irp # s
        BY <3>1, <3>4, EngineAssumption
      <3>7. \A s \in Request \ {t} : Unclaimed(s) => Unclaimed(s)'
        BY <3>1, <3>5, <3>6 DEF Unclaimed
      <3>8. ~Ended(t)' /\ EndedOnce(t)'
        BY <1>e, <3>1, <3>4
      <3> QED
        BY <1>e, <3>1, <3>4, <3>5, <3>6, <3>7, <3>8, EngPassKeeps
    <2> QED
      BY <2>1, <2>2
  <1>14. CASE TimeoutDpcFailed(c)
    <2>1. /\ cpu[c].pc = "failed" /\ cpu[c].irp \in Request /\ CompleteIrp(cpu[c].irp, "timeout")
          /\ Return(c) /\ UNCHANGED <<queue, inserted, pnp, xc>>
      BY <1>14, <1>q DEF TimeoutDpcFailed, EngCpus, InHand
    <2>2. PICK t \in Request : t = cpu[c].irp
      BY <2>1
    <2>3. Claims(c, t) /\ CompleteIrp(t, "timeout")
      BY <2>1, <2>2 DEF Claims
    <2>4. ~Unclaimed(t) /\ ~Ended(t) /\ pnp.irp # t /\ xc.irp # t
      BY <1>q, <2>3 DEF Unclaimed, EngTickets
    <2>a. cpu'[c].pc = "idle" /\ \A d \in Cpu \ {c} : cpu'[d] = cpu[d]
      BY <1>g, <2>1 DEF Return
    <2>5. \A d \in Cpu, s \in Request : Claims(d, s)' => Claims(d, s) /\ d # c
      BY <2>a DEF Claims
    <2>6. \A d \in Cpu : ~Claims(d, t)'
      BY <1>q, <2>3, <2>5 DEF EngTickets
    <2>7. \A s \in Request : Unclaimed(s) => Unclaimed(s)'
      BY <2>1, <2>5 DEF Unclaimed
    <2>8. Unclaimed(t)'
      BY <2>1, <2>4, <2>6 DEF Unclaimed
    <2>9. /\ EndedOnce(t)'
          /\ \A s \in Request \ {t} : (Ended(s)' <=> Ended(s)) /\ (EndedOnce(s) => EndedOnce(s)')
      BY <2>3, <2>4, EngEndingCompletion
    <2> QED
      BY <2>1, <2>4, <2>5, <2>6, <2>7, <2>8, <2>9, EngPassKeeps
  <1>15. CASE StartIsrDpc(c) \/ IsrDpcCancelTimer(c) \/ IsrDpcClaim(c)
    <2>1. Return(c) \/ UNCHANGED cpu \/ \E pc \in {"isr", "cas", "xchg"} : Goto(c, pc, NoIrp)
      BY <1>15 DEF StartIsrDpc, IsrDpcCancelTimer, IsrDpcClaim
    <2>2. \A d \in Cpu, s \in Request : Claims(d, s)' => Claims(d, s)
      <3>1. CASE UNCHANGED cpu
        BY <3>1 DEF Claims
      <3>2. CASE \E pc \in {"isr", "cas", "xchg"} : Goto(c, pc, NoIrp)
        BY <1>n, <3>2
      <3> QED
        BY <1>r, <2>1, <3>1, <3>2
    <2>3. xc'.irp = xc.irp
      BY <1>15, <1>q DEF StartIsrDpc, IsrDpcCancelTimer, IsrDpcClaim, XcType
    <2>4. UNCHANGED <<queue, inserted, pnp, done>>
      BY <1>15 DEF StartIsrDpc, IsrDpcCancelTimer, IsrDpcClaim
    <2>5. EngHandsOff
      BY <1>e, <2>2, <2>3, <2>4 DEF EngHandsOff
    <2> QED
      BY <2>5, EngHandsOffKeeps
  <1>16. CASE IsrDpcComplete(c)
    <2>1. xc'.irp = NoIrp /\ Return(c) /\ UNCHANGED <<queue, inserted, pnp>>
      BY <1>16, <1>q DEF IsrDpcComplete, XcType
    <2>2. \A s \in Request : (Ended(s)' <=> Ended(s)) /\ (EndedOnce(s) => EndedOnce(s)')
      <3>1. CASE xc.irp # NoIrp
        <4>1. xc.irp \in Request /\ CompleteIrp(xc.irp, "isr")
          BY <1>16, <1>q, <3>1 DEF IsrDpcComplete, XcType
        <4> QED
          BY <4>1, EngOtherCompletion DEF Actor
      <3>2. CASE xc.irp = NoIrp
        BY <1>16, <1>e, <3>2 DEF IsrDpcComplete
      <3> QED
        BY <3>1, <3>2
    <2>3. EngHandsOff
      BY <1>r, <2>1, <2>2 DEF EngHandsOff
    <2> QED
      BY <2>3, EngHandsOffKeeps
  <1> QED
    BY <1>1, <1>2, <1>3, <1>4, <1>5, <1>6, <1>7, <1>8, <1>9, <1>10, <1>11, <1>12, <1>13, <1>14,
       <1>15, <1>16
    DEF Dpc, QueueDpc, TimeoutDpc, IsrDpc

(* So do the steps of the PnP thread, which takes the active request over  *)
(* at the fence, and of everybody else.                                    *)
LEMMA EngOtherTickets ==
    ASSUME EngTypes, EngTicketsInv,
           \/ TimerExpires
           \/ \E cause \in {"STOP", "ABORT", "OTHER"} : Isr(cause)
           \/ Sequence \/ StopMark \/ StopDevice \/ StartDevice
           \/ UNCHANGED vars
    PROVE  EngTicketsInv'
  <1> USE DEF At, QueueUnchanged, ThreadUnchanged, FlagsUnchanged, PnpStep
  <1>q. /\ xc \in XcType /\ EngQueued /\ EngTickets
        /\ pnp \in [pc : PnpPc, irp : Request \cup {NoIrp}]
    BY DEF EngTypes, TypeOK, XcType, EngTicketsInv
  <1>e. ASSUME UNCHANGED done
        PROVE  \A r \in Request : (Ended(r)' <=> Ended(r)) /\ (EndedOnce(r) => EndedOnce(r)')
    BY <1>e DEF Ended, EndedOnce
  <1>c. ASSUME UNCHANGED cpu
        PROVE  \A d \in Cpu, s \in Request : Claims(d, s)' <=> Claims(d, s)
    BY <1>c DEF Claims
  <1>h. ASSUME UNCHANGED <<queue, inserted, done, cpu>>, xc'.irp \in {xc.irp, NoIrp},
               pnp'.irp = pnp.irp
        PROVE  EngTicketsInv'
    <2>1. EngHandsOff
      BY <1>h, <1>e, <1>c DEF EngHandsOff
    <2> QED
      BY <2>1, EngHandsOffKeeps
  <1>1. CASE UNCHANGED vars \/ TimerExpires \/ \E cause \in {"STOP", "ABORT", "OTHER"} : Isr(cause)
    BY <1>1, <1>h DEF vars, TimerExpires, Isr
  <1>2. CASE SequenceSetup
    BY <1>2, <1>h DEF SequenceSetup, ZeroXc
  <1>3. CASE SequenceStart
    <2>1. xc' = [xc EXCEPT !.buf = "ready", !.status = "PENDING"] \/ xc' = xc
      BY <1>3 DEF SequenceStart
    <2>2. xc'.irp = xc.irp
      BY <1>q, <2>1 DEF XcType
    <2> QED
      BY <1>3, <1>h, <2>2 DEF SequenceStart
  <1>4. CASE SequenceReturn
    <2>1. \E t \in {"TIMEOUT", xc.status} : xc' = [xc EXCEPT !.status = t]
      BY <1>4 DEF SequenceReturn
    <2>2. xc'.irp = xc.irp
      BY <1>q, <2>1 DEF XcType
    <2> QED
      BY <1>4, <1>h, <2>2 DEF SequenceReturn
  <1>5. CASE StopMark \/ StopRemoveDpcs \/ StopDisconnect \/ StopQuiesce \/ StopCancelTimer
    <2>1. /\ \E pc \in PnpPc : pnp' = [pnp EXCEPT !.pc = pc]
          /\ UNCHANGED <<queue, inserted, done, cpu, xc>>
      BY <1>5 DEF StopMark, StopRemoveDpcs, StopDisconnect, StopQuiesce, StopCancelTimer, PnpPc
    <2>2. pnp'.irp = pnp.irp
      BY <1>q, <2>1
    <2> QED
      BY <1>h, <2>1, <2>2
  <1>6. ASSUME NEW c \in Cpu, StopFlush(c) PROVE EngTicketsInv'
    <2>1. pnp'.irp = pnp.irp
      BY <1>q, <1>6 DEF StopFlush
    <2> QED
      BY <1>h, <1>6, <2>1 DEF StopFlush
  <1>7. CASE StopReset \/ StartDevice
    <2>1. pnp'.irp = pnp.irp /\ xc'.irp = NoIrp
      BY <1>q, <1>7 DEF StopReset, StartDevice, ZeroContext, ZeroXc
    <2>2. UNCHANGED <<queue, inserted, done, cpu>>
      BY <1>7 DEF StopReset, StartDevice
    <2> QED
      BY <1>h, <2>1, <2>2
  <1>8. CASE StopFence
    <2>1. /\ pnp'.irp = xc.irp /\ xc'.irp = NoIrp
          /\ UNCHANGED <<queue, inserted, done, cpu>>
      BY <1>q, <1>8 DEF StopFence, XcType
    <2>2. CASE xc.irp = NoIrp
      <3>1. EngHandsOff
        BY <1>e, <1>c, <2>1, <2>2 DEF EngHandsOff
      <3> QED
        BY <3>1, EngHandsOffKeeps
    <2>3. CASE xc.irp # NoIrp
      <3>1. PICK t \in Request : t = xc.irp
        BY <1>q, <2>3 DEF XcType
      <3>2. ~Unclaimed(t) /\ ~Ended(t) /\ EndedOnce(t) /\ \A d \in Cpu : ~Claims(d, t)
        BY <1>q, <3>1 DEF Unclaimed, EngTickets
      <3>3. \A s \in Request : xc'.irp # s
        BY <2>1, EngineAssumption
      <3>4. \A s \in Request \ {t} : Unclaimed(s) => Unclaimed(s)'
        BY <1>c, <2>1, <3>1, <3>3 DEF Unclaimed
      <3>5. ~Ended(t)' /\ EndedOnce(t)' /\ \A d \in Cpu : ~Claims(d, t)'
        BY <1>e, <1>c, <2>1, <3>2
      <3> QED
        BY <1>e, <1>c, <2>1, <3>1, <3>2, <3>3, <3>4, <3>5, EngPassKeeps
    <2> QED
      BY <2>2, <2>3
  <1>9. CASE StopComplete
    <2>1. pnp'.irp = NoIrp /\ UNCHANGED <<queue, inserted, cpu, xc>>
      BY <1>9 DEF StopComplete
    <2>2. CASE pnp.irp = NoIrp
      BY <1>9, <1>h, <2>1, <2>2 DEF StopComplete
    <2>3. CASE pnp.irp # NoIrp
      <3>1. PICK t \in Request : t = pnp.irp
        BY <1>q, <2>3
      <3>2. CompleteIrp(t, "stop")
        BY <1>9, <2>3, <3>1 DEF StopComplete
      <3>3. ~Unclaimed(t) /\ ~Ended(t) /\ xc.irp # t /\ \A d \in Cpu : ~Claims(d, t)
        BY <1>q, <3>1 DEF Unclaimed, EngTickets
      <3>4. /\ EndedOnce(t)'
            /\ \A s \in Request \ {t} : (Ended(s)' <=> Ended(s)) /\ (EndedOnce(s) => EndedOnce(s)')
        BY <3>2, <3>3, EngEndingCompletion
      <3>5. \A s \in Request : pnp'.irp # s
        BY <2>1, EngineAssumption
      <3>6. Unclaimed(t)' /\ \A s \in Request \ {t} : Unclaimed(s) => Unclaimed(s)'
        BY <1>c, <2>1, <3>3, <3>5 DEF Unclaimed
      <3>7. \A d \in Cpu : ~Claims(d, t)'
        BY <1>c, <2>1, <3>3
      <3> QED
        BY <1>c, <2>1, <3>3, <3>4, <3>5, <3>6, <3>7, EngPassKeeps
    <2> QED
      BY <2>2, <2>3
  <1> QED
    BY <1>1, <1>2, <1>3, <1>4, <1>5, <1>6, <1>7, <1>8, <1>9 DEF Sequence, StopDevice

(* Nobody has completed anything at first.                                 *)
LEMMA EngNothingDone == Init => \A r \in Request : \A i \in DOMAIN done[r] : FALSE
  <1> SUFFICES ASSUME Init, NEW r \in Request, NEW i \in DOMAIN done[r] PROVE FALSE
    OBVIOUS
  <1>1. done[r] = <<>>
    BY DEF Init
  <1>2. Len(done[r]) = 0 /\ done[r] \in Seq(Actor)
    BY <1>1
  <1>3. i \in 1 .. Len(done[r])
    BY <1>2
  <1> QED
    BY <1>2, <1>3

(* The tickets are kept at every moment.                                   *)
LEMMA EngTicketsKept == Spec => []EngTicketsInv
  <1>1. Init => EngTicketsInv
    <2> SUFFICES ASSUME Init PROVE EngTicketsInv
      OBVIOUS
    <2>1. \A p \in Class : \A i \in DOMAIN queue[p] : FALSE
      <3> SUFFICES ASSUME NEW p \in Class, NEW i \in DOMAIN queue[p] PROVE FALSE
        OBVIOUS
      <3>1. queue[p] = <<>>
        BY DEF Init, QInit
      <3> QED
        BY <3>1
    <2>2. \A r \in Request : \A i \in DOMAIN done[r] : FALSE
      BY EngNothingDone
    <2>3. \A r \in Request : Unclaimed(r)
      BY EngineAssumption DEF Init, ZeroXc, Idle, Unclaimed, Claims
    <2>4. \A r \in Request, c \in Cpu : ~Claims(c, r)
      BY <2>3 DEF Unclaimed
    <2>5. EngQueued
      BY <2>1 DEF EngQueued
    <2> QED
      BY <2>2, <2>3, <2>4, <2>5 DEF EngTicketsInv, EngTickets, Ended, EndedOnce, Unclaimed
  <1>2. EngInv /\ EngTicketsInv /\ [Next]_vars => EngTicketsInv'
    <2> SUFFICES ASSUME EngInv, EngTicketsInv, [Next]_vars PROVE EngTicketsInv'
      OBVIOUS
    <2>1. EngTypes
      BY DEF EngInv
    <2>2. ASSUME NEW r \in Request, NEW p \in Priority, Insert(r, p) PROVE EngTicketsInv'
      BY <2>1, <2>2, EngInsertKeeps
    <2>3. ASSUME NEW c \in Cpu, Dpc(c) PROVE EngTicketsInv'
      BY <2>1, <2>3, EngDpcTickets
    <2>4. CASE \/ TimerExpires
               \/ \E cause \in {"STOP", "ABORT", "OTHER"} : Isr(cause)
               \/ Sequence \/ StopMark \/ StopDevice \/ StartDevice
               \/ UNCHANGED vars
      BY <2>1, <2>4, EngOtherTickets
    <2> QED
      BY <2>2, <2>3, <2>4 DEF Next
  <1> QED
    BY <1>1, <1>2, EngInvKept, PTL DEF Spec

(* A set whose elements are all equal has at most one.                     *)
LEMMA EngAtMostOne ==
    ASSUME NEW S, \A i, j \in S : i = j
    PROVE  Cardinality(S) <= 1
  <1>1. CASE S = {}
    BY <1>1, FS_EmptySet
  <1>2. CASE S # {}
    <2>1. PICK i \in S : S = {i}
      BY <1>2
    <2>2. Cardinality({i}) = 1
      BY ONLY FS_Singleton
    <2> QED
      BY <2>1, <2>2
  <1> QED
    BY <1>1, <1>2

(* However the timeout DPC and the stop path race, and however many CPUs   *)
(* run the routine, a request is ended by one of them, and once.           *)
THEOREM EngEndedOnce == Spec => []TimeoutStopExclusive
  <1>1. EngTicketsInv => TimeoutStopExclusive
    <2> SUFFICES ASSUME EngTicketsInv, NEW r \in Request
                 PROVE  Cardinality({i \in DOMAIN done[r] : done[r][i] \in {"timeout", "stop"}})
                            <= 1
      BY DEF TimeoutStopExclusive
    <2> DEFINE S == {i \in DOMAIN done[r] : done[r][i] \in {"timeout", "stop"}}
    <2>1. \A i, j \in S : i = j
      BY DEF EngTicketsInv, EngTickets, EndedOnce
    <2> QED
      BY <2>1, EngAtMostOne
  <1> QED
    BY <1>1, EngTicketsKept, PTL
===============================================================================
