------------------------------ MODULE XferPolicy ------------------------------
(***************************************************************************)
(* The transfers of i2cctrl.c that poll under the registry policy, on the  *)
(* DesignWare backend: ExecuteTransferSafe and its retries, the phased     *)
(* transfer, the block and burst transfers and the helpers that put the    *)
(* FIFOs in order between them.  A call is a program of steps; the bus     *)
(* serves the FIFO and interrupts acknowledge causes meanwhile.  Delays    *)
(* (I2cCtrl_Backoff), counters and HardwareFailure are left out.           *)
(***************************************************************************)
EXTENDS I2cHal

CONSTANTS
    XpLen,        \* bytes of a transfer
    XpDepth,      \* TxFifoDepth
    XpTarget,     \* the device addressed
    XpStopCause,  \* the cause of the raw register that I2C_INT_STOP_DETECTED selects: "stop", or
                  \* "none" where the causes are numbered as in the header of the backend
    XpMaxCalls    \* bound: calls, and FIFO helpers run

ASSUME XpAssumption == XpLen \in Nat \ {0} /\ XpDepth \in Nat \ {0} /\ XpMaxCalls \in Nat

VARIABLES
    xpBus,        \* the controller
    xpCall,       \* the call being made
    xpSteps,      \* what is left of its program
    xpTx,         \* TxIndex
    xpGot,        \* bytes read
    xpSent,       \* commands of this attempt that the FIFO took and kept
    xpEnd,        \* "running", "ok" or "failed"
    xpTries,      \* tries left
    xpMaxRetries, \* PolicyMaxRetries
    xpMade,       \* calls made
    xpClean       \* history: the call found nothing left over, retried nothing
                  \* and no interrupt acknowledged an abort before it looked

xpVars == <<xpBus, xpCall, xpSteps, xpTx, xpGot, xpSent, xpEnd, xpTries, xpMaxRetries, xpMade, xpClean>>

XpInit ==
    /\ xpBus = HalIdle({XpTarget})
    /\ xpCall = "none" /\ xpSteps = <<>> /\ xpEnd = "ok"
    /\ xpTx = 0 /\ xpGot = <<>> /\ xpSent = <<>>
    /\ xpTries = 0 /\ xpMaxRetries = 0 /\ xpMade = 0 /\ xpClean = FALSE

XpEach(step) == [k \in 1..XpLen |-> step]

(* The programs: a write, ask or get waits and then moves one byte, a room *)
(* only waits: the read asks by EmitReadRequest, which this backend has not. *)
ExecuteTransferSafe(read) ==
    IF read THEN XpEach("room") \o XpEach("get") \o <<"stopSeen">>
    ELSE XpEach("write") \o <<"stopSeen">>
RunTransferPhased == XpEach("write") \o XpEach("ask") \o <<"stop">> \o XpEach("get") \o <<"stopAck">>
ReadBlock == <<"reg">> \o XpEach("askNow") \o XpEach("get")
WriteBlock == <<"regWait">> \o XpEach("write")
ReadBurstPolled == XpEach("askEmpty") \o <<"stop">> \o XpEach("getBurst")
WriteBurstPolled(stop) == XpEach("writeEmpty") \o IF stop THEN <<"stop", "stopStatus">> ELSE <<>>

XpProgram ==
    [write |-> ExecuteTransferSafe(FALSE), read |-> ExecuteTransferSafe(TRUE),
     phased |-> RunTransferPhased, readBlock |-> ReadBlock, writeBlock |-> WriteBlock,
     readBurst |-> ReadBurstPolled,
     writeBurst |-> WriteBurstPolled(FALSE), writeBurstStop |-> WriteBurstPolled(TRUE)]

XpWithPolicy == {"write", "read"}                \* called by RunTransferWithPolicy
XpBursts == {"readBurst", "writeBurst", "writeBurstStop"}

RetriesOf(registry) == IF registry <= 10 THEN registry ELSE 3

LoadRegistryPolicy ==
    /\ xpSteps = <<>> /\ xpMade = 0
    /\ \E registry \in {0, 1, 11} : xpMaxRetries' = RetriesOf(registry)
    /\ UNCHANGED <<xpBus, xpCall, xpSteps, xpTx, xpGot, xpSent, xpEnd, xpTries, xpMade, xpClean>>

(* TryWithRetry retries 3 times when the policy says 0.                    *)
XpBegin(call) ==
    /\ xpSteps = <<>> /\ xpMade < XpMaxCalls /\ xpMade' = xpMade + 1
    /\ xpCall' = call /\ xpSteps' = XpProgram[call] /\ xpEnd' = "running"
    /\ xpTx' = 0 /\ xpGot' = <<>> /\ xpSent' = <<>>
    /\ xpTries' = CASE call \in XpWithPolicy -> xpMaxRetries
                     [] call \in XpBursts -> IF xpMaxRetries = 0 THEN 3 ELSE xpMaxRetries
                     [] OTHER -> 0
    /\ xpClean' = (xpBus.tx = <<>> /\ xpBus.rx = <<>> /\ xpBus.raw = {} /\ xpBus.on)
    /\ xpBus' = DwSetTarget7bit(xpBus, XpTarget)
    /\ UNCHANGED xpMaxRetries

-----------------------------------------------------------------------------
XpAt(names) == xpSteps # <<>> /\ Head(xpSteps) \in names

XpGoesOn ==
    /\ xpSteps' = Tail(xpSteps)
    /\ xpEnd' = IF Tail(xpSteps) = <<>> THEN "ok" ELSE "running"
    /\ UNCHANGED <<xpCall, xpTries, xpMaxRetries, xpMade, xpClean>>

XpRoom == Len(xpBus.tx) < XpDepth
XpEmpty == DwGetStatus(xpBus).txNotFull
XpArrived == DwGetStatus(xpBus).rxNotEmpty
XpRaised(bit) == bit \in xpBus.raw               \* GetRawIntr

(* A command put into a full FIFO, or while an abort is pending, is lost.  *)
XpTakes == Len(xpBus.tx) < XpDepth /\ xpBus.on /\ ~XpRaised("abort")
XpPut(bus, item) ==
    /\ xpBus' = IF XpTakes THEN bus ELSE xpBus
    /\ xpSent' = IF XpTakes THEN Append(xpSent, item) ELSE xpSent
    /\ UNCHANGED xpGot

XpAsks ==
    \/ XpAt({"ask"}) /\ XpRoom
    \/ XpAt({"askNow"})
    \/ XpAt({"askEmpty"}) /\ XpEmpty

XpIssueReadToken ==
    /\ XpAsks
    /\ XpPut(DwIssueReadToken(xpBus), XpLen)
    /\ XpGoesOn /\ UNCHANGED xpTx

XpWaitRoom ==
    /\ XpAt({"room"}) /\ XpRoom
    /\ XpGoesOn /\ UNCHANGED <<xpBus, xpTx, xpGot, xpSent>>

CheckAckAndClear == ~DwGetStatus(xpBus).abort

XpWriteTxByte ==
    /\ \/ XpAt({"write"}) /\ XpRoom
       \/ XpAt({"writeEmpty"}) /\ XpEmpty /\ CheckAckAndClear
    /\ XpPut(DwCommand(xpBus, "data", 0), xpTx)
    /\ xpTx' = xpTx + 1
    /\ XpGoesOn

XpWriteRegister ==
    /\ XpAt({"reg"}) \/ (XpAt({"regWait"}) /\ XpRoom)
    /\ XpPut(DwIssueWriteByte(xpBus, 1), 0)
    /\ XpGoesOn /\ UNCHANGED xpTx

XpEmitStop ==
    /\ XpAt({"stop"})
    /\ xpBus' = IF XpTakes THEN DwEmitStop(xpBus) ELSE xpBus
    /\ XpGoesOn /\ UNCHANGED <<xpTx, xpGot, xpSent>>

XpReadRxByte ==
    /\ XpAt({"get", "getBurst"}) /\ XpArrived
    /\ LET r == DwReadRxByte(xpBus) IN xpBus' = r.bus /\ xpGot' = Append(xpGot, r.byte)
    /\ XpGoesOn /\ UNCHANGED <<xpTx, xpSent>>

(* The loop of a burst runs out at 2^32 - 1, which the test for 0 misses,  *)
(* and a byte that came on the last try counts as a timeout.               *)
XpBurstRunsOut ==
    /\ \/ XpAt({"getBurst"}) /\ ~XpArrived /\ xpGot' = Append(xpGot, HalNothing)
          /\ UNCHANGED <<xpBus, xpSent>>
       \/ XpAt({"askEmpty"}) /\ ~XpEmpty /\ XpPut(DwIssueReadToken(xpBus), XpLen)
    /\ XpGoesOn /\ UNCHANGED xpTx

(* An abort counts before a stop.                                          *)
XpStopSeenFirst == XpRaised(XpStopCause)
XpStopSeen == XpRaised(XpStopCause) /\ ~XpRaised("abort")

XpSeesStop ==
    /\ XpAt({"stopSeen", "stopAck"}) /\ XpStopSeen
    /\ xpBus' = IF XpAt({"stopAck"}) THEN DwAckInterrupts(xpBus) ELSE xpBus
    /\ XpGoesOn /\ UNCHANGED <<xpTx, xpGot, xpSent>>

-----------------------------------------------------------------------------
(* A retry runs the program again, with TxIndex where it was; the FIFOs    *)
(* and the causes stay as they are.  A burst starts its buffer again.      *)
XpFails(retry) ==
    /\ IF retry /\ xpTries > 0
       THEN /\ xpSteps' = XpProgram[xpCall] /\ xpTries' = xpTries - 1 /\ xpSent' = <<>>
            /\ IF xpCall \in XpBursts THEN xpTx' = 0 /\ xpGot' = <<>> ELSE UNCHANGED <<xpTx, xpGot>>
            /\ UNCHANGED xpEnd
       ELSE /\ xpSteps' = <<>> /\ xpEnd' = "failed"
            /\ UNCHANGED <<xpTries, xpTx, xpGot, xpSent>>
    /\ xpClean' = FALSE
    /\ UNCHANGED <<xpCall, xpMaxRetries, xpMade>>

XpTimeout ==
    /\ \/ XpAt({"write", "room", "ask", "regWait"}) /\ ~XpRoom
       \/ XpAt({"get"}) /\ ~XpArrived
       \/ XpAt({"getBurst"}) /\ XpArrived      \* on the last try
       \/ XpAt({"askEmpty"}) /\ XpEmpty         \* on the last try
       \/ XpAt({"stopSeen", "stopAck"}) /\ ~XpRaised("abort") /\ ~XpRaised(XpStopCause)
       \/ XpAt({"stopStatus"})
    /\ UNCHANGED xpBus
    /\ XpFails(TRUE)

XpAborts ==
    \/ XpAt({"stopSeen", "stopAck"}) /\ XpRaised("abort") /\ UNCHANGED xpBus /\ XpFails(FALSE)
    \/ XpAt({"writeEmpty"}) /\ ~CheckAckAndClear
       /\ xpBus' = DwAckInterrupts(xpBus) /\ XpFails(TRUE)

-----------------------------------------------------------------------------
(* What is run between transfers.                                          *)
FlushTxFifoBounded == DwAckInterrupts(DwEnable(xpBus, FALSE))
DrainRxFifoBounded == DwDrainRxBounded(xpBus)
QuiesceFifos(waited) == IF waited THEN [HalIdle({XpTarget}) EXCEPT !.tar = xpBus.tar, !.next = xpBus.next,
                                                                  !.on = xpBus.on]
                        ELSE DwAckInterrupts(DrainRxFifoBounded)
DiscardTxEntrySafe == IF xpBus.tx = <<>> THEN xpBus ELSE DwReadRxByte(xpBus).bus
ApplyControllerPolicy == DwEnable(xpBus, TRUE)

XpBetween ==
    /\ xpSteps = <<>> /\ xpMade < XpMaxCalls /\ xpMade' = xpMade + 1
    /\ xpBus' \in {FlushTxFifoBounded, DrainRxFifoBounded, DiscardTxEntrySafe,
                   ApplyControllerPolicy, QuiesceFifos(xpBus.tx = <<>>), QuiesceFifos(FALSE)}
    /\ UNCHANGED <<xpCall, xpSteps, xpTx, xpGot, xpSent, xpEnd, xpTries, xpMaxRetries, xpClean>>

(* The bus serves a command or the device refuses it, which aborts and     *)
(* drops what is queued; an interrupt acknowledges what is raised.         *)
XpServe ==
    /\ xpBus.tx # <<>>
    /\ \E present \in {{}, {XpTarget}} :
          /\ xpBus' = DwServe(xpBus, present)
          /\ xpSent' = IF present = {} /\ xpSteps # <<>> THEN <<>> ELSE xpSent
    /\ UNCHANGED <<xpCall, xpSteps, xpTx, xpGot, xpEnd, xpTries, xpMaxRetries, xpMade, xpClean>>

XpIsr ==
    /\ xpBus.raw # {}
    /\ xpBus' = DwAckInterrupts(xpBus)
    /\ xpClean' = (xpClean /\ ~XpRaised("abort"))
    /\ UNCHANGED <<xpCall, xpSteps, xpTx, xpGot, xpSent, xpEnd, xpTries, xpMaxRetries, xpMade>>

XpNext ==
    \/ LoadRegistryPolicy \/ \E call \in DOMAIN XpProgram : XpBegin(call)
    \/ XpIssueReadToken \/ XpWaitRoom \/ XpWriteTxByte \/ XpWriteRegister \/ XpEmitStop
    \/ XpReadRxByte \/ XpBurstRunsOut \/ XpSeesStop \/ XpTimeout \/ XpAborts \/ XpBetween \/ XpServe \/ XpIsr

XpSpec == XpInit /\ [][XpNext]_xpVars

-----------------------------------------------------------------------------
(* A write of ExecuteTransferSafe, RunTransferPhased and ReadBlock succeed *)
(* only when the controller took and kept every command, in order, and the *)
(* bytes read are the device's in order: whenever the call found the       *)
(* controller clean, needed no retry and saw its abort before the          *)
(* interrupt did.  A stop left over, or TxIndex after a retry, breaks it   *)
(* without those; the write block and the bursts break it anyway, and a    *)
(* read of ExecuteTransferSafe asks for nothing: they are not judged.      *)
XpWhole ==
    CASE xpCall = "write" -> [k \in 1..XpLen |-> k - 1]
      [] xpCall = "phased" -> [k \in 1..XpLen |-> k - 1] \o XpEach(XpLen)
      [] xpCall = "readBlock" -> <<0>> \o XpEach(XpLen)

XpOkIsWhole ==
    xpEnd = "ok" /\ xpClean /\ xpCall \in {"write", "phased", "readBlock"} =>
        /\ xpSent = XpWhole
        /\ \A k \in 1..Len(xpGot) : xpGot[k] = <<XpTarget, xpGot[1][2] + k - 1>>
=============================================================================
