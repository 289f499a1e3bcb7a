---------------------------- MODULE BusProtocols -----------------------------
(***************************************************************************)
(* The calls that move bytes by polling the DesignWare backend: the SMBus  *)
(* protocols, I2cHwRead and I2cHwWrite, and the I2cCtrl_EnableAnd...       *)
(* helpers.  A call is a program of steps; a wait that runs out ends it,   *)
(* and only some calls then reset the controller.  The FIFOs go on being   *)
(* served meanwhile.  No status ever reports a stop (I2cHal), so a call    *)
(* that waits for one gives up.  HardwareFailure is left out.              *)
(***************************************************************************)
EXTENDS I2cHal

CONSTANTS
    BpPresent,    \* addresses of the devices on the bus
    BpAbsent,     \* an address without a device
    BpMaxCount,   \* largest block
    BpDepth,      \* TxFifoDepth
    BpMaxCalls    \* bound: calls made

ASSUME BpAssumption ==
    /\ BpPresent \subseteq Nat \ {0, BpAbsent} /\ BpAbsent \in Nat
    /\ BpMaxCount \in Nat /\ BpDepth \in Nat
    /\ BpMaxCalls \in Nat

VARIABLES
    bpBus,        \* the controller
    bpCall,       \* the call being made
    bpSteps,      \* what is left of its program
    bpGot,        \* bytes it has read
    bpEnd,        \* how the last call ended: "running", "ok" or "failed"
    bpMade,       \* calls made
    bpGaveUp      \* history: a call gave up and left the FIFOs as they were

bpVars == <<bpBus, bpCall, bpSteps, bpGot, bpEnd, bpMade, bpGaveUp>>

BpAddresses == BpPresent \cup {BpAbsent}

BpInit ==
    /\ bpBus = HalIdle(BpAddresses)
    /\ bpCall = "none" /\ bpSteps = <<>> /\ bpGot = <<>> /\ bpEnd = "ok" /\ bpMade = 0 /\ bpGaveUp = FALSE

BpTimes(n, step) == [k \in 1..n |-> step]
BpStop == <<"finish", "check">>

(* The programs.  What follows the count of a block is in BpBlockRest.     *)
BpQuick(read) == (IF read THEN <<"token">> ELSE <<>>) \o BpStop
BpSendByte == <<"cmd">> \o BpStop
BpReceiveByte == <<"token", "byte", "check">>
BpWriteByte == <<"cmd", "data">> \o BpStop
BpSmbusReadByte == <<"cmd", "token", "byte", "check">>
BpWriteWord == <<"cmd", "data", "data">> \o BpStop
BpReadWordShort == <<"cmd", "token", "token", "byte", "check">>
BpReadWord == <<"cmd", "token", "token", "byte", "byte", "check">>
BpBlockRead == <<"cmd", "token", "count">>
BpBlockWrite == <<"cmd", "data">> \o BpTimes(BpMaxCount, "data") \o BpStop
BpBlockProcessCall == <<"cmd", "data">> \o BpTimes(BpMaxCount, "data") \o <<"token", "count">>
BpAlertResponse == <<"token", "byte">> \o BpStop
I2cHwWrite == <<"putCmd", "put", "stop">>
I2cHwRead == <<"ask", "ask", "stop", "byte", "byte">>
EnableAndRead1 == <<"off", "target", "on", "data", "byte">>
EnableAndWrite1 == <<"off", "target", "on", "put", "drained">>
EnableAndReadN == <<"on", "askNow", "byte", "askNow", "byte", "stopped", "off">>
EnableAndWriteN == <<"on", "putCmd", "put", "stopped", "off">>

BpProgram ==
    [quickRead |-> BpQuick(TRUE), quickWrite |-> BpQuick(FALSE),
     sendByte |-> BpSendByte, receiveByte |-> BpReceiveByte,
     writeByte |-> BpWriteByte, readByte |-> BpSmbusReadByte,
     writeWord |-> BpWriteWord, readWord |-> BpReadWord,
     blockRead |-> BpBlockRead, blockWrite |-> BpBlockWrite,
     blockProcessCall |-> BpBlockProcessCall, alertResponse |-> BpAlertResponse,
     hwWrite |-> I2cHwWrite, hwRead |-> I2cHwRead,
     enableRead1 |-> EnableAndRead1, enableWrite1 |-> EnableAndWrite1,
     enableReadN |-> EnableAndReadN, enableWriteN |-> EnableAndWriteN]

BpCalls == DOMAIN BpProgram

(* What a call does before it returns a failure.                           *)
BpResets == {"blockRead", "blockWrite", "alertResponse"}
BpDisables == {"enableReadN", "enableWriteN"}
BpAcks == {"enableRead1", "enableWrite1"}

BpBegin(call, a) ==
    /\ bpSteps = <<>> /\ bpMade < BpMaxCalls /\ bpMade' = bpMade + 1
    /\ bpCall' = call /\ bpSteps' = BpProgram[call] /\ bpGot' = <<>> /\ bpEnd' = "running"
    /\ bpBus' = DwSetTarget7bit(bpBus, a)
    /\ UNCHANGED bpGaveUp

-----------------------------------------------------------------------------
(* One step of the program.                                                *)
BpAtStep(names) == bpSteps # <<>> /\ Head(bpSteps) \in names

BpGoesOn ==
    /\ bpSteps' = Tail(bpSteps)
    /\ bpEnd' = IF Tail(bpSteps) = <<>> THEN "ok" ELSE "running"
    /\ UNCHANGED <<bpCall, bpMade>>

BpWaitTxFifoNotFull == DwGetStatus(bpBus).txNotFull
BpRoom == Len(bpBus.tx) < BpDepth
BpWaitRxFifoNotEmpty == DwGetStatus(bpBus).rxNotEmpty

BpQuiet == UNCHANGED <<bpGot, bpGaveUp>>

BpWrite ==
    /\ \/ BpAtStep({"cmd"}) /\ BpWaitTxFifoNotFull /\ bpBus' = DwIssueWriteByte(bpBus, 1)
       \/ BpAtStep({"data"}) /\ BpWaitTxFifoNotFull /\ bpBus' = DwCommand(bpBus, "data", 0)
       \/ BpAtStep({"token"}) /\ BpWaitTxFifoNotFull /\ bpBus' = DwIssueReadToken(bpBus)
       \/ BpAtStep({"putCmd"}) /\ BpRoom /\ bpBus' = DwIssueWriteByte(bpBus, 1)
       \/ BpAtStep({"put"}) /\ BpRoom /\ bpBus' = DwCommand(bpBus, "data", 0)
       \/ BpAtStep({"ask"}) /\ BpRoom /\ bpBus' = DwIssueReadToken(bpBus)
       \/ BpAtStep({"askNow"}) /\ bpBus' = IF BpRoom THEN DwIssueReadToken(bpBus) ELSE bpBus
       \/ BpAtStep({"stop"}) /\ bpBus' = DwEmitStop(bpBus)
    /\ BpGoesOn /\ BpQuiet

BpReadByte ==
    /\ BpAtStep({"byte"}) /\ BpWaitRxFifoNotEmpty
    /\ LET r == DwReadRxByte(bpBus)
       IN bpBus' = r.bus /\ bpGot' = Append(bpGot, r.byte)
    /\ BpGoesOn
    /\ UNCHANGED bpGaveUp

BpEnable ==                  \* an Enable(FALSE) forgets what was left behind
    /\ \/ BpAtStep({"off"}) /\ bpBus' = DwEnable(bpBus, FALSE) /\ bpGaveUp' = FALSE
       \/ BpAtStep({"on"}) /\ bpBus' = DwEnable(bpBus, TRUE) /\ UNCHANGED bpGaveUp
       \/ BpAtStep({"target", "check"}) /\ UNCHANGED <<bpBus, bpGaveUp>>
    /\ BpGoesOn
    /\ UNCHANGED bpGot

BpWaitRaw ==
    /\ \/ BpAtStep({"drained"}) /\ bpBus.tx = <<>> /\ UNCHANGED bpBus
       \/ BpAtStep({"stopped"}) /\ bpCall = "enableWriteN" /\ DwGetStatus(bpBus).stop
          /\ bpBus' = DwAckInterrupts(bpBus)
    /\ BpGoesOn /\ BpQuiet

(* The count of a block decides what is left of its program.               *)
BpBlockRest(n, pec) ==
    BpTimes(n + pec, "token") \o BpTimes(n + pec, "byte") \o BpStop

BpReadCount ==
    /\ BpAtStep({"count"}) /\ BpWaitRxFifoNotEmpty
    /\ \E n \in 1..BpMaxCount, pec \in IF bpCall = "blockRead" THEN {0, 1} ELSE {0} :
          bpSteps' = BpBlockRest(n, pec)
    /\ LET r == DwReadRxByte(bpBus)
       IN bpBus' = r.bus /\ bpGot' = Append(bpGot, r.byte)
    /\ UNCHANGED <<bpCall, bpEnd, bpMade, bpGaveUp>>

-----------------------------------------------------------------------------
(* A call fails: a wait runs out, the stop is not seen, or a count is 0 or *)
(* too large.  FinishAndWaitStop turns the controller off and on again.    *)
BpReset(b) == DwEnable(DwEnable(b, FALSE), TRUE)

BpMayFail ==
    \/ BpAtStep({"cmd", "data", "token"}) /\ ~BpWaitTxFifoNotFull
    \/ BpAtStep({"putCmd", "put", "ask"}) /\ ~BpRoom
    \/ BpAtStep({"byte", "count"}) /\ ~BpWaitRxFifoNotEmpty
    \/ BpAtStep({"drained"}) /\ bpBus.tx # <<>>
    \/ BpAtStep({"stopped", "finish"})

BpFails(taken) ==
    /\ bpSteps' = <<>> /\ bpEnd' = "failed"
    /\ bpBus' = IF bpCall \in BpResets \/ BpAtStep({"finish"}) THEN BpReset(taken)
                ELSE CASE bpCall \in BpDisables -> DwEnable(taken, FALSE)
                       [] bpCall \in BpAcks -> DwAckInterrupts(taken)
                       [] OTHER -> taken
    /\ bpGaveUp' = (bpCall \notin BpResets \cup BpDisables /\ ~BpAtStep({"finish"}))
    /\ UNCHANGED <<bpCall, bpMade, bpGot>>

BpGiveUp == BpMayFail /\ BpFails(bpBus)

BpBadCount ==
    /\ BpAtStep({"count"}) /\ BpWaitRxFifoNotEmpty
    /\ BpFails(DwReadRxByte(bpBus).bus)

-----------------------------------------------------------------------------
(* The controller, and the interrupt that acknowledges what it raises.     *)
BpServe ==
    /\ bpBus.tx # <<>>
    /\ bpBus' = DwServe(bpBus, BpPresent)
    /\ UNCHANGED <<bpCall, bpSteps, bpGot, bpEnd, bpMade, bpGaveUp>>

BpIsr ==
    /\ bpBus.raw # {}
    /\ bpBus' = DwAckInterrupts(bpBus)
    /\ UNCHANGED <<bpCall, bpSteps, bpGot, bpEnd, bpMade, bpGaveUp>>

BpNext ==
    \/ \E call \in BpCalls, a \in BpAddresses : BpBegin(call, a)
    \/ BpWrite \/ BpReadByte \/ BpEnable \/ BpWaitRaw \/ BpReadCount
    \/ BpGiveUp \/ BpBadCount \/ BpServe \/ BpIsr

BpSpec == BpInit /\ [][BpNext]_bpVars

-----------------------------------------------------------------------------
(* A call that succeeds returns the answers of the device it addressed, in *)
(* the order of its registers, unless an earlier call gave up and left its *)
(* commands or their answers in the FIFOs.  SmbusReadByte, -ReadWord,      *)
(* -ReceiveByte, -BlockProcessCall and I2cHwRead do that; block reads do   *)
(* not.                                                                    *)
BpOwnAnswers ==
    bpEnd = "ok" /\ bpGot # <<>> /\ ~bpGaveUp =>
        \A k \in 1..Len(bpGot) : bpGot[k] = <<bpBus.tar, bpGot[1][2] + k - 1>>
=============================================================================
