------------------------------ MODULE HidDetect ------------------------------
(***************************************************************************)
(* I2CHID_DetectTouchpad: at every candidate address the header of a HID   *)
(* descriptor is read for its length, then the descriptor.  A read fills   *)
(* the command FIFO, waits for each byte and gives up at a byte that does  *)
(* not come; what it asked for stays in the FIFOs, and the answer can      *)
(* still arrive while the next address is read.  There is at most one      *)
(* touchpad; other devices answer with bytes that are no descriptor.       *)
(***************************************************************************)
EXTENDS I2cHal, FiniteSets

CONSTANTS
    HdAddresses,  \* candidate addresses, in the order of their numbers
    HdHeader,     \* bytes of a header
    HdFull,       \* bytes of a descriptor, more than two headers
    HdDepth       \* commands the command FIFO holds

ASSUME HdAssumption ==
    /\ HdAddresses \subseteq Nat \ {0} /\ IsFiniteSet(HdAddresses)
    /\ HdHeader \in Nat \ {0} /\ HdFull \in Nat /\ HdFull > 2 * HdHeader
    /\ HdDepth \in Nat

VARIABLES
    hdBus,        \* the controller
    hdPad,        \* the touchpad's address, 0 without one
    hdOthers,     \* addresses of other devices
    hdBackend,    \* "dw" or "acpi"
    hdAt,         \* idle, header, descriptor or done
    hdAddr,       \* the address being read, then the one found, 0 for none
    hdTry,        \* attempts at the present read
    hdGot,        \* bytes it has
    hdLate,       \* history: it gave up while commands were unserved
    hdLost        \* history: a command was lost to a full FIFO

hdVars == <<hdBus, hdPad, hdOthers, hdBackend, hdAt, hdAddr, hdTry, hdGot, hdLate, hdLost>>
hdMachine == <<hdPad, hdOthers, hdBackend>>

HdInit ==
    /\ hdBus = HalIdle(HdAddresses) /\ hdPad = 0 /\ hdOthers = {} /\ hdBackend = "dw"
    /\ hdAt = "idle" /\ hdAddr = 0 /\ hdTry = 0 /\ hdGot = <<>>
    /\ hdLate = FALSE /\ hdLost = FALSE

HdPresent == hdOthers \cup ({hdPad} \ {0})

HdTries == 1

(* ReadHidRegister up to its wait: target, register 1, a token per byte.   *)
(* Nobody looks whether the FIFO has room (i2chid.c:334-341).  While the    *)
(* commands are pushed the controller may serve some and make room; those   *)
(* that find the FIFO full are lost.                                        *)
HdLength(at) == IF at = "header" THEN HdHeader ELSE HdFull

HdTaken(b, write, tokens, n) ==
    /\ write = 0 => Len(b.tx) >= HdDepth
    /\ write + tokens = 1 + n \/ Len(b.tx) + write + tokens >= HdDepth

HdIssued(b, a, write, tokens) ==
    LET target == DwSetTarget7bit(DwEnable(b, TRUE), a)
    IN DwPrimeReadTokens(IF write = 1 THEN DwIssueWriteByte(target, 1) ELSE target, tokens)

HdIssueDw(b, a, n) ==
    \E write \in 0..1, tokens \in 0..n :
        /\ HdTaken(b, write, tokens, n) /\ hdBus' = HdIssued(b, a, write, tokens)
        /\ hdLost' = (hdLost \/ write + tokens # 1 + n)

HdIssue(b, a, at, try) ==
    /\ hdAt' = at /\ hdAddr' = a /\ hdTry' = try /\ hdGot' = <<>>
    /\ \/ hdBackend' = "dw" /\ HdIssueDw(b, a, HdLength(at))
       \/ /\ hdBackend' = "acpi" /\ UNCHANGED hdLost
          /\ hdBus' \in AcpiIssueWriteByte(DwSetTarget7bit(b, a), 1, HdPresent')

HdAfter(a) == {x \in HdAddresses : x > a}
HdLeast(S) == CHOOSE x \in S : \A y \in S : x <= y

HdNextAddress(b, a) ==
    IF HdAfter(a) # {} THEN HdIssue(b, HdLeast(HdAfter(a)), "header", 1)
    ELSE /\ hdAt' = "done" /\ hdAddr' = 0 /\ hdTry' = 0 /\ hdGot' = <<>> /\ hdBus' = b
         /\ UNCHANGED hdLost

HdBegin ==
    /\ hdAt = "idle"
    /\ hdPad' \in HdAddresses \cup {0} /\ hdOthers' \in SUBSET (HdAddresses \ {hdPad'})
    /\ hdBackend' \in {"dw", "acpi"}
    /\ HdNextAddress(hdBus, 0)
    /\ UNCHANGED hdLate

HdReading == hdAt \in {"header", "descriptor"}

HdGetStatus == IF hdBackend = "dw" THEN DwGetStatus(hdBus) ELSE AcpiGetStatus(hdBus)

HdServe ==
    /\ hdBus.tx # <<>>
    /\ hdBus' = DwServe(hdBus, HdPresent)
    /\ UNCHANGED <<hdMachine, hdAt, hdAddr, hdTry, hdGot, hdLate, hdLost>>

HdReadByte ==
    /\ HdReading /\ Len(hdGot) < HdLength(hdAt) /\ HdGetStatus.rxNotEmpty
    /\ LET r == DwReadRxByte(hdBus)
       IN hdBus' = r.bus /\ hdGot' = Append(hdGot, r.byte)
    /\ UNCHANGED <<hdMachine, hdAt, hdAddr, hdTry, hdLate, hdLost>>

HdTimedOutUncleared(b) == b
HdTimedOut(b) == DwAckInterrupts(b)      \* and nothing is flushed

HdTimeout ==
    /\ HdReading /\ Len(hdGot) < HdLength(hdAt) /\ ~HdGetStatus.rxNotEmpty
    /\ hdLate' = (hdLate \/ hdBus.tx # <<>>) /\ UNCHANGED hdMachine
    /\ IF hdTry < HdTries THEN HdIssue(HdTimedOut(hdBus), hdAddr, hdAt, hdTry + 1)
       ELSE HdNextAddress(HdTimedOut(hdBus), hdAddr)

(* The length field comes from register 1 of the touchpad; the rest of a   *)
(* descriptor is only looked at for fields that are zero.                  *)
HdLooksRight == hdGot[1] = <<hdPad, 1>>

HdReadDone ==
    /\ HdReading /\ Len(hdGot) = HdLength(hdAt)
    /\ UNCHANGED <<hdMachine, hdLate>>
    /\ LET acked == DwAckInterrupts(hdBus)
       IN CASE ~HdLooksRight -> HdNextAddress(acked, hdAddr)
            [] HdLooksRight /\ hdAt = "header" -> HdIssue(acked, hdAddr, "descriptor", 1)
            [] HdLooksRight /\ hdAt = "descriptor" ->
                  /\ hdAt' = "done"
                  /\ hdBus' = acked /\ UNCHANGED <<hdAddr, hdTry, hdGot, hdLost>>

HdNext ==
    \/ HdBegin \/ HdServe \/ HdReadByte \/ HdTimeout \/ HdReadDone

HdSpec == HdInit /\ [][HdNext]_hdVars

-----------------------------------------------------------------------------
(* A touchpad that is found is found at its address, whatever a read that  *)
(* gave up has left in the FIFOs.                                          *)
HdFoundIsThere == hdAt = "done" /\ hdAddr # 0 => hdAddr = hdPad

(* A touchpad is missed only when some read gave up on commands that were  *)
(* still unserved, when a command was lost to a full FIFO, or with the ACPI *)
(* backend, whose status reports no byte.                                   *)
HdMissedOnlyLate ==
    hdAt = "done" /\ hdAddr = 0 => hdPad = 0 \/ hdLate \/ hdLost \/ hdBackend = "acpi"

(* Detection reports the touchpad that is there and never a stranger, and  *)
(* misses it only when a read gave up before its commands were served or a  *)
(* command was lost.                                                        *)
HdFindsThePad == HdFoundIsThere /\ HdMissedOnlyLate
=============================================================================
