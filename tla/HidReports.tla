----------------------------- MODULE HidReports -----------------------------
(***************************************************************************)
(* The two report parsers of i2chid, the callers of the first, and the      *)
(* polling DPC of i2chid_hw_shim.c: a bench that takes one packet and       *)
(* computes what the code would.  A finger's coordinates are the number of  *)
(* the record they come from.                                               *)
(***************************************************************************)
EXTENDS Integers, FiniteSets

CONSTANTS
    RpFingers,    \* I2CHID_MAX_FINGERS
    RpLens,       \* lengths of raw packets
    RpFull,       \* length of a read that fetches the whole buffer
    RpBuffer,     \* length of the buffer the DPC hands to I2CHID_ReadInput
    RpReportSize  \* sizeof(I2CHID_REPORT)

(* A whole buffer is so long that no number of fingers divides it into a   *)
(* record size the legacy parser would believe: 64 bytes for 5 fingers.    *)
ASSUME RpAssumption ==
    /\ RpFingers \in Nat \ {0} /\ RpLens \subseteq Nat
    /\ RpFull \in Nat /\ RpFull >= 6 + 11 * RpFingers
    /\ RpBuffer \in Nat /\ RpReportSize \in Nat

VARIABLES
    rpIn,         \* the packet
    rpOut         \* what became of it

rpVars == <<rpIn, rpOut>>

RpFinger == 1..RpFingers
RpNoFinger == [present |-> FALSE, from |-> 0]
RpSmallest(S) == CHOOSE n \in S : \A k \in S : n <= k
RpPending == [step |-> "pending"]

-----------------------------------------------------------------------------
(* I2CHID_ParseRawPnp0c50: id, count, flags, then seven bytes per finger.   *)
RpRawPackets ==
    [kind : {"raw"}, id : {1, 2, 3}, len : RpLens, count : 0..RpFingers + 1,
     down : SUBSET RpFinger]

RpRecords(p) == IF p.len < 3 THEN 0 ELSE RpSmallest({p.count, RpFingers, (p.len - 3) \div 7})

RpContacts(p) ==
    [i \in RpFinger |-> IF i <= RpRecords(p) THEN [present |-> i \in p.down, from |-> i]
                                             ELSE RpNoFinger]

RpKeptShort(contacts, count) ==
    [i \in RpFinger |-> IF i < count THEN contacts[i] ELSE RpNoFinger]

RpKept(contacts, count) == [i \in RpFinger |-> IF i <= count THEN contacts[i] ELSE RpNoFinger]

RpRawReport(p) ==
    LET contacts == IF p.id = 1 THEN RpContacts(p) ELSE [i \in RpFinger |-> RpNoFinger]
        count == Cardinality({i \in RpFinger : contacts[i].present})
    IN [id |-> IF p.len < 2 THEN 0 ELSE p.id, count |-> count,
        contacts |-> RpKept(contacts, count)]

(* I2CHID_I2cReadReport parses the bytes that came and takes the centroid   *)
(* of the fingers left in the report.  Nothing calls it.                   *)
RpCentroid(r) == {i \in RpFinger : i <= r.count /\ r.contacts[i].present}

RpReadReport ==
    /\ rpOut = RpPending /\ rpIn.kind = "raw"
    /\ LET r == RpRawReport(rpIn)
       IN rpOut' = [step |-> "read", contacts |-> r.contacts, count |-> r.count,
                    centre |-> RpCentroid(r)]
    /\ UNCHANGED rpIn

(* I2CHID_BuildHidInput: five records of five bytes, the count, the buttons. *)
RpHidFingers(r) ==
    [i \in RpFinger |-> IF i <= r.count /\ r.contacts[i].present THEN r.contacts[i]
                                                                 ELSE RpNoFinger]

RpBuildHidInput(r) ==
    [fingers |-> RpHidFingers(r),
     count |-> Cardinality({i \in RpFinger : RpHidFingers(r)[i].present})]

(* I2CHID_ReadInput zeroes its buffer and parses all of it, whatever came:  *)
(* a record counts once its first byte was received.                       *)
RpPadded(p) ==
    [p EXCEPT !.len = RpFull, !.count = IF p.len < 2 THEN 0 ELSE p.count,
              !.down = {i \in p.down : 3 + 7 * (i - 1) < p.len}]

(* It hands back the bytes of the I2CHID_REPORT, and the DPC parses those   *)
(* as if they were a packet: the first byte is the report id, the next two  *)
(* are zero, so the packet has no contacts and no buttons.                 *)
RpAsPacket(r) == [kind |-> "raw", id |-> r.id, len |-> RpBuffer, count |-> 0, down |-> {}]

(* I2CHID_InterruptDpc: no report when I2CHID_ReadInput refuses the buffer. *)
RpInterruptDpc ==
    /\ rpOut = RpPending /\ rpIn.kind = "raw"
    /\ LET inner == RpRawReport(RpPadded(rpIn))
           shown == RpBuildHidInput(RpRawReport(RpAsPacket(inner)))
       IN rpOut' = [step |-> "dpc",
                    hid |-> IF RpBuffer < RpReportSize THEN {} ELSE {shown}]
    /\ UNCHANGED rpIn

-----------------------------------------------------------------------------
(* I2CHID_ParsePnp0c50, which has no caller yet: a six-byte header with the *)
(* packet's length, records of a size inferred from the bytes received, and *)
(* a trailing checksum.  The sender wrote `sent` fingers of `size` bytes    *)
(* and a checksum; `damaged`: a byte behind the header changed on the way;  *)
(* `lucky`: a comparison at a byte that is not the checksum succeeds.       *)
RpHeader == 6
RpSentLen(p) == RpHeader + p.sent * p.size + 1

RpLegacyPackets ==
    {p \in [kind : {"legacy"}, sent : 0..RpFingers, size : 6..10, full : BOOLEAN,
            told : BOOLEAN, cut : 0..9, damaged : BOOLEAN, lucky : BOOLEAN] :
        (p.full => p.cut = 0) /\ (RpSentLen(p) <= RpFull)}

RpLen(p) == IF p.full THEN RpFull ELSE RpSentLen(p) - p.cut
RpPktLen(p) == IF p.told THEN RpSentLen(p) ELSE 0

RpRecordSizeFixed(p) == 8
RpRecordSize(p) ==
    LET div == (RpLen(p) - RpHeader) \div p.sent
    IN IF p.sent # 0 /\ div \in 6..10 THEN div ELSE 8

RpChecksumOk(p, at) == IF at = RpSentLen(p) THEN ~p.damaged ELSE p.lucky

(* Which bytes are compared (0: none), and where the records end.           *)
RpExpected(p) == RpHeader + p.sent * RpRecordSize(p)
RpChecksumAt(p) ==
    IF RpPktLen(p) = RpExpected(p) + 1 /\ RpLen(p) >= RpPktLen(p) THEN RpPktLen(p)
    ELSE IF RpLen(p) = RpExpected(p) + 1 THEN RpLen(p)
    ELSE 0
RpRecordsEnd(p) ==
    IF RpChecksumAt(p) # 0 THEN RpExpected(p)
    ELSE IF RpPktLen(p) # 0 /\ RpPktLen(p) < RpExpected(p) THEN RpPktLen(p)
    ELSE RpSmallest({RpLen(p), RpExpected(p)})

RpRecordEnd(p, i) == RpHeader + i * RpRecordSize(p)
RpFits(p, i) == RpRecordEnd(p, i) <= RpRecordsEnd(p) /\ RpRecordEnd(p, i) <= RpLen(p)

RpAccepts(p) ==
    RpLen(p) >= 6 /\ (RpChecksumAt(p) # 0 => RpChecksumOk(p, RpChecksumAt(p)))

RpLegacy ==
    /\ rpOut = RpPending /\ rpIn.kind = "legacy"
    /\ rpOut' = [step |-> "legacy",
                 read |-> IF RpAccepts(rpIn) THEN {i \in 1..rpIn.sent : RpFits(rpIn, i)} ELSE {}]
    /\ UNCHANGED rpIn

-----------------------------------------------------------------------------
(* I2cHw_PollDpc: up to three reads until one brings five bytes; a second  *)
(* finger whose record is missing is put where the first is; without five    *)
(* bytes the report is a mouse report of zeros.                             *)
RpPolls == [kind : {"poll"}, tries : [1..3 -> {4, 5, 9}], tips : SUBSET {"first", "second"}]

RpGot(tries) ==      \* bytes of the first read that brings five; 0: none did
    LET good == {i \in 1..3 : tries[i] >= 5}
    IN IF good = {} THEN 0 ELSE tries[RpSmallest(good)]

RpShown(got, tips) ==
    {IF t = "second" /\ got < 9 THEN "second at first" ELSE t : t \in tips}

RpPoll ==
    /\ rpOut = RpPending /\ rpIn.kind = "poll"
    /\ rpOut' = [step |-> "poll",
                 shown |-> IF RpGot(rpIn.tries) = 0 THEN {"zeros"}
                           ELSE RpShown(RpGot(rpIn.tries), rpIn.tips)]
    /\ UNCHANGED rpIn

-----------------------------------------------------------------------------
RpNothing == [kind |-> "none"]

RpInit == rpIn = RpNothing /\ rpOut = RpPending

RpArrives ==
    /\ rpIn = RpNothing /\ rpIn' \in RpRawPackets \cup RpLegacyPackets \cup RpPolls
    /\ UNCHANGED rpOut

RpNext == RpArrives \/ RpReadReport \/ RpInterruptDpc \/ RpLegacy \/ RpPoll
RpSpec == RpInit /\ [][RpNext]_rpVars

-----------------------------------------------------------------------------
(* Every finger the parsed report keeps is down in the record of the same   *)
(* number, and that record was received in full.                            *)
RpNoPhantom ==
    rpOut.step = "read" =>
        \A i \in RpFinger : rpOut.contacts[i].present =>
            /\ rpIn.id = 1 /\ i \in rpIn.down /\ i <= rpIn.count
            /\ rpIn.len >= 3 + 7 * i /\ rpOut.contacts[i].from = i

(* ContactCount is the number of fingers received as down, the centroid is  *)
(* that of the fingers kept, and when the fingers that are down come first  *)
(* in the packet none of them is lost; a finger after a gap is wiped by the *)
(* trailing clear of the parser.                                            *)
RpNoneLost ==
    rpOut.step = "read" =>
        LET got == {i \in rpIn.down : rpIn.id = 1 /\ i <= RpRecords(rpIn)}
            kept == {i \in RpFinger : rpOut.contacts[i].present}
        IN /\ rpOut.count = Cardinality(got) /\ rpOut.centre = kept
           /\ got = 1..Cardinality(got) => kept = got

(* The legacy parser reads no byte behind the packet it received.           *)
RpInPacket ==
    rpOut.step = "legacy" =>
        \A i \in rpOut.read : RpHeader + i * RpRecordSize(rpIn) <= RpLen(rpIn)

(* A damaged packet that arrived whole yields no finger, provided its       *)
(* record size can be told: read at its exact length with two fingers or    *)
(* more, or with records of eight bytes.  With one finger read at its exact *)
(* length the checksum is taken for the ninth byte of the record and never  *)
(* compared.                                                                *)
RpChecked ==
    /\ rpOut.step = "legacy"
    /\ rpIn.damaged /\ rpIn.told /\ rpIn.cut = 0
    /\ IF rpIn.full THEN rpIn.size = 8 ELSE rpIn.sent >= 2
    => rpOut.read = {}

(* The parsed report keeps the fingers the raw packet reported as down and  *)
(* no others, each in its place, as long as they come first in the packet.  *)
RpExact == RpNoPhantom /\ RpNoneLost

(* The legacy parser stays inside the packet and takes no finger from a    *)
(* packet whose checksum tells that it is damaged.                         *)
RpGuarded == RpInPacket /\ RpChecked
=============================================================================
