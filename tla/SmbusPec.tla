------------------------------ MODULE SmbusPec -------------------------------
(***************************************************************************)
(* The packet error code of i2cctrl_smbus.c: the two CRC-8 loops, the      *)
(* frames built for a write and checked for a read, and the frame of       *)
(* I2cCtrl_SmbusBlockWrite.  A frame is built for one transfer and may     *)
(* have one byte changed on its way.  PecMax stands for the 32 bytes of a  *)
(* block.  A byte is the set of its bits that are set, bit 0 the lowest.   *)
(***************************************************************************)
EXTENDS Naturals, Sequences

CONSTANTS
    PecMax,       \* largest payload, 32 in the code
    PecByte,      \* bytes a payload is made of
    PecAddress,   \* slave addresses
    PecCommand    \* commands

PecBytes == SUBSET (0..7)

ASSUME PecAssumption ==
    /\ PecMax \in Nat /\ PecByte \subseteq PecBytes /\ PecCommand \subseteq PecBytes
    /\ PecAddress \subseteq PecBytes

VARIABLES
    pecTo,        \* kind of transfer, address and command
    pecBlock,     \* the bytes of the block
    pecFrame,     \* the frame on its way: what the code covers, then the code
    pecChanged    \* a byte of it was changed

pecVars == <<pecTo, pecBlock, pecFrame, pecChanged>>

(* ^, << 1 on a UCHAR, and a number stored in one.                         *)
PecXor(a, b) == (a \ b) \cup (b \ a)
ShiftLeft(byte) == {k + 1 : k \in byte \ {7}}
PecUchar(n) == {k \in 0..7 : (n \div 2^k) % 2 = 1}

(* One turn of the inner loop, its eight turns, and the outer loop.        *)
CrcShiftPlain(crc) == ShiftLeft(crc)
CrcShift(crc) == IF 7 \in crc THEN PecXor(ShiftLeft(crc), {0, 1, 2}) ELSE ShiftLeft(crc)

CrcByte(crc) ==
    LET turns(c) == CrcShift(CrcShift(CrcShift(CrcShift(c)))) IN turns(turns(crc))

Crc8(buf) ==
    LET crc[k \in 0..Len(buf)] == IF k = 0 THEN {} ELSE CrcByte(PecXor(crc[k - 1], buf[k]))
    IN crc[Len(buf)]

WriteHeader(addr) == ShiftLeft(addr)
ReadHeader(addr) == ShiftLeft(addr) \cup {0}

PecClamp(n) == IF n > PecMax THEN PecMax ELSE n

WriteFrame(addr, command, payload) ==
    LET sent == SubSeq(payload, 1, PecClamp(Len(payload)))
        covered == <<WriteHeader(addr), command>> \o sent
    IN Append(covered, Crc8(covered))

ReadCovered(addr, command, payload) ==
    <<WriteHeader(addr), command, ReadHeader(addr)>> \o SubSeq(payload, 1, PecClamp(Len(payload)))

ReadFrameValid(addr, command, payloadWithPec) ==
    /\ Len(payloadWithPec) >= 2
    /\ LET last == Len(payloadWithPec)
       IN payloadWithPec[last] =
              Crc8(ReadCovered(addr, command, SubSeq(payloadWithPec, 1, last - 1)))

(* I2cCtrl_SmbusBlockWrite, whose count is not part of its Buffer.         *)
BlockWriteFrame(addr, command, block) ==
    LET covered == <<WriteHeader(addr), command, PecUchar(Len(block))>> \o block
    IN Append(covered, Crc8(covered))

-----------------------------------------------------------------------------
PecInit ==
    pecTo = <<"none", {}, {}>> /\ pecBlock = <<>> /\ pecFrame = <<>> /\ pecChanged = FALSE

PecAdd ==                    \* the caller fills the block
    /\ pecFrame = <<>> /\ Len(pecBlock) < PecMax
    /\ \E b \in PecByte : pecBlock' = Append(pecBlock, b)
    /\ UNCHANGED <<pecTo, pecFrame, pecChanged>>

(* I2cCtrl_ProcessQueue gives the count and the block as the payload.      *)
PecBuild(addr, command) ==
    /\ pecFrame = <<>> /\ pecBlock # <<>>
    /\ pecTo' = <<"write", addr, command>>
    /\ pecFrame' = WriteFrame(addr, command, <<PecUchar(Len(pecBlock))>> \o pecBlock)
    /\ UNCHANGED <<pecBlock, pecChanged>>

(* The device answers a block read.                                        *)
PecAnswer(addr, command) ==
    /\ pecFrame = <<>> /\ pecBlock # <<>> /\ Len(pecBlock) < PecMax
    /\ pecTo' = <<"answer", addr, command>>
    /\ LET covered == <<WriteHeader(addr), command, ReadHeader(addr),
                         PecUchar(Len(pecBlock))>> \o pecBlock
       IN pecFrame' = Append(covered, Crc8(covered))
    /\ UNCHANGED <<pecBlock, pecChanged>>

PecChange ==
    /\ ~pecChanged /\ pecChanged' = TRUE
    /\ \E k \in 1..Len(pecFrame), b \in PecByte :
          pecFrame[k] # b /\ pecFrame' = [pecFrame EXCEPT ![k] = b]
    /\ UNCHANGED <<pecTo, pecBlock>>

PecNext ==
    \/ PecAdd \/ PecChange
    \/ \E addr \in PecAddress, command \in PecCommand :
          PecBuild(addr, command) \/ PecAnswer(addr, command)

PecSpec == PecInit /\ [][PecNext]_pecVars

-----------------------------------------------------------------------------
(* The code is the remainder of the bytes it covers: a whole frame has the *)
(* remainder 0, and one changed byte is always noticed.                    *)
PecDetects == pecFrame # <<>> => ((Crc8(pecFrame) = {}) <=> ~pecChanged)

(* The two ways to send a block agree, but for a block of the largest      *)
(* size, which the queue's path cuts; and an unchanged answer to a block   *)
(* read is accepted.                                                       *)
PecAgrees ==
    pecFrame # <<>> /\ ~pecChanged =>
        /\ pecTo[1] = "write" /\ Len(pecBlock) < PecMax =>
               pecFrame = BlockWriteFrame(pecTo[2], pecTo[3], pecBlock)
        /\ pecTo[1] = "answer" =>
               ReadFrameValid(pecTo[2], pecTo[3], SubSeq(pecFrame, 4, Len(pecFrame)))

(* The PEC notices every changed byte, accepts the frame that was sent, and*)
(* is the same on both paths that send a block.                            *)
PecSound == PecDetects /\ PecAgrees
=============================================================================
