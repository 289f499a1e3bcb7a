---------------------------- MODULE UartRingProofs ----------------------------
(***************************************************************************)
(* The ring buffer implements the FIFO for every size.                     *)
(***************************************************************************)
EXTENDS UartRing, TLAPS

(* A sequence is the function of its elements.                             *)
LEMMA Elements ==
    ASSUME NEW S, NEW s \in Seq(S)
    PROVE  s = [k \in 1 .. Len(s) |-> s[k]]
  OBVIOUS

(* Indices wrap at Size.                                                   *)
LEMMA Wrap ==
    ASSUME NEW i \in Index
    PROVE  /\ NextIndex(i) = IF i + 1 = Size THEN 0 ELSE i + 1
           /\ NextIndex(i) \in Index
  <1>1. Size \in Nat /\ i \in Nat /\ i < Size
    BY SizeAssumption DEF Index
  <1>2. CASE i + 1 = Size
    BY <1>1, <1>2 DEF Index, NextIndex
  <1>3. CASE i + 1 # Size
    <2>1. i + 1 \in 0 .. Size - 1
      BY <1>1, <1>3
    <2>2. (i + 1) % Size = i + 1
      BY <1>1, <2>1, SMT
    <2> QED
      BY <1>3, <2>1, <2>2 DEF Index, NextIndex
  <1> QED
    BY <1>2, <1>3

(* The type invariant of the ring: the indices stay in the buffer.         *)
THEOREM RingTypes == RingSpec => []RingTypeOK
  <1>1. RingInit => RingTypeOK
    BY SizeAssumption DEF RingInit, RingTypeOK, Index
  <1>2. RingTypeOK /\ [RingNext]_ringVars => RingTypeOK'
    <2> SUFFICES ASSUME RingTypeOK, [RingNext]_ringVars PROVE RingTypeOK'
      OBVIOUS
    <2>1. NextIndex(head) \in Index /\ NextIndex(tail) \in Index
      BY Wrap DEF RingTypeOK
    <2>2. ASSUME NEW v \in Byte, RingPut(v) PROVE RingTypeOK'
      BY <2>1, <2>2 DEF RingTypeOK, RingPut
    <2>3. CASE RingGet
      BY <2>1, <2>3 DEF RingTypeOK, RingGet
    <2>4. CASE Reset
      BY <2>4, SizeAssumption DEF RingTypeOK, Reset, Index
    <2>5. CASE UNCHANGED ringVars
      BY <2>5 DEF RingTypeOK, ringVars
    <2> QED
      BY <2>2, <2>3, <2>4, <2>5 DEF RingNext
  <1> QED
    BY <1>1, <1>2, PTL DEF RingSpec

(* RingAvail is a number below Size and counts Contents.                   *)
LEMMA AvailLength ==
    ASSUME RingTypeOK
    PROVE  /\ RingAvail \in 0 .. Size - 1
           /\ Contents \in Seq(Byte) /\ Len(Contents) = RingAvail
           /\ \A k \in 1 .. RingAvail : Slot(k - 1) \in Index
  <1>1. Size \in Nat /\ head \in 0 .. Size - 1 /\ tail \in 0 .. Size - 1
    BY SizeAssumption DEF RingTypeOK, Index
  <1>2. RingAvail \in 0 .. Size - 1
    BY <1>1 DEF RingAvail
  <1>3. ASSUME NEW k \in 1 .. RingAvail PROVE Slot(k - 1) \in Index
    BY <1>1, <1>2, <1>3 DEF Slot, Index
  <1>4. \A k \in 1 .. RingAvail : buf[Slot(k - 1)] \in Byte
    BY <1>3 DEF RingTypeOK
  <1> QED
    BY <1>2, <1>3, <1>4 DEF Contents

(* Initially, and after a reset, the ring is empty.                        *)
LEMMA EmptyRing ==
    ASSUME RingTypeOK, head = tail
    PROVE  Contents = <<>>
  <1>1. RingAvail = 0
    BY SizeAssumption DEF RingAvail, RingTypeOK, Index
  <1> QED
    BY <1>1, AvailLength

(* A successful put appends, and a refused one found Size - 1 bytes.       *)
LEMMA PutAppends ==
    ASSUME RingTypeOK, RingTypeOK', NEW v \in Byte, RingPut(v)
    PROVE  Queue!Put(v)
  <1>1. /\ Size \in Nat /\ head \in 0 .. Size - 1 /\ tail \in 0 .. Size - 1
        /\ NextIndex(head) = IF head + 1 = Size THEN 0 ELSE head + 1
    BY SizeAssumption, Wrap DEF RingTypeOK, Index
  <1>2. CASE NextIndex(head) # tail
    <2>1. /\ head' = NextIndex(head) /\ tail' = tail
          /\ buf' = [buf EXCEPT ![head] = v] /\ answer' = Moved(v)
      BY <1>2 DEF RingPut
    <2>2. RingAvail' = RingAvail + 1 /\ RingAvail < Size - 1
      BY <1>1, <1>2, <2>1 DEF RingAvail
    <2>3. Slot(RingAvail) = head
      BY <1>1 DEF Slot, RingAvail
    <2>4. ASSUME NEW k \in 1 .. RingAvail PROVE Slot(k - 1) # head
      BY <1>1, <2>4 DEF Slot, RingAvail
    <2>5. \A k : Slot(k)' = Slot(k)
      BY <2>1 DEF Slot
    <2>6. Contents' = [k \in 1 .. RingAvail + 1 |-> buf'[Slot(k - 1)]]
      BY <2>2, <2>1 DEF Contents, Slot
    <2>7. ASSUME NEW k \in 1 .. RingAvail + 1
          PROVE  buf'[Slot(k - 1)] = Append(Contents, v)[k]
      <3>1. CASE k = RingAvail + 1
        <4>1. Slot(k - 1) = head
          BY <3>1, <2>3, AvailLength
        <4>2. buf'[head] = v
          BY <2>1 DEF RingTypeOK
        <4> QED
          BY <3>1, <4>1, <4>2, AvailLength
      <3>2. CASE k # RingAvail + 1
        <4>1. k \in 1 .. RingAvail
          BY <3>2, <2>7, AvailLength
        <4>2. buf'[Slot(k - 1)] = buf[Slot(k - 1)]
          BY <4>1, <2>1, <2>4, AvailLength DEF RingTypeOK
        <4>3. Contents[k] = buf[Slot(k - 1)]
          BY <4>1 DEF Contents
        <4> QED
          BY <4>1, <4>2, <4>3, AvailLength
      <3> QED
        BY <3>1, <3>2
    <2>8. Contents' = Append(Contents, v)
      <3>1. Append(Contents, v) = [k \in 1 .. RingAvail + 1 |-> Append(Contents, v)[k]]
        <4>1. /\ Append(Contents, v) \in Seq(Byte)
              /\ Len(Append(Contents, v)) = RingAvail + 1
          BY AvailLength
        <4> QED
          BY <4>1, Elements
      <3> QED
        BY <3>1, <2>6, <2>7
    <2> QED
      BY <2>1, <2>2, <2>8, AvailLength DEF Queue!Put, Queue!Moved, Moved
  <1>3. CASE NextIndex(head) = tail
    <2>1. UNCHANGED <<buf, head, tail>> /\ answer' = Refused
      BY <1>3 DEF RingPut
    <2>2. RingAvail = Size - 1
      BY <1>1, <1>3 DEF RingAvail
    <2>3. Contents' = Contents
      BY <2>1 DEF Contents, Slot, RingAvail
    <2> QED
      BY <1>1, <2>1, <2>2, <2>3, AvailLength DEF Queue!Put, Queue!Refused, Refused
  <1> QED
    BY <1>2, <1>3

(* A get returns the oldest byte and leaves the rest in their order.       *)
LEMMA GetTakesHead ==
    ASSUME RingTypeOK, RingTypeOK', RingGet
    PROVE  Queue!Get
  <1>1. /\ Size \in Nat /\ head \in 0 .. Size - 1 /\ tail \in 0 .. Size - 1
        /\ NextIndex(tail) = IF tail + 1 = Size THEN 0 ELSE tail + 1
    BY SizeAssumption, Wrap DEF RingTypeOK, Index
  <1>2. CASE tail # head
    <2>1. /\ tail' = NextIndex(tail) /\ UNCHANGED <<buf, head>>
          /\ answer' = Moved(buf[tail])
      BY <1>2 DEF RingGet
    <2>2. RingAvail' = RingAvail - 1 /\ RingAvail > 0
      BY <1>1, <1>2, <2>1 DEF RingAvail
    <2>3. Contents # <<>> /\ Head(Contents) = buf[tail]
      <3>1. Head(Contents) = Contents[1] /\ Contents # <<>>
        BY <2>2, AvailLength
      <3>2. Contents[1] = buf[Slot(1 - 1)]
        BY <2>2, AvailLength DEF Contents
      <3>3. Slot(1 - 1) = tail
        BY <1>1 DEF Slot
      <3> QED
        BY <3>1, <3>2, <3>3
    <2>4. Contents' = [k \in 1 .. RingAvail - 1 |-> buf[Slot(k - 1)']]
      BY <2>1, <2>2 DEF Contents, Slot
    <2>5. ASSUME NEW k \in 1 .. RingAvail - 1
          PROVE  buf[Slot(k - 1)'] = Tail(Contents)[k]
      <3>1. Slot(k - 1)' = Slot(k)
        BY <1>1, <2>1, <2>2, <2>5, AvailLength DEF Slot, RingAvail
      <3>2. k + 1 \in 1 .. RingAvail /\ k \in 1 .. RingAvail - 1
        BY <2>5, AvailLength
      <3>3. Contents[k + 1] = buf[Slot(k)]
        BY <3>2, AvailLength DEF Contents
      <3>4. Tail(Contents)[k] = Contents[k + 1]
        BY <3>2, <2>3, AvailLength
      <3> QED
        BY <3>1, <3>3, <3>4
    <2>6. Contents' = Tail(Contents)
      <3>1. Tail(Contents) = [k \in 1 .. RingAvail - 1 |-> Tail(Contents)[k]]
        <4>1. Tail(Contents) \in Seq(Byte) /\ Len(Tail(Contents)) = RingAvail - 1
          BY <2>3, AvailLength
        <4> QED
          BY <4>1, Elements
      <3> QED
        BY <3>1, <2>4, <2>5
    <2> QED
      BY <2>1, <2>3, <2>6 DEF Queue!Get, Queue!Moved, Moved
  <1>3. CASE tail = head
    <2>1. UNCHANGED <<buf, head, tail>> /\ answer' = Refused
      BY <1>3 DEF RingGet
    <2>2. Contents' = Contents
      BY <2>1 DEF Contents, Slot, RingAvail
    <2>3. Contents = <<>>
      BY <1>3, EmptyRing
    <2> QED
      BY <2>1, <2>2, <2>3 DEF Queue!Get, Queue!Refused, Refused
  <1> QED
    BY <1>2, <1>3

(* For every Size, a ring used under its lock behaves as a FIFO of         *)
(* Size - 1 bytes: RingPut, RingGet and the reset each map to the step of  *)
(* ByteFifo of that name.                                                  *)
THEOREM RingIsFifo == RingSpec => ImplementsFifo
  <1>1. RingInit => Queue!Init
    <2> SUFFICES ASSUME RingInit PROVE Queue!Init
      OBVIOUS
    <2>1. RingTypeOK /\ head = tail
      BY SizeAssumption DEF RingInit, RingTypeOK, Index
    <2> QED
      BY <2>1, EmptyRing DEF RingInit, Queue!Init, Queue!Refused, Refused
  <1>2. RingTypeOK /\ RingTypeOK' /\ [RingNext]_ringVars => [Queue!Next]_<<Contents, answer>>
    <2> SUFFICES ASSUME RingTypeOK, RingTypeOK', [RingNext]_ringVars
                 PROVE  [Queue!Next]_<<Contents, answer>>
      OBVIOUS
    <2>1. ASSUME NEW v \in Byte, RingPut(v) PROVE Queue!Next
      BY <2>1, PutAppends DEF Queue!Next
    <2>2. CASE RingGet
      BY <2>2, GetTakesHead DEF Queue!Next
    <2>3. CASE Reset
      <3>1. Contents' = <<>>
        <4>1. (head = tail)'
          BY <2>3 DEF Reset
        <4>2. RingAvail' = 0
          BY <2>3 DEF Reset, RingAvail
        <4> QED
          BY <4>2 DEF Contents
      <3> QED
        BY <3>1, <2>3 DEF Reset, Queue!Next, Queue!Clear
    <2>4. CASE UNCHANGED ringVars
      BY <2>4 DEF ringVars, Contents, Slot, RingAvail
    <2> QED
      BY <2>1, <2>2, <2>3, <2>4 DEF RingNext
  <1>3. RingSpec => []RingTypeOK
    BY RingTypes
  <1> QED
    BY <1>1, <1>2, <1>3, PTL DEF RingSpec, ImplementsFifo, Queue!Spec
=============================================================================
