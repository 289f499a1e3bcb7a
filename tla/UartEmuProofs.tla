---------------------------- MODULE UartEmuProofs -----------------------------
(***************************************************************************)
(* What the transmit ring and the line settings of uartctrl and the FIFO   *)
(* of the emulator keep.  The two rings give their bytes out in the order  *)
(* in which they went in, each once: the invariants say which slots hold   *)
(* which bytes at every step of a push or pop that is under way.  The line *)
(* is as Config says: the invariant says what of it is done when a thread  *)
(* is in the middle of a setting.  None of the three is locked, and each   *)
(* needs that no two settings, drainers or producers were at work at once, *)
(* which the histories of the models record.                               *)
(***************************************************************************)
EXTENDS UartTransmit, UartLine, Emulator, Integers, SequenceTheorems, TLAPS

UtTypes ==
    /\ utBuf \in [0 .. UtSize - 1 -> Nat] /\ utHead \in 0 .. UtSize - 1 /\ utTail \in 0 .. UtSize - 1
    /\ utLock \in {"free", "held"}
    /\ utAt \in [UtDrainer -> {"idle", "look", "lock", "get", "advance", "send", "again"}]
    /\ utByte \in [UtDrainer -> Nat]
    /\ utPut \in Nat /\ utSent \in Seq(Nat) /\ utRaced \in BOOLEAN

(* TxLock keeps the DPCs of two processors out of one drain.               *)
UtLockHeld ==
    \A d, e \in UtCpu :
        /\ UtDraining(d) => utLock = "held"
        /\ UtDraining(d) /\ UtDraining(e) => d = e

(* A drainer that has looked at the ring and is not done with its byte.    *)
UtWithByte(d) == utAt[d] \in {"advance", "send", "again"}

UtAlone == \A d, e \in UtDrainer : UtWithByte(d) /\ UtWithByte(e) => d = e

(* The bytes that have left the ring, and those that wait in it.           *)
UtTaken == Len(utSent) + (IF \E d \in UtDrainer : utAt[d] = "send" THEN 1 ELSE 0)

UtCount == utPut - UtTaken

UtWrap(i) == IF i < UtSize THEN i ELSE i - UtSize

(* The ring holds the bytes put and not taken, from the tail on.           *)
UtRingHolds ==
    /\ UtCount \in 0 .. UtSize - 1
    /\ utHead = UtWrap(utTail + UtCount)
    /\ \A j \in 0 .. UtCount - 1 : utBuf[UtWrap(utTail + j)] = UtTaken + j + 1

(* The byte a drainer has is the next one to send.                         *)
UtNextByte ==
    \A d \in UtDrainer :
        /\ utAt[d] = "advance" => UtCount >= 1
        /\ utAt[d] \in {"advance", "send"} => utByte[d] = Len(utSent) + 1

UtOrder == UtAlone /\ UtRingHolds /\ UtNextByte /\ \A i \in DOMAIN utSent : utSent[i] = i

UtInv == UtTypes /\ UtLockHeld /\ (utRaced \/ UtOrder)

-----------------------------------------------------------------------------
(* An index less than twice the size wraps once at most.                   *)
LEMMA WrapsOnce ==
    ASSUME NEW n \in Nat \ {0}, NEW x \in 0 .. 2 * n - 1
    PROVE  x % n = (IF x < n THEN x ELSE x - n)
  <1> DEFINE q == x \div n
             r == x % n
  <1>1. x = n * q + r /\ r \in 0 .. n - 1 /\ q \in Int
    OBVIOUS
  <1> HIDE DEF q, r
  <1>2. q >= 0
    <2>1. CASE q <= -1
      <3>1. n * q <= -n
        BY <1>1, <2>1
      <3> QED
        BY <1>1, <3>1
    <2> QED
      BY <1>1, <2>1
  <1>3. q <= 1
    <2>1. CASE q >= 2
      <3>1. n * q >= 2 * n
        BY <1>1, <2>1
      <3> QED
        BY <1>1, <3>1
    <2> QED
      BY <1>1, <2>1
  <1>4. CASE q = 0
    <2>1. x = r
      BY <1>1, <1>4
    <2> QED
      BY <1>1, <2>1 DEF r
  <1>5. CASE q = 1
    <2>1. x = n + r
      BY <1>1, <1>5
    <2> QED
      BY <1>1, <2>1 DEF r
  <1> QED
    BY <1>1, <1>2, <1>3, <1>4, <1>5

(* What the ring's three index computations come to.                       *)
LEMMA UtWraps ==
    ASSUME NEW x \in 0 .. 2 * UtSize - 1
    PROVE  x % UtSize = UtWrap(x) /\ UtWrap(x) \in 0 .. UtSize - 1
  <1>1. x % UtSize = (IF x < UtSize THEN x ELSE x - UtSize)
    BY WrapsOnce, UtAssumption
  <1> QED
    BY <1>1, UtAssumption DEF UtWrap

(* Where the slot of a byte lies, as seen from the head.                   *)
LEMMA UtSlot ==
    ASSUME NEW t \in 0 .. UtSize - 1, NEW c \in 0 .. UtSize - 1, NEW f \in 0 .. UtSize - 1 - c,
           NEW j \in 0 .. c + f - 1
    PROVE  /\ UtWrap(t + j) \in 0 .. UtSize - 1
           /\ UtWrap(UtWrap(t + j) + UtSize - UtWrap(t + c)) =
                  IF j < c THEN UtSize + j - c ELSE j - c
  <1>1. UtSize \in Nat /\ UtSize >= 2 /\ t \in Int /\ c \in Int /\ j \in Int /\ f \in Int
    BY UtAssumption
  <1>2. UtWrap(t + j) \in 0 .. UtSize - 1
    BY <1>1 DEF UtWrap
  <1> QED
    BY <1>1, <1>2 DEF UtWrap

(* A step that neither takes nor sends a byte keeps the order.             *)
LEMMA UtFrame ==
    ASSUME UtTypes, UtOrder, UNCHANGED <<utBuf, utHead, utTail, utPut, utSent, utByte>>,
           \A d \in UtDrainer : /\ UtWithByte(d)' => utAt'[d] = utAt[d]
                                /\ utAt[d] = "send" => utAt'[d] = "send"
    PROVE  UtOrder'
  <1>1. \A d \in UtDrainer : utAt'[d] \in {"advance", "send"} => utAt'[d] = utAt[d]
    BY DEF UtWithByte
  <1>2. (\E d \in UtDrainer : utAt'[d] = "send") <=> (\E d \in UtDrainer : utAt[d] = "send")
    BY <1>1
  <1>3. UtTaken' = UtTaken
    BY <1>2 DEF UtTaken
  <1>4. UtCount' = UtCount
    BY <1>3 DEF UtCount
  <1>5. UtAlone'
    BY DEF UtOrder, UtAlone, UtWithByte
  <1>6. UtRingHolds'
    BY <1>3, <1>4 DEF UtOrder, UtRingHolds, UtWrap
  <1>7. UtNextByte'
    BY <1>1, <1>4 DEF UtOrder, UtNextByte
  <1> QED
    BY <1>5, <1>6, <1>7 DEF UtOrder

(* A write puts its bytes behind those that wait, as many as fit.          *)
LEMMA UtPutKeeps ==
    ASSUME UtTypes, UtOrder, NEW n \in 1 .. 2, UtRingPut(n),
           UNCHANGED <<utTail, utSent, utByte>>,
           \A d \in UtDrainer : /\ UtWithByte(d)' => utAt'[d] = utAt[d]
                                /\ utAt[d] = "send" => utAt'[d] = "send"
    PROVE  UtOrder'
  <1> DEFINE S == UtSize
             t == utTail
             c == UtCount
             f == UtFits(n)
  <1>1. \A d \in UtDrainer : utAt'[d] \in {"advance", "send"} => utAt'[d] = utAt[d]
    BY DEF UtWithByte
  <1>2. (\E d \in UtDrainer : utAt'[d] = "send") <=> (\E d \in UtDrainer : utAt[d] = "send")
    BY <1>1
  <1>3. UtTaken' = UtTaken /\ UtTaken \in Nat
    BY <1>2 DEF UtTaken, UtTypes
  <1>4. /\ S \in Nat /\ S >= 2 /\ t \in 0 .. S - 1 /\ c \in 0 .. S - 1
        /\ utHead \in 0 .. S - 1 /\ utHead = UtWrap(t + c) /\ utPut \in Nat /\ utPut = UtTaken + c
    BY <1>3, UtAssumption DEF UtTypes, UtOrder, UtRingHolds, UtCount
  <1>5. UtFree = S - 1 - c
    <2>1. utTail + UtSize - 1 - utHead \in 0 .. 2 * UtSize - 1
      BY <1>4
    <2>2. UtFree = UtWrap(utTail + UtSize - 1 - utHead)
      BY <2>1, UtWraps DEF UtFree
    <2> QED
      BY <1>4, <2>2 DEF UtWrap
  <1>6. f \in 0 .. S - 1 - c
    BY <1>4, <1>5 DEF UtFits
  <1>7. utPut' = utPut + f /\ utHead' = (utHead + f) % UtSize
    BY DEF UtRingPut
  <1>8. ASSUME NEW i \in 0 .. S - 1
        PROVE  utBuf'[i] = IF UtWrap(i + S - utHead) < f THEN utPut + UtWrap(i + S - utHead) + 1
                                                         ELSE utBuf[i]
    <2>1. i + UtSize - utHead \in 0 .. 2 * UtSize - 1
      BY <1>4
    <2>2. (i + UtSize - utHead) % UtSize = UtWrap(i + UtSize - utHead)
      BY <2>1, UtWraps
    <2> DEFINE K(k) == (k + UtSize - utHead) % UtSize
    <2>3. /\ utBuf' = [k \in DOMAIN utBuf |->
                 IF K(k) < UtFits(n) THEN utPut + K(k) + 1 ELSE utBuf[k]]
          /\ i \in DOMAIN utBuf
      BY DEF UtRingPut, UtTypes
    <2>4. K(i) = UtWrap(i + S - utHead)
      BY <2>2
    <2> HIDE DEF K, f, S
    <2>5. utBuf'[i] = IF K(i) < UtFits(n) THEN utPut + K(i) + 1 ELSE utBuf[i]
      BY ONLY <2>3
    <2> QED
      BY ONLY <2>4, <2>5 DEF f
  <1>9. UtCount' = c + f /\ c + f \in 0 .. S - 1
    <2>1. UtCount' = utPut' - UtTaken'
      BY DEF UtCount
    <2> QED
      BY <1>3, <1>4, <1>6, <1>7, <2>1
  <1>10. utHead' = UtWrap(t + c + f)
    <2>1. utHead + f \in 0 .. 2 * UtSize - 1
      BY <1>4, <1>6
    <2>2. utHead' = UtWrap(utHead + f)
      BY <1>7, <2>1, UtWraps
    <2> QED
      BY <1>4, <1>6, <2>2 DEF UtWrap
  <1>11. ASSUME NEW j \in 0 .. c + f - 1
         PROVE  utBuf'[UtWrap(t + j)] = UtTaken + j + 1
    <2> DEFINE i == UtWrap(t + j)
    <2>1. i \in 0 .. S - 1 /\ UtWrap(i + S - utHead) = IF j < c THEN S + j - c ELSE j - c
      <3>1. t \in 0 .. UtSize - 1 /\ c \in 0 .. UtSize - 1 /\ f \in 0 .. UtSize - 1 - c
            /\ j \in 0 .. c + f - 1 /\ utHead = UtWrap(t + c)
        BY <1>4, <1>6
      <3> HIDE DEF t, c, f
      <3> QED
        BY ONLY <3>1, UtSlot
    <2>2. CASE j < c
      <3>1. UtWrap(i + S - utHead) = S + j - c
        BY <2>1, <2>2
      <3>2. ~(S + j - c < f)
        BY <1>4, <1>6, <2>2
      <3>3. utBuf'[i] = utBuf[i]
        BY <1>8, <2>1, <3>1, <3>2
      <3>4. utBuf[UtWrap(utTail + j)] = UtTaken + j + 1
        BY <1>4, <2>2 DEF UtOrder, UtRingHolds
      <3> QED
        BY <3>3, <3>4
    <2>3. CASE j >= c
      <3>1. UtWrap(i + S - utHead) = j - c
        BY <1>4, <2>1, <2>3
      <3>2. j - c < f
        BY <1>4, <1>6, <2>3
      <3>3. utBuf'[i] = utPut + (j - c) + 1
        BY <1>8, <2>1, <3>1, <3>2
      <3> QED
        BY <1>3, <1>4, <3>3
    <2> QED
      BY <1>4, <1>6, <2>2, <2>3
  <1>12. UtRingHolds'
    <2>1. \A x : UtWrap(x)' = UtWrap(x)
      BY DEF UtWrap
    <2>2. UtCount' \in 0 .. UtSize - 1 /\ utHead' = UtWrap(utTail' + UtCount')
      BY <1>4, <1>6, <1>9, <1>10
    <2>3. \A j \in 0 .. UtCount' - 1 : utBuf'[UtWrap(utTail' + j)] = UtTaken' + j + 1
      <3> SUFFICES ASSUME NEW j \in 0 .. UtCount' - 1
                   PROVE  utBuf'[UtWrap(utTail' + j)] = UtTaken' + j + 1
        OBVIOUS
      <3>0. j \in 0 .. UtCount' - 1 /\ UtCount' = c + f /\ c \in Int /\ f \in Int
        BY <1>4, <1>6, <1>9
      <3>1. j \in 0 .. c + f - 1
        BY ONLY <3>0
      <3>2. utBuf'[UtWrap(t + j)] = UtTaken + j + 1
        BY <1>11, <3>1
      <3> QED
        BY <1>3, <3>2
    <2> QED
      BY <2>2, <2>3 DEF UtRingHolds, UtWrap
  <1>13. UtNextByte'
    <2>1. UtCount >= 1 => UtCount' >= 1
      BY <1>4, <1>6, <1>9
    <2> QED
      BY <1>1, <2>1 DEF UtOrder, UtNextByte
  <1>14. UtAlone'
    BY DEF UtOrder, UtAlone, UtWithByte
  <1> QED
    BY <1>12, <1>13, <1>14 DEF UtOrder

-----------------------------------------------------------------------------
(* Every step keeps the types.                                             *)
LEMMA UtTypesStep ==
    ASSUME UtTypes, [UtStep]_utVars
    PROVE  UtTypes'
  <1> USE DEF UtTypes, utRing, utLine, UtGoto, UtUnlock
  <1>0. UtSize \in Nat /\ UtSize >= 2
    BY UtAssumption
  <1>f. \A n \in 1 .. 2 : UtFits(n) \in Nat
    <2>1. UtFree \in Nat
      <3>1. utTail + UtSize - 1 - utHead \in 0 .. 2 * UtSize - 1
        BY <1>0
      <3> QED
        BY <1>0, <3>1, UtWraps DEF UtFree
    <2> QED
      BY <2>1 DEF UtFits
  <1>p. ASSUME NEW n \in 1 .. 2, UtRingPut(n)
        PROVE  /\ utBuf' \in [0 .. UtSize - 1 -> Nat] /\ utHead' \in 0 .. UtSize - 1
               /\ utPut' \in Nat
    <2>1. utPut' \in Nat
      BY <1>f, <1>p DEF UtRingPut
    <2>2. utHead' \in 0 .. UtSize - 1
      <3>1. utHead + UtFits(n) \in Nat
        BY <1>f
      <3>2. utHead' = (utHead + UtFits(n)) % UtSize
        BY <1>p DEF UtRingPut
      <3> DEFINE x == utHead + UtFits(n)
      <3>3. x \in Nat
        BY <3>1
      <3> HIDE DEF x
      <3>4. x % UtSize \in 0 .. UtSize - 1
        BY ONLY <1>0, <3>3
      <3> QED
        BY <3>2, <3>4 DEF x
    <2>3. \A i \in 0 .. UtSize - 1 : (i + UtSize - utHead) % UtSize \in Nat
      <3>1. \A i \in 0 .. UtSize - 1 : i + UtSize - utHead \in 0 .. 2 * UtSize - 1
        BY <1>0
      <3> QED
        BY <1>0, <3>1, UtWraps
    <2> DEFINE K(k) == (k + UtSize - utHead) % UtSize
    <2>4. /\ utBuf' = [k \in DOMAIN utBuf |->
                 IF K(k) < UtFits(n) THEN utPut + K(k) + 1 ELSE utBuf[k]]
          /\ \A k \in 0 .. UtSize - 1 : K(k) \in Nat
      BY <1>p, <2>3 DEF UtRingPut
    <2> HIDE DEF K
    <2>5. utBuf' \in [0 .. UtSize - 1 -> Nat]
      BY <2>4
    <2> QED
      BY <2>1, <2>2, <2>5
  <1>1. ASSUME NEW w \in UtWriter, NEW n \in 1 .. 2, UtDispatchWrite(w, n) PROVE UtTypes'
    BY <1>1, <1>p DEF UtDispatchWrite
  <1>2. ASSUME NEW w \in UtWriter, NEW n \in 1 .. 2, UtIoctlWrite(w, n) PROVE UtTypes'
    BY <1>2, <1>p DEF UtIoctlWrite, UtDrainer
  <1>3. ASSUME NEW d \in UtDrainer, UtReadsThre(d) PROVE UtTypes'
    BY <1>3 DEF UtReadsThre
  <1>4. ASSUME NEW d \in UtDrainer, UtRingGet(d) PROVE UtTypes'
    <2>1. utRaced' \in BOOLEAN
      BY <1>4 DEF UtRingGet
    <2>2. CASE utTail = utHead
      BY <1>4, <2>1, <2>2 DEF UtRingGet
    <2>3. CASE utTail # utHead
      BY <1>4, <2>1, <2>3 DEF UtRingGet
    <2> QED
      BY <2>2, <2>3
  <1>5. ASSUME NEW d \in UtDrainer, UtAdvances(d) PROVE UtTypes'
    <2>1. utTail' \in 0 .. UtSize - 1
      <3>1. utTail + 1 \in 0 .. 2 * UtSize - 1
        BY <1>0
      <3> QED
        BY <1>5, <3>1, UtWraps DEF UtAdvances, UtNext
    <2> QED
      BY <1>5, <2>1 DEF UtAdvances
  <1>6. ASSUME NEW d \in UtDrainer, UtSends(d) PROVE UtTypes'
    BY <1>6 DEF UtSends
  <1>7. ASSUME NEW d \in UtDrainer, UtGoesOn(d) PROVE UtTypes'
    BY <1>7 DEF UtGoesOn
  <1>8. ASSUME NEW c \in UtCpu, UtDpcStarts(c) \/ UtLocks(c) PROVE UtTypes'
    BY <1>8 DEF UtDpcStarts, UtLocks, UtDrainer
  <1>9. CASE UtDisableInterrupts \/ UtIsr \/ UtShiftsOut \/ UNCHANGED utVars
    BY <1>9 DEF UtDisableInterrupts, UtIsr, UtShiftsOut, utVars
  <1> QED
    BY <1>1, <1>2, <1>3, <1>4, <1>5, <1>6, <1>7, <1>8, <1>9 DEF UtStep, UtDrains

(* A processor drains only while it holds TxLock.                          *)
LEMMA UtLockStep ==
    ASSUME UtTypes, UtLockHeld, [UtStep]_utVars
    PROVE  UtLockHeld'
  <1> USE DEF utRing, utLine
  <1>0. utAt \in [UtDrainer -> {"idle", "look", "lock", "get", "advance", "send", "again"}]
    BY DEF UtTypes
  <1>g. ASSUME NEW d \in UtDrainer, NEW at, UtGoto(d, at)
        PROVE  utAt'[d] = at /\ \A e \in UtDrainer \ {d} : utAt'[e] = utAt[e]
    BY <1>0, <1>g DEF UtGoto
  <1>k. ASSUME UNCHANGED utLock,
               \A c \in UtCpu : utAt'[c] \in {"get", "advance", "send", "again"} => UtDraining(c)
        PROVE  UtLockHeld'
    BY <1>k DEF UtLockHeld, UtDraining
  <1>e. ASSUME NEW d \in UtDrainer, UtGoto(d, "idle"), UtUnlock(d), UtDraining(d)
        PROVE  UtLockHeld'
    <2>1. utAt'[d] = "idle" /\ \A e \in UtDrainer \ {d} : utAt'[e] = utAt[e]
      BY <1>e, <1>g
    <2>2. CASE d \in UtCpu
      <3>1. \A e \in UtCpu : UtDraining(e) => e = d
        BY <1>e, <2>2 DEF UtLockHeld
      <3>2. \A e \in UtCpu : ~UtDraining(e)'
        BY <2>1, <3>1 DEF UtDraining, UtDrainer
      <3> QED
        BY <3>2 DEF UtLockHeld
    <2>3. CASE d \notin UtCpu
      <3>1. UNCHANGED utLock
        BY <1>e, <2>3 DEF UtUnlock
      <3>2. \A c \in UtCpu : utAt'[c] = utAt[c]
        BY <2>1, <2>3 DEF UtDrainer
      <3> QED
        BY <1>k, <3>1, <3>2 DEF UtDraining
    <2> QED
      BY <2>2, <2>3
  <1>1. ASSUME NEW w \in UtWriter, NEW n \in 1 .. 2, UtDispatchWrite(w, n) PROVE UtLockHeld'
    BY <1>1, <1>k DEF UtDispatchWrite, UtDraining
  <1>2. ASSUME NEW w \in UtWriter, NEW n \in 1 .. 2, UtIoctlWrite(w, n) PROVE UtLockHeld'
    <2>1. UtGoto(w, "look") /\ UNCHANGED utLock /\ w \in UtDrainer
      BY <1>2 DEF UtIoctlWrite, UtDrainer
    <2>2. utAt'[w] = "look" /\ \A e \in UtDrainer \ {w} : utAt'[e] = utAt[e]
      BY <2>1, <1>g
    <2> QED
      BY <1>k, <2>1, <2>2 DEF UtDraining, UtDrainer
  <1>3. ASSUME NEW d \in UtDrainer, UtReadsThre(d) PROVE UtLockHeld'
    <2>1. CASE d \in UtCpu
      <3>1. \E at \in {"idle", "lock"} : UtGoto(d, at)
        BY <1>3, <2>1 DEF UtReadsThre
      <3>2. utAt'[d] \in {"idle", "lock"} /\ \A e \in UtDrainer \ {d} : utAt'[e] = utAt[e]
        BY <3>1, <1>g
      <3> QED
        BY <1>3, <1>k, <3>2 DEF UtReadsThre, UtDraining, UtDrainer
    <2>2. CASE d \notin UtCpu
      <3>1. \E at \in {"idle", "get"} : UtGoto(d, at)
        BY <1>3, <2>2 DEF UtReadsThre
      <3>2. \A e \in UtDrainer \ {d} : utAt'[e] = utAt[e]
        BY <3>1, <1>g
      <3> QED
        BY <1>3, <1>k, <2>2, <3>2 DEF UtReadsThre, UtDraining, UtDrainer
    <2> QED
      BY <2>1, <2>2
  <1>4. ASSUME NEW d \in UtDrainer, UtRingGet(d) PROVE UtLockHeld'
    <2>1. UtDraining(d)
      BY <1>4 DEF UtRingGet, UtDraining
    <2>2. CASE utTail = utHead
      BY <1>4, <1>e, <2>1, <2>2 DEF UtRingGet
    <2>3. CASE utTail # utHead
      <3>1. UtGoto(d, "advance") /\ UNCHANGED utLock
        BY <1>4, <2>3 DEF UtRingGet
      <3>2. \A e \in UtDrainer \ {d} : utAt'[e] = utAt[e]
        BY <3>1, <1>g
      <3> QED
        BY <1>k, <2>1, <3>1, <3>2 DEF UtDraining, UtDrainer
    <2> QED
      BY <2>2, <2>3
  <1>5. ASSUME NEW d \in UtDrainer, UtAdvances(d) \/ UtSends(d) PROVE UtLockHeld'
    <2>1. UtDraining(d) /\ UNCHANGED utLock /\ \E at \in {"send", "again"} : UtGoto(d, at)
      BY <1>5 DEF UtAdvances, UtSends, UtDraining
    <2>2. \A e \in UtDrainer \ {d} : utAt'[e] = utAt[e]
      BY <2>1, <1>g
    <2> QED
      BY <1>k, <2>1, <2>2 DEF UtDraining, UtDrainer
  <1>6. ASSUME NEW d \in UtDrainer, UtGoesOn(d) PROVE UtLockHeld'
    <2>1. UtDraining(d)
      BY <1>6 DEF UtGoesOn, UtDraining
    <2>2. CASE utThre
      <3>1. UtGoto(d, "get") /\ UNCHANGED utLock
        BY <1>6, <2>2 DEF UtGoesOn
      <3>2. \A e \in UtDrainer \ {d} : utAt'[e] = utAt[e]
        BY <3>1, <1>g
      <3> QED
        BY <1>k, <2>1, <3>1, <3>2 DEF UtDraining, UtDrainer
    <2>3. CASE ~utThre
      BY <1>6, <1>e, <2>1, <2>3 DEF UtGoesOn
    <2> QED
      BY <2>2, <2>3
  <1>7. ASSUME NEW c \in UtCpu, UtDpcStarts(c) PROVE UtLockHeld'
    <2>1. c \in UtDrainer /\ UtGoto(c, "look") /\ UNCHANGED utLock
      BY <1>7 DEF UtDpcStarts, UtDrainer
    <2>2. utAt'[c] = "look" /\ \A e \in UtDrainer \ {c} : utAt'[e] = utAt[e]
      BY <2>1, <1>g
    <2> QED
      BY <1>k, <2>1, <2>2 DEF UtDraining, UtDrainer
  <1>8. ASSUME NEW c \in UtCpu, UtLocks(c) PROVE UtLockHeld'
    <2>1. c \in UtDrainer /\ UtGoto(c, "get") /\ utLock = "free" /\ utLock' = "held"
      BY <1>8 DEF UtLocks, UtDrainer
    <2>2. \A e \in UtDrainer \ {c} : utAt'[e] = utAt[e]
      BY <2>1, <1>g
    <2>3. \A e \in UtCpu : ~UtDraining(e)
      BY <2>1 DEF UtLockHeld
    <2>4. \A e \in UtCpu : UtDraining(e)' => e = c
      BY <2>2, <2>3 DEF UtDraining, UtDrainer
    <2> QED
      BY <2>1, <2>4 DEF UtLockHeld
  <1>9. CASE UtDisableInterrupts \/ UtIsr \/ UtShiftsOut \/ UNCHANGED utVars
    BY <1>9, <1>k DEF UtDisableInterrupts, UtIsr, UtShiftsOut, utVars, UtDraining
  <1> QED
    BY <1>1, <1>2, <1>3, <1>4, <1>5, <1>6, <1>7, <1>8, <1>9 DEF UtStep, UtDrains

-----------------------------------------------------------------------------
(* Outside a race, every step keeps the order.                             *)
LEMMA UtOrderStep ==
    ASSUME UtTypes, UtLockHeld, UtOrder, [UtStep]_utVars, ~utRaced'
    PROVE  UtOrder'
  <1> USE DEF utRing, utLine
  <1>0. /\ utAt \in [UtDrainer -> {"idle", "look", "lock", "get", "advance", "send", "again"}]
        /\ UtCpu \subseteq UtDrainer /\ UtWriter \subseteq UtDrainer
    BY DEF UtTypes, UtDrainer
  <1>g. ASSUME NEW d \in UtDrainer, NEW at, UtGoto(d, at)
        PROVE  utAt'[d] = at /\ \A e \in UtDrainer \ {d} : utAt'[e] = utAt[e]
    BY <1>0, <1>g DEF UtGoto
  <1>h. ASSUME NEW d \in UtDrainer, utAt[d] # "send",
               UNCHANGED utAt \/ \E at \in {"idle", "look", "lock", "get"} : UtGoto(d, at)
        PROVE  \A e \in UtDrainer : /\ UtWithByte(e)' => utAt'[e] = utAt[e]
                                    /\ utAt[e] = "send" => utAt'[e] = "send"
    <2>1. CASE UNCHANGED utAt
      BY <2>1
    <2>2. CASE \E at \in {"idle", "look", "lock", "get"} : UtGoto(d, at)
      <3>1. utAt'[d] \in {"idle", "look", "lock", "get"} /\ \A e \in UtDrainer \ {d} : utAt'[e] = utAt[e]
        BY <1>g, <2>2
      <3> QED
        BY <1>h, <3>1 DEF UtWithByte
    <2> QED
      BY <1>h, <2>1, <2>2
  <1>c. UtTaken \in Nat /\ UtCount \in 0 .. UtSize - 1 /\ UtSize \in Nat /\ UtSize >= 2
        /\ utPut = UtTaken + UtCount /\ utTail \in 0 .. UtSize - 1 /\ Len(utSent) \in Nat
    <2>1. Len(utSent) \in Nat /\ utTail \in 0 .. UtSize - 1 /\ utPut \in Nat
      BY DEF UtTypes
    <2>2. UtTaken \in Nat
      BY <2>1 DEF UtTaken
    <2>3. UtCount \in 0 .. UtSize - 1
      BY DEF UtOrder, UtRingHolds
    <2>4. UtSize \in Nat /\ UtSize >= 2
      BY UtAssumption
    <2>5. utPut = UtTaken + UtCount
      BY <2>1, <2>2 DEF UtCount
    <2> QED
      BY <2>1, <2>2, <2>3, <2>4, <2>5
  <1>1. ASSUME NEW w \in UtWriter, NEW n \in 1 .. 2, UtDispatchWrite(w, n) PROVE UtOrder'
    <2>1. UtRingPut(n) /\ UNCHANGED <<utTail, utSent, utByte, utAt>>
      BY <1>1 DEF UtDispatchWrite
    <2>2. \A e \in UtDrainer : /\ UtWithByte(e)' => utAt'[e] = utAt[e]
                               /\ utAt[e] = "send" => utAt'[e] = "send"
      BY <2>1
    <2> QED
      BY <2>1, <2>2, UtPutKeeps
  <1>2. ASSUME NEW w \in UtWriter, NEW n \in 1 .. 2, UtIoctlWrite(w, n) PROVE UtOrder'
    <2>1. /\ UtRingPut(n) /\ UNCHANGED <<utTail, utSent, utByte>>
          /\ UtGoto(w, "look") /\ w \in UtDrainer /\ utAt[w] # "send"
      BY <1>0, <1>2 DEF UtIoctlWrite
    <2>2. \A e \in UtDrainer : /\ UtWithByte(e)' => utAt'[e] = utAt[e]
                               /\ utAt[e] = "send" => utAt'[e] = "send"
      BY <1>h, <2>1
    <2> QED
      BY <2>1, <2>2, UtPutKeeps
  <1>3. ASSUME NEW d \in UtDrainer, UtReadsThre(d) \/ UtGoesOn(d) PROVE UtOrder'
    <2>1. /\ UNCHANGED <<utBuf, utHead, utTail, utPut, utSent, utByte>> /\ utAt[d] # "send"
          /\ \E at \in {"idle", "look", "lock", "get"} : UtGoto(d, at)
      BY <1>3 DEF UtReadsThre, UtGoesOn
    <2> QED
      BY <1>h, <2>1, UtFrame
  <1>4. ASSUME NEW d \in UtDrainer, UtRingGet(d) PROVE UtOrder'
    <2>1. CASE utTail = utHead
      <3>1. /\ UNCHANGED <<utBuf, utHead, utTail, utPut, utSent, utByte>> /\ utAt[d] # "send"
            /\ UtGoto(d, "idle")
        BY <1>4, <2>1 DEF UtRingGet
      <3> QED
        BY <1>h, <3>1, UtFrame
    <2>2. CASE utTail # utHead
      <3>1. /\ UtGoto(d, "advance") /\ utByte' = [utByte EXCEPT ![d] = utBuf[utTail]]
            /\ UNCHANGED <<utBuf, utHead, utTail, utPut, utSent>> /\ UtDraining(d)
            /\ utAt[d] = "get"
        BY <1>4, <2>2 DEF UtRingGet, UtDraining
      <3>2. utAt'[d] = "advance" /\ \A e \in UtDrainer \ {d} : utAt'[e] = utAt[e]
        BY <1>g, <3>1
      <3>3. \A e \in UtDrainer \ {d} : ~UtDraining(e)
        <4>1. ~\E e \in UtDrainer \ {d} : UtDraining(e) /\ {d, e} \cap UtWriter # {}
          BY <1>4 DEF UtRingGet
        <4>2. \A e \in UtDrainer \ {d} : UtDraining(e) => d \in UtCpu /\ e \in UtCpu
          BY <4>1 DEF UtDrainer
        <4> QED
          BY <3>1, <4>2 DEF UtLockHeld
      <3>4. \A e \in UtDrainer : utAt[e] # "send" /\ utAt'[e] # "send"
        BY <3>1, <3>2, <3>3 DEF UtDraining
      <3>5. UtTaken' = UtTaken /\ UtTaken = Len(utSent)
        BY <1>c, <3>1, <3>4 DEF UtTaken
      <3>6. UtCount' = UtCount
        BY <3>1, <3>5 DEF UtCount
      <3>7. UtCount >= 1
        BY <1>c, <2>2 DEF UtOrder, UtRingHolds, UtWrap
      <3>8. utBuf[utTail] = Len(utSent) + 1
        <4>1. utBuf[UtWrap(utTail + 0)] = UtTaken + 0 + 1
          BY <1>c, <3>7 DEF UtOrder, UtRingHolds
        <4>2. UtWrap(utTail + 0) = utTail
          BY <1>c DEF UtWrap
        <4> QED
          BY <1>c, <3>5, <4>1, <4>2
      <3>9. UtAlone'
        BY <3>2, <3>3 DEF UtAlone, UtWithByte, UtDraining
      <3>10. UtRingHolds'
        BY <3>1, <3>5, <3>6 DEF UtOrder, UtRingHolds, UtWrap
      <3>11. utByte'[d] = Len(utSent) + 1
        BY <3>1, <3>8 DEF UtTypes
      <3>12. UtNextByte'
        BY <3>1, <3>2, <3>3, <3>6, <3>7, <3>11 DEF UtNextByte, UtDraining
      <3> QED
        BY <3>1, <3>9, <3>10, <3>12 DEF UtOrder
    <2> QED
      BY <2>1, <2>2
  <1>5. ASSUME NEW d \in UtDrainer, UtAdvances(d) PROVE UtOrder'
    <2>1. /\ utAt[d] = "advance" /\ UtGoto(d, "send") /\ utTail' = UtNext(utTail)
          /\ UNCHANGED <<utBuf, utHead, utByte, utPut, utSent>>
      BY <1>5 DEF UtAdvances
    <2>2. utAt'[d] = "send" /\ \A e \in UtDrainer \ {d} : utAt'[e] = utAt[e]
      BY <1>g, <2>1
    <2>3. \A e \in UtDrainer \ {d} : ~UtWithByte(e)
      BY <2>1 DEF UtOrder, UtAlone, UtWithByte
    <2>4. \A e \in UtDrainer : utAt[e] # "send"
      BY <2>1, <2>3 DEF UtWithByte
    <2>5. UtTaken = Len(utSent) /\ UtTaken' = Len(utSent) + 1
      BY <1>c, <2>1, <2>2, <2>4 DEF UtTaken
    <2>6. UtCount >= 1 /\ utByte[d] = Len(utSent) + 1
      BY <2>1 DEF UtOrder, UtNextByte
    <2>7. UtCount' = UtCount - 1
      BY <1>c, <2>1, <2>5 DEF UtCount
    <2>8. utTail' = UtWrap(utTail + 1) /\ utTail' \in 0 .. UtSize - 1
      <3>1. utTail + 1 \in 0 .. 2 * UtSize - 1
        BY <1>c
      <3> QED
        BY <2>1, <3>1, UtWraps DEF UtNext
    <2>9. utHead' = UtWrap(utTail' + UtCount')
      <3>1. utHead' = UtWrap(utTail + UtCount)
        BY <2>1 DEF UtOrder, UtRingHolds
      <3> QED
        BY <1>c, <2>6, <2>7, <2>8, <3>1 DEF UtWrap
    <2>10. ASSUME NEW j \in 0 .. UtCount' - 1
           PROVE  utBuf'[UtWrap(utTail' + j)] = UtTaken' + j + 1
      <3>1. j + 1 \in 0 .. UtCount - 1
        BY <1>c, <2>7
      <3>2. utBuf[UtWrap(utTail + (j + 1))] = UtTaken + (j + 1) + 1
        BY <3>1 DEF UtOrder, UtRingHolds
      <3>3. UtWrap(utTail' + j) = UtWrap(utTail + (j + 1))
        BY <1>c, <2>7, <2>8, <3>1 DEF UtWrap
      <3> QED
        BY <1>c, <2>1, <2>5, <3>2, <3>3
    <2>11. UtRingHolds'
      BY <1>c, <2>6, <2>7, <2>9, <2>10 DEF UtRingHolds, UtWrap
    <2>12. UtNextByte'
      BY <2>1, <2>2, <2>3, <2>6 DEF UtNextByte, UtWithByte
    <2>13. UtAlone'
      BY <2>2, <2>3 DEF UtAlone, UtWithByte
    <2> QED
      BY <2>1, <2>11, <2>12, <2>13 DEF UtOrder
  <1>6. ASSUME NEW d \in UtDrainer, UtSends(d) PROVE UtOrder'
    <2>1. /\ utAt[d] = "send" /\ UtGoto(d, "again") /\ utSent' = Append(utSent, utByte[d])
          /\ UNCHANGED <<utBuf, utHead, utTail, utByte, utPut>>
      BY <1>6 DEF UtSends
    <2>2. utAt'[d] = "again" /\ \A e \in UtDrainer \ {d} : utAt'[e] = utAt[e]
      BY <1>g, <2>1
    <2>3. \A e \in UtDrainer \ {d} : ~UtWithByte(e)
      BY <2>1 DEF UtOrder, UtAlone, UtWithByte
    <2>4. \A e \in UtDrainer : utAt'[e] # "send" /\ utAt'[e] # "advance"
      BY <2>2, <2>3 DEF UtWithByte
    <2>5. /\ Len(utSent') = Len(utSent) + 1 /\ utByte[d] = Len(utSent) + 1
          /\ utSent' \in Seq(Nat) /\ utSent'[Len(utSent) + 1] = utByte[d]
          /\ \A i \in 1 .. Len(utSent) : utSent'[i] = utSent[i]
      BY <2>1 DEF UtTypes, UtOrder, UtNextByte
    <2>6. UtTaken' = UtTaken
      BY <1>c, <2>1, <2>4, <2>5 DEF UtTaken
    <2>7. UtCount' = UtCount
      BY <2>1, <2>6 DEF UtCount
    <2>8. UtRingHolds'
      BY <2>1, <2>6, <2>7 DEF UtOrder, UtRingHolds, UtWrap
    <2>9. UtNextByte'
      BY <2>4 DEF UtNextByte
    <2>10. UtAlone'
      BY <2>2, <2>3 DEF UtAlone, UtWithByte
    <2>11. \A i \in DOMAIN utSent' : utSent'[i] = i
      <3>1. \A i \in 1 .. Len(utSent) : utSent[i] = i
        BY DEF UtOrder, UtTypes
      <3>2. DOMAIN utSent' = 1 .. Len(utSent) + 1
        BY <1>c, <2>5
      <3> QED
        BY <1>c, <2>5, <3>1, <3>2
    <2> QED
      BY <2>8, <2>9, <2>10, <2>11 DEF UtOrder
  <1>7. ASSUME NEW c \in UtCpu, UtDpcStarts(c) \/ UtLocks(c) PROVE UtOrder'
    <2>1. /\ UNCHANGED <<utBuf, utHead, utTail, utPut, utSent, utByte>> /\ utAt[c] # "send"
          /\ \E at \in {"idle", "look", "lock", "get"} : UtGoto(c, at)
      BY <1>7 DEF UtDpcStarts, UtLocks
    <2> QED
      BY <1>0, <1>h, <2>1, UtFrame
  <1>8. CASE UtDisableInterrupts \/ UtIsr \/ UtShiftsOut \/ UNCHANGED utVars
    <2>1. UNCHANGED <<utBuf, utHead, utTail, utPut, utSent, utByte, utAt>>
      BY <1>8 DEF UtDisableInterrupts, UtIsr, UtShiftsOut, utVars
    <2> QED
      BY <2>1, UtFrame
  <1> QED
    BY <1>1, <1>2, <1>3, <1>4, <1>5, <1>6, <1>7, <1>8 DEF UtStep, UtDrains

(* However many writers and processors, and whatever the size of the ring, *)
(* the UART gets every byte once and in order while no drain has raced.    *)
THEOREM UtAlwaysInOrder == UtSpec => []UtInOrder
  <1>1. UtInit => UtInv
    <2> SUFFICES ASSUME UtInit PROVE UtInv
      OBVIOUS
    <2>1. UtTypes
      <3>1. utBuf \in [0 .. UtSize - 1 -> Nat] /\ utByte \in [UtDrainer -> Nat]
        BY DEF UtInit
      <3>2. utAt \in [UtDrainer -> {"idle", "look", "lock", "get", "advance", "send", "again"}]
        BY DEF UtInit
      <3>3. 0 \in 0 .. UtSize - 1
        BY UtAssumption
      <3> QED
        <4>1. /\ utHead = 0 /\ utTail = 0 /\ utLock = "free" /\ utPut = 0 /\ utRaced = FALSE
              /\ utSent \in Seq(Nat)
          BY DEF UtInit
        <4> QED
          BY <3>1, <3>2, <3>3, <4>1 DEF UtTypes
    <2>2. \A d \in UtDrainer : utAt[d] = "idle"
      BY DEF UtInit
    <2>3. UtLockHeld
      BY <2>2 DEF UtLockHeld, UtDraining, UtDrainer
    <2>4. Len(utSent) = 0 /\ utSent = <<>> /\ utPut = 0 /\ utHead = 0 /\ utTail = 0
      BY DEF UtInit
    <2>5. UtTaken = 0
      BY <2>2, <2>4 DEF UtTaken
    <2>6. UtCount = 0
      BY <2>4, <2>5 DEF UtCount
    <2>7. UtRingHolds
      BY <2>4, <2>6, UtAssumption DEF UtRingHolds, UtWrap
    <2>8. UtAlone /\ UtNextByte
      BY <2>2 DEF UtAlone, UtNextByte, UtWithByte
    <2>9. \A i \in DOMAIN utSent : utSent[i] = i
      BY <2>4
    <2> QED
      BY <2>1, <2>3, <2>7, <2>8, <2>9 DEF UtInv, UtOrder
  <1>2. UtInv /\ [UtStep]_utVars => UtInv'
    <2> SUFFICES ASSUME UtInv, [UtStep]_utVars PROVE UtInv'
      OBVIOUS
    <2>1. UtTypes /\ UtLockHeld
      BY DEF UtInv
    <2>2. UtTypes' /\ UtLockHeld'
      BY <2>1, UtTypesStep, UtLockStep
    <2>3. ASSUME ~utRaced' PROVE UtOrder'
      <3>1. ~utRaced
        BY <2>3 DEF UtStep, UtDrains, UtDispatchWrite, UtIoctlWrite, UtReadsThre, UtRingGet,
           UtAdvances, UtSends, UtGoesOn, UtDpcStarts, UtLocks, UtDisableInterrupts, UtIsr,
           UtShiftsOut, utVars, utLine, utRing
      <3>2. UtOrder
        BY <3>1 DEF UtInv
      <3> QED
        BY <2>1, <2>3, <3>2, UtOrderStep
    <2> QED
      BY <2>2, <2>3 DEF UtInv
  <1>3. UtInv => UtInOrder
    BY DEF UtInv, UtOrder, UtInOrder
  <1> QED
    BY <1>1, <1>2, <1>3, PTL DEF UtSpec

-----------------------------------------------------------------------------
EmAts == {"idle", "push", "advance", "reset", "resetTail", "pop"}

EmTypes ==
    /\ emData \in [0 .. EmSize - 1 -> Nat] /\ emHead \in 0 .. EmSize - 1 /\ emTail \in 0 .. EmSize - 1
    /\ emAt \in [EmActor -> EmAts] /\ emNext \in [EmActor -> 0 .. EmSize - 1]
    /\ emPut \in Nat /\ emGot \in Seq(Nat) /\ emRaced \in BOOLEAN

(* A pop is between the read of the byte and the store of the tail.        *)
EmPopping == \E a \in EmActor : emAt[a] = "pop"

(* The bytes the HAL has taken out of the ring, those in it, and the one   *)
(* that is stored and not yet inside the head.                             *)
EmPopped == Len(emGot) - (IF EmPopping THEN 1 ELSE 0)

EmUnpublished == IF \E a \in EmActor : emAt[a] = "advance" THEN 1 ELSE 0

EmHeld == emPut - EmPopped

EmWrap(i) == IF i < EmSize THEN i ELSE i - EmSize

(* The FIFO holds the bytes stored and not popped, from the tail on.       *)
EmRingHolds ==
    /\ EmHeld \in EmUnpublished .. EmSize - 1
    /\ emHead = EmWrap(emTail + EmHeld - EmUnpublished)
    /\ \A j \in 0 .. EmHeld - 1 : emData[EmWrap(emTail + j)] = EmPopped + j + 1

(* One producer, one consumer, and a reset alone: what no race means.      *)
EmExclusive ==
    /\ \A a, b \in EmActor : EmPushing(a) /\ EmPushing(b) => a = b
    /\ \A a, b \in EmActor : emAt[a] = "pop" /\ emAt[b] = "pop" => a = b
    /\ \A a, b \in EmActor : EmResetting(a) /\ a # b => emAt[b] = "idle"

EmOrder ==
    /\ EmExclusive
    /\ \A i \in DOMAIN emGot : emGot[i] = i
    /\ (\A a \in EmActor : emAt[a] # "resetTail") => EmRingHolds
    /\ EmPopping => Len(emGot) >= 1 /\ EmHeld > EmUnpublished
    /\ \A a \in EmActor : /\ emAt[a] = "advance" => emNext[a] = EmWrap(emHead + 1)
                          /\ emAt[a] = "resetTail" => emHead = 0

EmInv == EmTypes /\ (emRaced \/ EmOrder)

-----------------------------------------------------------------------------
(* The FIFO's index computations wrap once.                                *)
LEMMA EmWraps ==
    ASSUME NEW x \in 0 .. EmSize
    PROVE  x % EmSize = EmWrap(x) /\ (x < EmSize => EmWrap(x) = x) /\ EmWrap(EmSize) = 0
  <1>1. x \in 0 .. 2 * EmSize - 1 /\ EmSize \in Nat \ {0} /\ EmSize >= 2
    BY EmAssumption
  <1>2. x % EmSize = (IF x < EmSize THEN x ELSE x - EmSize)
    BY <1>1, WrapsOnce
  <1> QED
    BY <1>1, <1>2 DEF EmWrap

(* A successor of a slot is a slot.                                        *)
LEMMA EmNextSlot ==
    ASSUME NEW i \in 0 .. EmSize - 1
    PROVE  (i + 1) % EmSize = EmWrap(i + 1) /\ (i + 1) % EmSize \in 0 .. EmSize - 1
  <1>1. i + 1 \in 0 .. EmSize /\ EmSize \in Nat /\ EmSize >= 2
    BY EmAssumption
  <1>2. (i + 1) % EmSize = EmWrap(i + 1)
    BY <1>1, EmWraps
  <1> QED
    BY <1>1, <1>2 DEF EmWrap

(* Going to a step changes one actor.                                      *)
LEMMA EmGotoActor ==
    ASSUME EmTypes, NEW a \in EmActor, NEW to \in EmAts, NEW left, EmGoto(a, to, left)
    PROVE  /\ emAt' \in [EmActor -> EmAts]
           /\ emAt'[a] = to /\ \A b \in EmActor \ {a} : emAt'[b] = emAt[b]
  BY DEF EmTypes, EmGoto

(* Every step keeps the types.                                             *)
LEMMA EmTypesStep ==
    ASSUME EmTypes, [EmStep]_emVars
    PROVE  EmTypes'
  <1> USE DEF emPnp, emFifo, emTarget, emFlow, EmAts
  <1>0. EmHal \subseteq EmActor /\ EmThread \subseteq EmActor /\ EmSize \in Nat /\ EmSize >= 2
    BY EmAssumption DEF EmActor
  <1>r. ASSUME NEW a, NEW to, EmRace(a, to) PROVE emRaced' \in BOOLEAN
    BY <1>r DEF EmRace
  <1>1. ASSUME NEW t \in EmActor, NEW to \in {"push", "reset", "pop"}, NEW n,
               EmGoto(t, to, n), EmRace(t, to),
               UNCHANGED <<emData, emHead, emTail, emNext, emPut>>, emGot' \in Seq(Nat)
        PROVE  EmTypes'
    <2>1. emAt' \in [EmActor -> EmAts]
      BY <1>1, EmGotoActor
    <2>2. emRaced' \in BOOLEAN
      BY <1>1, <1>r
    <2> QED
      BY <1>1, <2>1, <2>2 DEF EmTypes
  <1>2. ASSUME NEW t \in EmThread, NEW n \in 1 .. 2, EmPushReport(t, n) PROVE EmTypes'
    <2>1. UNCHANGED <<emData, emHead, emTail, emNext, emPut>> /\ emGot' \in Seq(Nat)
      BY <1>2 DEF EmPushReport, EmTypes
    <2> QED
      BY <1>0, <1>1, <1>2, <2>1 DEF EmPushReport
  <1>3. ASSUME NEW t \in EmThread, EmReset(t) PROVE EmTypes'
    <2>1. UNCHANGED <<emData, emHead, emTail, emNext, emPut>> /\ emGot' \in Seq(Nat)
      BY <1>3 DEF EmReset, EmTypes
    <2> QED
      BY <1>0, <1>1, <1>3, <2>1 DEF EmReset
  <1>4. ASSUME NEW h \in EmHal, NEW full, EmPrime(h, full) PROVE EmTypes'
    <2>1. UNCHANGED <<emData, emHead, emTail, emNext, emPut>> /\ emGot' \in Seq(Nat)
      BY <1>4 DEF EmPrime, EmTypes
    <2> QED
      BY <1>0, <1>1, <1>4, <2>1 DEF EmPrime
  <1>5. ASSUME NEW h \in EmHal, EmReadRxByte(h) PROVE EmTypes'
    <2>1. UNCHANGED <<emData, emHead, emTail, emNext, emPut>> /\ emGot' \in Seq(Nat)
      BY <1>5 DEF EmReadRxByte, EmTypes
    <2> QED
      BY <1>0, <1>1, <1>5, <2>1 DEF EmReadRxByte
  <1>6. ASSUME NEW a \in EmActor, EmFifoPush(a) PROVE EmTypes'
    <2>1. CASE EmFull
      <3>1. /\ \E n : EmGoto(a, "push", n)
            /\ UNCHANGED <<emData, emHead, emTail, emNext, emPut, emGot, emRaced>>
        BY <1>6, <2>1 DEF EmFifoPush
      <3>2. emAt' \in [EmActor -> EmAts]
        BY <3>1, EmGotoActor
      <3> QED
        BY <3>1, <3>2 DEF EmTypes
    <2>2. CASE ~EmFull
      <3>1. /\ EmGoto(a, "advance", emLeft[a] - 1)
            /\ emData' = [emData EXCEPT ![emHead] = emPut + 1] /\ emPut' = emPut + 1
            /\ emNext' = [emNext EXCEPT ![a] = (emHead + 1) % EmSize]
            /\ UNCHANGED <<emHead, emTail, emGot, emRaced>>
        BY <1>6, <2>2 DEF EmFifoPush
      <3>2. emAt' \in [EmActor -> EmAts]
        BY <3>1, EmGotoActor
      <3>3. (emHead + 1) % EmSize \in 0 .. EmSize - 1
        BY EmNextSlot DEF EmTypes
      <3> DEFINE m == (emHead + 1) % EmSize
      <3>4. emNext' = [emNext EXCEPT ![a] = m] /\ m \in 0 .. EmSize - 1
        BY <3>1, <3>3
      <3> HIDE DEF m
      <3>5. emNext' \in [EmActor -> 0 .. EmSize - 1]
        BY <3>4 DEF EmTypes
      <3>6. emData' \in [0 .. EmSize - 1 -> Nat] /\ emPut' \in Nat
        BY <3>1 DEF EmTypes
      <3> QED
        BY <3>1, <3>2, <3>5, <3>6 DEF EmTypes
    <2> QED
      BY <2>1, <2>2
  <1>7. ASSUME NEW a \in EmActor, EmFifoAdvance(a) PROVE EmTypes'
    <2>1. emAt' \in [EmActor -> EmAts]
      BY <1>7, EmGotoActor DEF EmFifoAdvance
    <2>2. /\ emHead' = emNext[a] /\ emNext' = [emNext EXCEPT ![a] = 0]
          /\ UNCHANGED <<emData, emTail, emPut, emGot, emRaced>>
      BY <1>7 DEF EmFifoAdvance
    <2>3. emHead' \in 0 .. EmSize - 1 /\ emNext' \in [EmActor -> 0 .. EmSize - 1]
      BY <1>0, <2>2 DEF EmTypes
    <2> QED
      BY <2>1, <2>2, <2>3 DEF EmTypes
  <1>8. ASSUME NEW a \in EmActor, EmPushed(a) PROVE EmTypes'
    <2>1. emAt' \in [EmActor -> EmAts]
      BY <1>8, EmGotoActor DEF EmPushed
    <2> QED
      BY <1>8, <2>1 DEF EmPushed, EmTypes
  <1>9. ASSUME NEW a \in EmActor, EmResetHead(a) PROVE EmTypes'
    <2>1. emAt' \in [EmActor -> EmAts]
      BY <1>9, EmGotoActor DEF EmResetHead
    <2> QED
      BY <1>0, <1>9, <2>1 DEF EmResetHead, EmTypes
  <1>10. ASSUME NEW a \in EmActor, EmResetRest(a) PROVE EmTypes'
    <2>1. emAt' \in [EmActor -> EmAts]
      BY <1>10, EmGotoActor DEF EmResetRest
    <2>2. /\ emTail' = 0 /\ emPut' = 0 /\ emGot' = <<>> /\ UNCHANGED <<emHead, emNext, emRaced>>
          /\ emData' = [i \in DOMAIN emData |-> 0]
      BY <1>10 DEF EmResetRest
    <2>3. emData' \in [0 .. EmSize - 1 -> Nat] /\ emGot' \in Seq(Nat)
      BY <2>2 DEF EmTypes
    <2> QED
      BY <1>0, <2>1, <2>2, <2>3 DEF EmTypes
  <1>11. ASSUME NEW h \in EmHal, EmFifoPop(h) PROVE EmTypes'
    <2>1. emAt' \in [EmActor -> EmAts]
      BY <1>0, <1>11, EmGotoActor DEF EmFifoPop
    <2>2. emTail' \in 0 .. EmSize - 1
      BY <1>11, EmNextSlot DEF EmFifoPop, EmTypes
    <2> QED
      BY <1>11, <2>1, <2>2 DEF EmFifoPop, EmTypes
  <1>12. CASE \/ EmAddDevice \/ EmFdoPnp \/ UNCHANGED emVars
              \/ \E h \in EmHal : \/ EmInterrupts(h) \/ \E ours \in BOOLEAN : EmSetTarget(h, ours)
                                 \/ \E reg \in {"header", "reportDesc", "other"} :
                                        EmIssueWriteByte(h, reg)
    <2>1. UNCHANGED <<emFifo, emAt, emNext, emPut, emGot, emRaced>>
      BY <1>12 DEF EmAddDevice, EmFdoPnp, EmInterrupts, EmSetTarget, EmIssueWriteByte, emVars
    <2> QED
      BY <2>1 DEF EmTypes
  <1> QED
    BY <1>2, <1>3, <1>4, <1>5, <1>6, <1>7, <1>8, <1>9, <1>10, <1>11, <1>12 DEF EmStep, EmHalCalls

-----------------------------------------------------------------------------
(* The counts follow who stores and who pops.                              *)
LEMMA EmCounts ==
    ASSUME EmTypes
    PROVE  /\ EmUnpublished \in {0, 1} /\ EmPopped \in Int /\ Len(emGot) \in Nat
           /\ (\A a \in EmActor : emAt[a] # "advance") => EmUnpublished = 0
           /\ \A a \in EmActor : emAt[a] = "advance" => EmUnpublished = 1
           /\ EmPopping => EmPopped = Len(emGot) - 1
           /\ ~EmPopping => EmPopped = Len(emGot)
           /\ emPut = EmPopped + EmHeld /\ emPut \in Nat
  <1>1. Len(emGot) \in Nat /\ emPut \in Nat
    BY DEF EmTypes
  <1>2. EmUnpublished \in {0, 1}
    BY DEF EmUnpublished
  <1>3. EmPopped \in Int
    BY <1>1 DEF EmPopped
  <1>4. (\A a \in EmActor : emAt[a] # "advance") => EmUnpublished = 0
    BY DEF EmUnpublished
  <1>5. \A a \in EmActor : emAt[a] = "advance" => EmUnpublished = 1
    BY DEF EmUnpublished
  <1>6. /\ EmPopping => EmPopped = Len(emGot) - 1
        /\ ~EmPopping => EmPopped = Len(emGot)
    BY <1>1 DEF EmPopped
  <1>7. emPut = EmPopped + EmHeld
    BY <1>1, <1>3 DEF EmHeld
  <1> QED
    BY <1>1, <1>2, <1>3, <1>4, <1>5, <1>6, <1>7

(* Who is in a pop, and nobody else, makes the state one of a pop.         *)
LEMMA EmWhoPops ==
    ASSUME NEW a \in EmActor, \A b \in EmActor \ {a} : emAt'[b] = emAt[b],
           emAt[a] = "pop" <=> emAt'[a] = "pop"
    PROVE  EmPopping' <=> EmPopping
  BY DEF EmPopping

(* A step that moves no byte, and no actor into or out of a store, a pop or*)
(* a reset's second half, keeps what the FIFO holds.                       *)
LEMMA EmHoldsKept ==
    ASSUME EmOrder, UNCHANGED <<emData, emHead, emTail, emNext, emPut, emGot>>,
           \A a \in EmActor : \A at \in {"advance", "resetTail", "pop"} :
               emAt'[a] = at <=> emAt[a] = at, EmExclusive'
    PROVE  EmOrder'
  <1>0. EmPopping' <=> EmPopping
    BY DEF EmPopping
  <1>1. EmPopped' = EmPopped
    BY <1>0 DEF EmPopped
  <1>2. EmUnpublished' = EmUnpublished
    <2>1. (\E a \in EmActor : emAt'[a] = "advance") <=> (\E a \in EmActor : emAt[a] = "advance")
      OBVIOUS
    <2> QED
      BY <2>1 DEF EmUnpublished
  <1>3. EmHeld' = EmHeld
    BY <1>1 DEF EmHeld
  <1>4. EmRingHolds => EmRingHolds'
    BY <1>1, <1>2, <1>3 DEF EmRingHolds, EmWrap
  <1> QED
    BY <1>0, <1>2, <1>3, <1>4 DEF EmOrder, EmWrap

(* Who starts a push or a reset without a race starts it alone.            *)
LEMMA EmStarts ==
    ASSUME EmTypes, EmOrder, NEW a \in EmActor, NEW to \in {"push", "reset"}, emAt[a] = "idle",
           emAt'[a] = to, \A b \in EmActor \ {a} : emAt'[b] = emAt[b], EmRace(a, to), ~emRaced', UNCHANGED <<emData, emHead, emTail, emNext, emPut, emGot>>
    PROVE  EmOrder'
  <1>1. \A b \in EmActor \ {a} : /\ ~EmResetting(b) /\ (to = "push" => ~EmPushing(b))
                                 /\ (to = "reset" => emAt[b] = "idle")
    BY DEF EmRace
  <1>2. EmExclusive'
    BY <1>1 DEF EmOrder, EmExclusive, EmPushing, EmResetting
  <1>3. \A b \in EmActor : \A at \in {"advance", "resetTail", "pop"} : emAt'[b] = at <=> emAt[b] = at
    OBVIOUS
  <1> QED
    BY <1>2, <1>3, EmHoldsKept

(* A byte is stored behind those the FIFO holds.                           *)
LEMMA EmStores ==
    ASSUME EmTypes, EmOrder, NEW a \in EmActor, EmFifoPush(a), ~EmFull
    PROVE  EmOrder'
  <1>0. EmSize \in Nat /\ EmSize >= 2 /\ emHead \in 0 .. EmSize - 1 /\ emTail \in 0 .. EmSize - 1
    BY EmAssumption DEF EmTypes
  <1>1. /\ emAt[a] = "push" /\ EmGoto(a, "advance", emLeft[a] - 1)
        /\ emData' = [emData EXCEPT ![emHead] = emPut + 1] /\ emPut' = emPut + 1
        /\ emNext' = [emNext EXCEPT ![a] = (emHead + 1) % EmSize]
        /\ UNCHANGED <<emHead, emTail, emGot>>
    BY DEF EmFifoPush, emFifo
  <1>2. emAt'[a] = "advance" /\ \A b \in EmActor \ {a} : emAt'[b] = emAt[b]
    BY <1>1, EmGotoActor DEF EmAts
  <1>3. \A b \in EmActor \ {a} : ~EmPushing(b) /\ ~EmResetting(b)
    BY <1>1 DEF EmOrder, EmExclusive, EmPushing, EmResetting
  <1>4. \A b \in EmActor : emAt[b] # "advance" /\ emAt[b] # "resetTail" /\ emAt'[b] # "resetTail"
    BY <1>1, <1>2, <1>3 DEF EmPushing, EmResetting
  <1>5. EmUnpublished = 0 /\ EmUnpublished' = 1
    BY <1>2, <1>4 DEF EmUnpublished
  <1>6. EmPopped' = EmPopped
    <2>1. EmPopping' <=> EmPopping
      BY <1>1, <1>2, EmWhoPops
    <2> QED
      BY <1>1, <2>1 DEF EmPopped
  <1>7. /\ EmHeld \in 0 .. EmSize - 1 /\ emHead = EmWrap(emTail + EmHeld)
        /\ \A j \in 0 .. EmHeld - 1 : emData[EmWrap(emTail + j)] = EmPopped + j + 1
    <2>1. EmRingHolds
      BY <1>4 DEF EmOrder
    <2>2. EmHeld \in 0 .. EmSize - 1
      BY <1>5, <2>1 DEF EmRingHolds
    <2>3. emTail + EmHeld - EmUnpublished = emTail + EmHeld
      BY <1>0, <1>5, <2>2
    <2> QED
      BY <2>1, <2>2, <2>3 DEF EmRingHolds
  <1>8. EmPopped \in Int /\ emPut = EmPopped + EmHeld /\ emPut \in Nat
    BY EmCounts
  <1>9. EmHeld' = EmHeld + 1
    <2>1. EmHeld' = emPut' - EmPopped'
      BY DEF EmHeld
    <2> QED
      BY <1>1, <1>6, <1>7, <1>8, <2>1
  <1>10. EmWrap(emHead + 1) # emTail /\ (emHead + 1) % EmSize = EmWrap(emHead + 1)
    BY EmNextSlot, <1>0 DEF EmFull
  <1>11. EmHeld + 1 \in 1 .. EmSize - 1
    BY <1>0, <1>7, <1>10 DEF EmWrap
  <1>12. emHead' = EmWrap(emTail' + EmHeld' - EmUnpublished')
    <2>1. emTail' + EmHeld' - EmUnpublished' = emTail + EmHeld
      BY <1>0, <1>1, <1>5, <1>7, <1>9
    <2> QED
      BY <1>1, <1>7, <2>1
  <1>13. ASSUME NEW j \in 0 .. EmHeld
         PROVE  emData'[EmWrap(emTail + j)] = EmPopped + j + 1
    <2>1. EmWrap(emTail + j) \in 0 .. EmSize - 1
      BY <1>0, <1>7, <1>11 DEF EmWrap
    <2>2. CASE j = EmHeld
      <3>1. EmWrap(emTail + j) = emHead
        BY <1>7, <2>2
      <3>2. emData'[emHead] = emPut + 1
        BY <1>0, <1>1 DEF EmTypes
      <3> QED
        BY <1>7, <1>8, <2>2, <3>1, <3>2
    <2>3. CASE j # EmHeld
      <3>1. j \in 0 .. EmHeld - 1
        BY <1>7, <2>3
      <3>2. EmWrap(emTail + j) # emHead
        BY <1>0, <1>7, <1>11, <3>1 DEF EmWrap
      <3>3. emData'[EmWrap(emTail + j)] = emData[EmWrap(emTail + j)]
        BY <1>1, <2>1, <3>2 DEF EmTypes
      <3> QED
        BY <1>7, <3>1, <3>3
    <2> QED
      BY <2>2, <2>3
  <1>14. EmRingHolds'
    <2>1. EmHeld' \in EmUnpublished' .. EmSize - 1
      BY <1>5, <1>9, <1>11
    <2>2. ASSUME NEW j \in 0 .. EmHeld' - 1
          PROVE  emData'[EmWrap(emTail' + j)] = EmPopped' + j + 1
      <3>1. j \in 0 .. EmHeld
        BY <1>7, <1>9
      <3> QED
        BY <1>1, <1>6, <1>13, <3>1
    <2> QED
      BY <1>12, <2>1, <2>2 DEF EmRingHolds, EmWrap
  <1>15. emNext'[a] = EmWrap(emHead' + 1)
    BY <1>0, <1>1, <1>10 DEF EmTypes
  <1>16. EmPopping' => Len(emGot') >= 1 /\ EmHeld' > EmUnpublished'
    <2>1. EmPopping' => EmPopping
      BY <1>1, <1>2, EmWhoPops
    <2>2. EmPopping => Len(emGot) >= 1 /\ EmHeld > EmUnpublished
      BY DEF EmOrder
    <2> QED
      BY <1>1, <1>5, <1>7, <1>9, <2>1, <2>2
  <1>17. EmExclusive'
    BY <1>1, <1>2, <1>3 DEF EmOrder, EmExclusive, EmPushing, EmResetting
  <1>18. \A b \in EmActor : emAt'[b] = "advance" => b = a
    BY <1>2, <1>4
  <1> QED
    BY <1>1, <1>4, <1>14, <1>15, <1>16, <1>17, <1>18 DEF EmOrder, EmWrap

(* The head takes the stored byte in.                                      *)
LEMMA EmPublishes ==
    ASSUME EmTypes, EmOrder, NEW a \in EmActor, EmFifoAdvance(a)
    PROVE  EmOrder'
  <1>0. EmSize \in Nat /\ EmSize >= 2 /\ emHead \in 0 .. EmSize - 1 /\ emTail \in 0 .. EmSize - 1
    BY EmAssumption DEF EmTypes
  <1>1. /\ emAt[a] = "advance" /\ EmGoto(a, "push", emLeft[a]) /\ emHead' = emNext[a]
        /\ UNCHANGED <<emData, emTail, emGot, emPut>>
    BY DEF EmFifoAdvance
  <1>2. emAt'[a] = "push" /\ \A b \in EmActor \ {a} : emAt'[b] = emAt[b]
    BY <1>1, EmGotoActor DEF EmAts
  <1>3. \A b \in EmActor \ {a} : ~EmPushing(b) /\ ~EmResetting(b)
    BY <1>1 DEF EmOrder, EmExclusive, EmPushing, EmResetting
  <1>4. \A b \in EmActor : emAt'[b] # "advance" /\ emAt[b] # "resetTail" /\ emAt'[b] # "resetTail"
    BY <1>1, <1>2, <1>3 DEF EmPushing, EmResetting
  <1>5. EmUnpublished = 1 /\ EmUnpublished' = 0
    BY <1>1, <1>4 DEF EmUnpublished
  <1>6. EmPopped' = EmPopped
    <2>1. EmPopping' <=> EmPopping
      BY <1>1, <1>2, EmWhoPops
    <2> QED
      BY <1>1, <2>1 DEF EmPopped
  <1>7. EmHeld' = EmHeld
    BY <1>1, <1>6 DEF EmHeld
  <1>8. EmRingHolds
    BY <1>4 DEF EmOrder
  <1>9. EmHeld \in 1 .. EmSize - 1 /\ emHead = EmWrap(emTail + EmHeld - 1)
    BY <1>5, <1>8 DEF EmRingHolds
  <1>10. emHead' = EmWrap(emHead + 1)
    BY <1>1 DEF EmOrder
  <1>11. EmWrap(emHead + 1) = EmWrap(emTail + EmHeld)
    BY <1>0, <1>9 DEF EmWrap
  <1>12. EmRingHolds'
    <2>1. emTail' + EmHeld' - EmUnpublished' = emTail + EmHeld
      BY <1>0, <1>1, <1>5, <1>7, <1>9
    <2>2. emHead' = EmWrap(emTail' + EmHeld' - EmUnpublished')
      BY <1>10, <1>11, <2>1
    <2>3. EmHeld' \in EmUnpublished' .. EmSize - 1
      BY <1>5, <1>7, <1>9
    <2>4. \A j \in 0 .. EmHeld' - 1 : emData'[EmWrap(emTail' + j)] = EmPopped' + j + 1
      BY <1>1, <1>6, <1>7, <1>8 DEF EmRingHolds
    <2> QED
      BY <2>2, <2>3, <2>4 DEF EmRingHolds, EmWrap
  <1>13. EmPopping' => Len(emGot') >= 1 /\ EmHeld' > EmUnpublished'
    <2>1. EmPopping' => EmPopping
      BY <1>1, <1>2, EmWhoPops
    <2> QED
      BY <1>1, <1>5, <1>7, <1>9, <2>1 DEF EmOrder
  <1>14. EmExclusive'
    BY <1>1, <1>2, <1>3 DEF EmOrder, EmExclusive, EmPushing, EmResetting
  <1> QED
    BY <1>1, <1>4, <1>12, <1>13, <1>14 DEF EmOrder

(* The HAL reads the oldest byte of the FIFO and then moves the tail.      *)
LEMMA EmReads ==
    ASSUME EmTypes, EmOrder, NEW h \in EmActor, EmReadRxByte(h), ~emRaced'
    PROVE  EmOrder'
  <1>0. EmSize \in Nat /\ EmSize >= 2 /\ emHead \in 0 .. EmSize - 1 /\ emTail \in 0 .. EmSize - 1
    BY EmAssumption DEF EmTypes
  <1>1. /\ emAt[h] = "idle" /\ EmGoto(h, "pop", 0) /\ emHead # emTail
        /\ emGot' = Append(emGot, emData[emTail]) /\ EmRace(h, "pop")
        /\ UNCHANGED <<emData, emHead, emTail, emNext, emPut>>
    BY DEF EmReadRxByte, emFifo
  <1>2. emAt'[h] = "pop" /\ \A b \in EmActor \ {h} : emAt'[b] = emAt[b]
    BY <1>1, EmGotoActor DEF EmAts
  <1>3. \A b \in EmActor : ~EmResetting(b) /\ emAt[b] # "pop"
    BY <1>1 DEF EmRace, EmResetting
  <1>p. EmPopping' /\ ~EmPopping
    BY <1>2, <1>3 DEF EmPopping
  <1>4. \A b \in EmActor : /\ emAt'[b] = "advance" <=> emAt[b] = "advance"
                           /\ emAt[b] # "resetTail" /\ emAt'[b] # "resetTail"
    BY <1>1, <1>2, <1>3 DEF EmResetting
  <1>5. EmUnpublished' = EmUnpublished
    <2>1. (\E b \in EmActor : emAt'[b] = "advance") <=> (\E b \in EmActor : emAt[b] = "advance")
      BY <1>4
    <2> QED
      BY <2>1 DEF EmUnpublished
  <1>6. EmRingHolds /\ EmUnpublished \in {0, 1} /\ EmPopped = Len(emGot) /\ Len(emGot) \in Nat
    BY <1>p, <1>4, EmCounts DEF EmOrder
  <1>7. EmHeld \in EmUnpublished .. EmSize - 1 /\ emHead = EmWrap(emTail + EmHeld - EmUnpublished)
    BY <1>6 DEF EmRingHolds
  <1>8. EmHeld > EmUnpublished
    BY <1>0, <1>1, <1>6, <1>7 DEF EmWrap
  <1>9. /\ Len(emGot') = Len(emGot) + 1 /\ emGot' \in Seq(Nat)
        /\ emGot'[Len(emGot) + 1] = emData[emTail]
        /\ \A i \in 1 .. Len(emGot) : emGot'[i] = emGot[i]
    BY <1>0, <1>1 DEF EmTypes
  <1>10. EmPopped' = EmPopped
    BY <1>p, <1>6, <1>9 DEF EmPopped
  <1>11. EmHeld' = EmHeld
    BY <1>1, <1>10 DEF EmHeld
  <1>12. emData[emTail] = Len(emGot) + 1
    <2>1. 0 \in 0 .. EmHeld - 1
      BY <1>6, <1>7, <1>8
    <2>2. emData[EmWrap(emTail + 0)] = EmPopped + 0 + 1
      BY <1>6, <2>1 DEF EmRingHolds
    <2>3. EmWrap(emTail + 0) = emTail
      BY <1>0 DEF EmWrap
    <2> QED
      BY <1>6, <2>2, <2>3
  <1>13. \A i \in DOMAIN emGot' : emGot'[i] = i
    <2>1. \A i \in 1 .. Len(emGot) : emGot[i] = i
      BY DEF EmOrder, EmTypes
    <2>2. DOMAIN emGot' = 1 .. Len(emGot) + 1
      BY <1>6, <1>9
    <2> QED
      BY <1>6, <1>9, <1>12, <2>1, <2>2
  <1>14. EmRingHolds'
    BY <1>1, <1>5, <1>6, <1>10, <1>11 DEF EmRingHolds, EmWrap
  <1>15. EmExclusive'
    BY <1>1, <1>2, <1>3 DEF EmOrder, EmExclusive, EmPushing, EmResetting
  <1>16. Len(emGot') >= 1 /\ EmHeld' > EmUnpublished'
    BY <1>5, <1>6, <1>8, <1>9, <1>11
  <1> QED
    BY <1>1, <1>4, <1>13, <1>14, <1>15, <1>16 DEF EmOrder, EmWrap

-----------------------------------------------------------------------------
(* The tail leaves the byte that was read.                                 *)
LEMMA EmPops ==
    ASSUME EmTypes, EmOrder, NEW h \in EmActor, EmFifoPop(h)
    PROVE  EmOrder'
  <1>0. EmSize \in Nat /\ EmSize >= 2 /\ emHead \in 0 .. EmSize - 1 /\ emTail \in 0 .. EmSize - 1
    BY EmAssumption DEF EmTypes
  <1>1. /\ emAt[h] = "pop" /\ EmGoto(h, "idle", 0) /\ emTail' = (emTail + 1) % EmSize
        /\ UNCHANGED <<emData, emHead, emNext, emPut, emGot>>
    BY DEF EmFifoPop
  <1>2. emAt'[h] = "idle" /\ \A b \in EmActor \ {h} : emAt'[b] = emAt[b]
    BY <1>1, EmGotoActor DEF EmAts
  <1>p. EmPopping /\ ~EmPopping'
    BY <1>1, <1>2 DEF EmPopping, EmOrder, EmExclusive
  <1>3. \A b \in EmActor : ~EmResetting(b)
    BY <1>1 DEF EmOrder, EmExclusive, EmResetting
  <1>4. \A b \in EmActor : /\ emAt'[b] = "advance" <=> emAt[b] = "advance"
                           /\ emAt[b] # "resetTail" /\ emAt'[b] # "resetTail"
    BY <1>1, <1>2, <1>3 DEF EmResetting
  <1>5. EmUnpublished' = EmUnpublished
    <2>1. (\E b \in EmActor : emAt'[b] = "advance") <=> (\E b \in EmActor : emAt[b] = "advance")
      BY <1>4
    <2> QED
      BY <2>1 DEF EmUnpublished
  <1>6. /\ EmRingHolds /\ EmUnpublished \in {0, 1} /\ EmPopped = Len(emGot) - 1
        /\ Len(emGot) \in Nat /\ emPut \in Nat
    BY <1>1, <1>p, <1>4, EmCounts DEF EmOrder
  <1>7. /\ EmHeld \in EmUnpublished .. EmSize - 1 /\ EmHeld > EmUnpublished
        /\ emHead = EmWrap(emTail + EmHeld - EmUnpublished)
    BY <1>p, <1>6 DEF EmRingHolds, EmOrder
  <1>8. EmPopped' = EmPopped + 1
    <2>1. EmPopped' = Len(emGot') - 0
      BY <1>p DEF EmPopped
    <2> QED
      BY <1>1, <1>6, <2>1
  <1>9. EmHeld' = EmHeld - 1
    <2>1. EmHeld' = emPut' - EmPopped' /\ EmHeld = emPut - EmPopped
      BY DEF EmHeld
    <2> QED
      BY <1>1, <1>6, <1>8, <2>1
  <1>10. emTail' = EmWrap(emTail + 1)
    BY <1>1, EmNextSlot, <1>0
  <1>11. emHead' = EmWrap(emTail' + EmHeld' - EmUnpublished')
    <2>1. EmHeld - 1 - EmUnpublished \in 0 .. EmSize - 2
      BY <1>0, <1>6, <1>7
    <2>2. emTail' + EmHeld' - EmUnpublished' = EmWrap(emTail + 1) + (EmHeld - 1 - EmUnpublished)
      BY <1>0, <1>5, <1>6, <1>7, <1>9, <1>10 DEF EmWrap
    <2>3. \A d \in 0 .. EmSize - 2 : EmWrap(EmWrap(emTail + 1) + d) = EmWrap(emTail + 1 + d)
      BY <1>0 DEF EmWrap
    <2>4. emTail + 1 + (EmHeld - 1 - EmUnpublished) = emTail + EmHeld - EmUnpublished
      BY <1>0, <1>6, <1>7
    <2> QED
      BY <1>1, <1>7, <2>1, <2>2, <2>3, <2>4
  <1>12. ASSUME NEW j \in 0 .. EmHeld' - 1
         PROVE  emData'[EmWrap(emTail' + j)] = EmPopped' + j + 1
    <2>1. j \in 0 .. EmSize - 3 /\ j + 1 \in 0 .. EmHeld - 1
      BY <1>0, <1>6, <1>7, <1>9
    <2>2. EmWrap(emTail' + j) = EmWrap(emTail + (j + 1))
      BY <1>0, <1>10, <2>1 DEF EmWrap
    <2>3. emData[EmWrap(emTail + (j + 1))] = EmPopped + (j + 1) + 1
      BY <1>6, <2>1 DEF EmRingHolds
    <2> QED
      BY <1>1, <1>6, <1>8, <2>1, <2>2, <2>3
  <1>13. EmHeld' \in EmUnpublished' .. EmSize - 1
    BY <1>0, <1>5, <1>6, <1>7, <1>9
  <1>14. EmRingHolds'
    BY <1>11, <1>12, <1>13 DEF EmRingHolds, EmWrap
  <1>15. EmExclusive'
    BY <1>1, <1>2, <1>3 DEF EmOrder, EmExclusive, EmPushing, EmResetting
  <1> QED
    BY <1>1, <1>p, <1>4, <1>14, <1>15 DEF EmOrder, EmWrap

(* A reset that runs alone: between its halves nothing is said of the FIFO.*)
LEMMA EmResets ==
    ASSUME EmTypes, EmOrder, NEW a \in EmActor, EmResetHead(a)
    PROVE  EmOrder'
  <1>1. /\ emAt[a] = "reset" /\ EmGoto(a, "resetTail", 0) /\ emHead' = 0
        /\ UNCHANGED <<emData, emTail, emNext, emPut, emGot>>
    BY DEF EmResetHead
  <1>2. emAt'[a] = "resetTail" /\ \A b \in EmActor \ {a} : emAt'[b] = emAt[b]
    BY <1>1, EmGotoActor DEF EmAts
  <1>3. \A b \in EmActor \ {a} : emAt'[b] = "idle"
    BY <1>1, <1>2 DEF EmOrder, EmExclusive, EmResetting
  <1>4. EmExclusive'
    BY <1>2, <1>3 DEF EmExclusive, EmPushing, EmResetting
  <1>5. ~EmPopping' /\ \A b \in EmActor : emAt'[b] # "advance"
    BY <1>2, <1>3 DEF EmPopping
  <1>6. \A i \in DOMAIN emGot' : emGot'[i] = i
    BY <1>1 DEF EmOrder
  <1>7. ~\A b \in EmActor : emAt'[b] # "resetTail"
    BY <1>2
  <1> QED
    BY <1>1, <1>4, <1>5, <1>6, <1>7 DEF EmOrder

(* The reset leaves an empty FIFO with head and tail at slot 0.            *)
LEMMA EmResetEnds ==
    ASSUME EmTypes, EmOrder, NEW a \in EmActor, EmResetRest(a)
    PROVE  EmOrder'
  <1>0. EmSize \in Nat /\ EmSize >= 2
    BY EmAssumption
  <1>1. /\ emAt[a] = "resetTail" /\ EmGoto(a, "idle", 0) /\ emHead = 0
        /\ emTail' = 0 /\ emPut' = 0 /\ emGot' = <<>> /\ UNCHANGED emHead
    BY DEF EmResetRest, EmOrder
  <1>2. emAt'[a] = "idle" /\ \A b \in EmActor \ {a} : emAt'[b] = emAt[b]
    BY <1>1, EmGotoActor DEF EmAts
  <1>3. \A b \in EmActor : emAt'[b] = "idle"
    BY <1>1, <1>2 DEF EmOrder, EmExclusive, EmResetting
  <1>4. EmExclusive'
    BY <1>3 DEF EmExclusive, EmPushing, EmResetting
  <1>5. EmUnpublished' = 0 /\ ~EmPopping'
    BY <1>3 DEF EmUnpublished, EmPopping
  <1>6. EmHeld' = 0
    <2>1. EmPopped' = 0
      <3>1. Len(emGot') = 0
        BY <1>1
      <3>2. EmPopped' = Len(emGot') - 0
        BY <1>5 DEF EmPopped
      <3> QED
        BY ONLY <3>1, <3>2
    <2>2. emPut' = 0
      BY <1>1
    <2>3. EmHeld' = emPut' - EmPopped'
      BY DEF EmHeld
    <2> QED
      BY ONLY <2>1, <2>2, <2>3
  <1>7. EmRingHolds'
    <2>1. EmHeld' \in EmUnpublished' .. EmSize - 1
      BY <1>0, <1>5, <1>6
    <2>2. emHead' = EmWrap(emTail' + EmHeld' - EmUnpublished')
      BY <1>0, <1>1, <1>5, <1>6 DEF EmWrap
    <2>3. \A j \in 0 .. EmHeld' - 1 : emData'[EmWrap(emTail' + j)] = EmPopped' + j + 1
      BY <1>6
    <2> QED
      BY <2>1, <2>2, <2>3 DEF EmRingHolds, EmWrap
  <1>8. \A i \in DOMAIN emGot' : emGot'[i] = i
    <2>1. DOMAIN emGot' = 1 .. 0
      BY <1>1
    <2> QED
      BY <2>1
  <1> QED
    BY <1>3, <1>4, <1>5, <1>7, <1>8 DEF EmOrder

(* A push drops its byte, or has no more.                                  *)
LEMMA EmDrops ==
    ASSUME EmTypes, EmOrder, NEW a \in EmActor, NEW to \in {"push", "idle"},
           emAt[a] = "push", NEW n, EmGoto(a, to, n),
           UNCHANGED <<emData, emHead, emTail, emNext, emPut, emGot>>
    PROVE  EmOrder'
  <1>1. emAt'[a] = to /\ \A b \in EmActor \ {a} : emAt'[b] = emAt[b]
    BY EmGotoActor DEF EmAts
  <1>2. EmExclusive'
    BY <1>1 DEF EmOrder, EmExclusive, EmPushing, EmResetting
  <1>3. \A b \in EmActor : \A at \in {"advance", "resetTail", "pop"} : emAt'[b] = at <=> emAt[b] = at
    BY <1>1
  <1> QED
    BY <1>2, <1>3, EmHoldsKept

(* Every step without a race keeps the order.                              *)
LEMMA EmOrderStep ==
    ASSUME EmTypes, EmOrder, [EmStep]_emVars, ~emRaced'
    PROVE  EmOrder'
  <1> USE DEF emFifo
  <1>0. EmHal \subseteq EmActor /\ EmThread \subseteq EmActor
    BY DEF EmActor
  <1>1. ASSUME NEW a \in EmActor, NEW to \in {"push", "reset"}, NEW n, emAt[a] = "idle",
               EmGoto(a, to, n), EmRace(a, to),
               UNCHANGED <<emData, emHead, emTail, emNext, emPut, emGot>>
        PROVE  EmOrder'
    <2>1. emAt'[a] = to /\ \A b \in EmActor \ {a} : emAt'[b] = emAt[b]
      BY <1>1, EmGotoActor DEF EmAts
    <2> QED
      BY <1>0, <1>1, <2>1, EmStarts
  <1>2. ASSUME NEW t \in EmThread, NEW n \in 1 .. 2, EmPushReport(t, n) PROVE EmOrder'
    BY <1>0, <1>1, <1>2 DEF EmPushReport
  <1>3. ASSUME NEW t \in EmThread, EmReset(t) PROVE EmOrder'
    BY <1>0, <1>1, <1>3 DEF EmReset
  <1>4. ASSUME NEW h \in EmHal, NEW full, EmPrime(h, full) PROVE EmOrder'
    BY <1>0, <1>1, <1>4 DEF EmPrime
  <1>5. ASSUME NEW h \in EmHal, EmReadRxByte(h) PROVE EmOrder'
    BY <1>0, <1>5, EmReads
  <1>6. ASSUME NEW a \in EmActor, EmFifoPush(a) PROVE EmOrder'
    <2>1. CASE EmFull
      <3>1. /\ emAt[a] = "push" /\ \E n : EmGoto(a, "push", n)
            /\ UNCHANGED <<emData, emHead, emTail, emNext, emPut, emGot>>
        BY <1>6, <2>1 DEF EmFifoPush
      <3> QED
        BY <1>0, <3>1, EmDrops
    <2> QED
      BY <1>0, <1>6, <2>1, EmStores
  <1>7. ASSUME NEW a \in EmActor, EmFifoAdvance(a) PROVE EmOrder'
    BY <1>0, <1>7, EmPublishes
  <1>8. ASSUME NEW a \in EmActor, EmPushed(a) PROVE EmOrder'
    BY <1>0, <1>8, EmDrops DEF EmPushed
  <1>9. ASSUME NEW a \in EmActor, EmResetHead(a) PROVE EmOrder'
    BY <1>0, <1>9, EmResets
  <1>10. ASSUME NEW a \in EmActor, EmResetRest(a) PROVE EmOrder'
    BY <1>0, <1>10, EmResetEnds
  <1>11. ASSUME NEW h \in EmHal, EmFifoPop(h) PROVE EmOrder'
    BY <1>0, <1>11, EmPops
  <1>12. CASE \/ EmAddDevice \/ EmFdoPnp \/ UNCHANGED emVars
              \/ \E h \in EmHal : \/ EmInterrupts(h) \/ \E ours \in BOOLEAN : EmSetTarget(h, ours)
                                 \/ \E reg \in {"header", "reportDesc", "other"} :
                                        EmIssueWriteByte(h, reg)
    <2>1. UNCHANGED <<emData, emHead, emTail, emNext, emPut, emGot>> /\ emAt' = emAt
      BY <1>12 DEF EmAddDevice, EmFdoPnp, EmInterrupts, EmSetTarget, EmIssueWriteByte, emVars,
                   emFlow
    <2>2. EmExclusive'
      BY <2>1 DEF EmOrder, EmExclusive, EmPushing, EmResetting
    <2> QED
      BY <1>0, <2>1, <2>2, EmHoldsKept
  <1> QED
    BY <1>2, <1>3, <1>4, <1>5, <1>6, <1>7, <1>8, <1>9, <1>10, <1>11, <1>12 DEF EmStep, EmHalCalls

(* The HAL reads the bytes that were pushed, each once and in order, over  *)
(* a FIFO that no lock guards, until two pushes, two pops, or a reset and  *)
(* anything else overlap: one producer and one consumer need no lock here. *)
THEOREM EmAlwaysInOrder == EmSpec => []EmInOrder
  <1>1. EmInit => EmInv
    <2> SUFFICES ASSUME EmInit PROVE EmInv
      OBVIOUS
    <2>0. EmSize \in Nat /\ EmSize >= 2
      BY EmAssumption
    <2>1. EmTypes
      <3>1. /\ emData = [i \in 0 .. EmSize - 1 |-> 0] /\ emHead = 0 /\ emTail = 0
            /\ emAt = [a \in EmActor |-> "idle"] /\ emNext = [a \in EmActor |-> 0]
            /\ emPut = 0 /\ emGot = <<>> /\ emRaced = FALSE
        BY DEF EmInit
      <3>2. 0 \in Nat /\ 0 \in 0 .. EmSize - 1 /\ <<>> \in Seq(Nat)
        BY <2>0
      <3>3. emData \in [0 .. EmSize - 1 -> Nat] /\ emNext \in [EmActor -> 0 .. EmSize - 1]
        BY <3>1, <3>2
      <3>4. emAt \in [EmActor -> EmAts]
        BY <3>1 DEF EmAts
      <3> QED
        BY <3>1, <3>2, <3>3, <3>4 DEF EmTypes
    <2>2. emAt = [a \in EmActor |-> "idle"] /\ emPut = 0 /\ emGot = <<>> /\ emHead = 0 /\ emTail = 0
      BY DEF EmInit
    <2>3. ~EmPopping /\ \A a \in EmActor : emAt[a] = "idle"
      BY <2>2 DEF EmPopping
    <2>4. EmUnpublished = 0 /\ EmHeld = 0
      <3>1. Len(emGot) = 0
        BY <2>2
      <3>2. EmPopped = Len(emGot) - 0
        BY <2>0, <2>3 DEF EmPopped
      <3>3. EmPopped = 0 /\ emPut = 0
        BY ONLY <2>2, <3>1, <3>2
      <3>4. EmHeld = 0
        BY ONLY <3>3 DEF EmHeld
      <3> QED
        BY <2>3, <3>4 DEF EmUnpublished
    <2>5. EmRingHolds
      <3>1. \A j \in 0 .. EmHeld - 1 : emData[EmWrap(emTail + j)] = EmPopped + j + 1
        BY <2>4
      <3>2. EmHeld \in EmUnpublished .. EmSize - 1
        BY <2>0, <2>4
      <3>3. emHead = EmWrap(emTail + EmHeld - EmUnpublished)
        BY <2>0, <2>2, <2>4 DEF EmWrap
      <3> QED
        BY <3>1, <3>2, <3>3 DEF EmRingHolds
    <2>6. EmExclusive
      BY <2>3 DEF EmExclusive, EmPushing, EmResetting
    <2>7. \A i \in DOMAIN emGot : emGot[i] = i
      <3>1. DOMAIN emGot = 1 .. 0
        BY <2>2
      <3> QED
        BY <3>1
    <2> QED
      BY <2>0, <2>1, <2>3, <2>5, <2>6, <2>7 DEF EmInv, EmOrder
  <1>2. EmInv /\ [EmStep]_emVars => EmInv'
    <2> SUFFICES ASSUME EmInv, [EmStep]_emVars PROVE EmInv'
      OBVIOUS
    <2>1. EmTypes'
      BY EmTypesStep DEF EmInv
    <2>2. emRaced => emRaced'
      BY DEF EmStep, EmHalCalls, EmAddDevice, EmFdoPnp, EmInterrupts, EmSetTarget,
             EmIssueWriteByte, EmPrime, EmPushReport, EmReset, EmReadRxByte, EmFifoPop,
             EmFifoPush, EmFifoAdvance, EmPushed, EmResetHead, EmResetRest, EmRace, emFlow, emVars
    <2>3. CASE emRaced'
      BY <2>1, <2>3 DEF EmInv
    <2>4. CASE ~emRaced'
      <3>1. EmTypes /\ EmOrder
        BY <2>2, <2>4 DEF EmInv
      <3>2. EmOrder'
        BY <2>4, <3>1, EmOrderStep
      <3> QED
        BY <2>1, <3>2 DEF EmInv
    <2> QED
      BY <2>3, <2>4
  <1>3. EmInv => EmInOrder
    BY DEF EmInv, EmOrder, EmInOrder
  <1> QED
    BY <1>1, <1>2, <1>3, PTL DEF EmSpec

-----------------------------------------------------------------------------
(* The register accesses of calls and of a start, and what follows what.   *)
UlCallDo == {"store", "lineOfArg", "line", "read", "latch", "divisor", "unlatch",
             "disable", "enable", "answer"}
UlStartDo == {"default", "line", "read", "latch", "divisor", "unlatch", "enable", "started"}

UlFollows(h, n) ==
    /\ h = "store" => n = "lineOfArg"
    /\ h = "default" => n = "line"
    /\ h \in {"line", "lineOfArg"} => n = "read"
    /\ h = "read" => n = "latch"
    /\ h = "latch" => n = "divisor"
    /\ h = "divisor" => n = "unlatch"
    /\ h = "unlatch" => n = "enable"
    /\ h = "disable" => n = "line"
    /\ h = "enable" => n = "started"
    /\ h \notin {"answer", "started"}

UlChained(s) == \A i \in 1 .. Len(s) - 1 : UlFollows(s[i], s[i + 1])

(* What may be left of a call, and of a start.                             *)
UlIsCall(s) ==
    /\ s \in Seq(UlCallDo) /\ UlChained(s)
    /\ s # <<>> => s[Len(s)] \in {"unlatch", "enable", "disable", "line", "answer"}

UlIsStart(s) ==
    s \in Seq(UlStartDo) /\ UlChained(s) /\ s # <<>> /\ s[Len(s)] = "started"

(* The access a thread makes next; "rest" when it has none to do.          *)
UlNow(s) == IF s = <<>> THEN "rest" ELSE Head(s)

UlAtMid(h) == h \in {"lineOfArg", "read", "latch", "divisor", "unlatch"}

UlSetting(s) ==
    \E i \in DOMAIN s : s[i] \in {"store", "line", "lineOfArg", "latch", "unlatch"}
-----------------------------------------------------------------------------
(* Chains make a chain when the second follows the first.                  *)
LEMMA UlJoin ==
    ASSUME NEW S, NEW s \in Seq(S), NEW t \in Seq(S), s # <<>>, t # <<>>,
           UlChained(s), UlChained(t), UlFollows(s[Len(s)], t[1])
    PROVE  /\ s \o t \in Seq(S) /\ s \o t # <<>> /\ UlChained(s \o t)
           /\ (s \o t)[Len(s \o t)] = t[Len(t)] /\ (s \o t)[1] = s[1]
  <1> DEFINE u == s \o t
  <1>1. /\ u \in Seq(S) /\ Len(u) = Len(s) + Len(t)
        /\ \A i \in 1 .. Len(s) + Len(t) : u[i] = IF i <= Len(s) THEN s[i] ELSE t[i - Len(s)]
    BY ConcatProperties
  <1>2. Len(s) \in Nat \ {0} /\ Len(t) \in Nat \ {0}
    BY EmptySeq
  <1> HIDE DEF u
  <1>3. ASSUME NEW i \in 1 .. Len(u) - 1 PROVE UlFollows(u[i], u[i + 1])
    <2>0. i \in Nat /\ i >= 1 /\ i + 1 \in 1 .. Len(s) + Len(t) /\ i \in 1 .. Len(s) + Len(t)
      BY <1>1, <1>2
    <2>1. CASE i < Len(s)
      <3>1. u[i] = s[i] /\ u[i + 1] = s[i + 1] /\ i \in 1 .. Len(s) - 1
        BY <1>1, <1>2, <2>0, <2>1
      <3> QED
        BY <3>1 DEF UlChained
    <2>2. CASE i = Len(s)
      <3>1. u[i] = s[Len(s)] /\ u[i + 1] = t[1]
        BY <1>1, <1>2, <2>0, <2>2
      <3> QED
        BY <3>1
    <2>3. CASE i > Len(s)
      <3>1. u[i] = t[i - Len(s)] /\ u[i + 1] = t[i + 1 - Len(s)]
        BY <1>1, <1>2, <2>0, <2>3
      <3>2. i - Len(s) \in 1 .. Len(t) - 1 /\ i + 1 - Len(s) = (i - Len(s)) + 1
        BY <1>1, <1>2, <2>0, <2>3
      <3> QED
        BY <3>1, <3>2 DEF UlChained
    <2> QED
      BY <1>2, <2>0, <2>1, <2>2, <2>3
  <1>4. UlChained(u)
    BY <1>3 DEF UlChained
  <1>5. u[Len(u)] = t[Len(t)] /\ u[1] = s[1]
    <2>1. u[Len(u)] = t[Len(s) + Len(t) - Len(s)]
      BY <1>1, <1>2
    <2>2. Len(s) + Len(t) - Len(s) = Len(t)
      BY <1>2
    <2> QED
      BY <1>1, <1>2, <2>1, <2>2
  <1>6. u # <<>>
    BY <1>1, <1>2, EmptySeq
  <1> QED
    BY <1>1, <1>4, <1>5, <1>6 DEF u

(* The rest of a chain.                                                    *)
LEMMA UlRest ==
    ASSUME NEW S, NEW s \in Seq(S), s # <<>>, UlChained(s)
    PROVE  /\ Tail(s) \in Seq(S) /\ UlChained(Tail(s)) /\ Head(s) = s[1] /\ Head(s) \in S
           /\ Tail(s) = <<>> => s[Len(s)] = Head(s)
           /\ Tail(s) # <<>> => /\ Tail(s)[Len(Tail(s))] = s[Len(s)]
                                /\ UlNow(Tail(s)) = s[2] /\ UlFollows(Head(s), s[2])
                                /\ 2 \in DOMAIN s
           /\ 1 \in DOMAIN s
  <1> DEFINE r == Tail(s)
  <1>1. /\ r \in Seq(S) /\ Len(r) = Len(s) - 1 /\ Head(s) = s[1] /\ Head(s) \in S
        /\ \A i \in 1 .. Len(r) : r[i] = s[i + 1]
    BY HeadTailProperties
  <1>2. Len(s) \in Nat \ {0} /\ Len(r) \in Nat /\ DOMAIN s = 1 .. Len(s)
    BY <1>1, EmptySeq, LenProperties
  <1>h. r # <<>> => Head(r) = r[1]
    BY <1>1
  <1> HIDE DEF r
  <1>3. UlChained(r)
    <2> SUFFICES ASSUME NEW i \in 1 .. Len(r) - 1 PROVE UlFollows(r[i], r[i + 1])
      BY DEF UlChained
    <2>1. r[i] = s[i + 1] /\ r[i + 1] = s[(i + 1) + 1] /\ i + 1 \in 1 .. Len(s) - 1
      BY <1>1, <1>2
    <2> QED
      BY <2>1 DEF UlChained
  <1>4. ASSUME r = <<>> PROVE s[Len(s)] = Head(s)
    <2>1. Len(r) = 0
      BY <1>4
    <2>2. Len(s) = 1
      BY <1>1, <1>2, <2>1
    <2> QED
      BY <1>1, <2>2
  <1>5. ASSUME r # <<>>
        PROVE  r[Len(r)] = s[Len(s)] /\ UlNow(r) = s[2] /\ UlFollows(Head(s), s[2]) /\ 2 \in DOMAIN s
    <2>1. Len(r) \in Nat \ {0}
      BY <1>1, <1>5, EmptySeq
    <2>2. r[Len(r)] = s[Len(r) + 1] /\ Len(r) + 1 = Len(s) /\ r[1] = s[1 + 1]
      BY <1>1, <1>2, <2>1
    <2>3. UlNow(r) = r[1]
      BY <1>5, <1>h DEF UlNow
    <2>4. 1 \in 1 .. Len(s) - 1 /\ 2 \in DOMAIN s
      BY <1>2, <2>1, <2>2
    <2>5. UlFollows(s[1], s[1 + 1])
      BY <2>4 DEF UlChained
    <2> QED
      BY <1>1, <2>2, <2>3, <2>4, <2>5
  <1> QED
    BY <1>1, <1>2, <1>3, <1>4, <1>5 DEF r

(* A thread that stands before or in a setting has a setting to do.        *)
LEMMA UlSettingAhead ==
    ASSUME NEW S, NEW s \in Seq(S), s # <<>>, UlChained(s),
           s[Len(s)] \notin {"read", "divisor", "default"},
           UlAtMid(Head(s)) \/ Head(s) \in {"store", "line", "default"}
    PROVE  UlSetting(s)
  <1>1. Head(s) = s[1] /\ 1 \in DOMAIN s
    BY UlRest
  <1>2. CASE Head(s) \notin {"read", "divisor", "default"}
    BY <1>1, <1>2 DEF UlAtMid, UlSetting
  <1>3. CASE Head(s) \in {"read", "divisor", "default"}
    <2>1. UlFollows(Head(s), s[2]) /\ 2 \in DOMAIN s
      BY <1>3, UlRest
    <2>2. s[2] \in {"latch", "unlatch", "line"}
      BY <1>3, <2>1 DEF UlFollows
    <2> QED
      BY <2>1, <2>2 DEF UlSetting
  <1> QED
    BY <1>2, <1>3

(* A call goes on to what follows, or has ended.                           *)
LEMMA UlCallGoesOn ==
    ASSUME NEW s, UlIsCall(s), s # <<>>
    PROVE  /\ UlIsCall(Tail(s)) /\ Head(s) \in UlCallDo /\ UlNow(s) = Head(s)
           /\ UlNow(Tail(s)) = "rest" \/ UlFollows(Head(s), UlNow(Tail(s)))
           /\ (UlAtMid(Head(s)) \/ Head(s) \in {"store", "line"}) => UlSetting(s)
           /\ Head(s) \in {"store", "lineOfArg", "read", "latch", "divisor"} => UlNow(Tail(s)) # "rest"
           /\ Head(s) = "enable" => UlNow(Tail(s)) = "rest"
  <1>1. s \in Seq(UlCallDo) /\ UlChained(s)
        /\ s[Len(s)] \in {"unlatch", "enable", "disable", "line", "answer"}
    BY DEF UlIsCall
  <1>2. /\ Tail(s) \in Seq(UlCallDo) /\ UlChained(Tail(s)) /\ Head(s) = s[1] /\ Head(s) \in UlCallDo
        /\ Tail(s) = <<>> => s[Len(s)] = Head(s)
        /\ Tail(s) # <<>> => /\ Tail(s)[Len(Tail(s))] = s[Len(s)]
                             /\ UlNow(Tail(s)) = s[2] /\ UlFollows(Head(s), s[2])
                             /\ 2 \in DOMAIN s
    BY <1>1, UlRest
  <1>3. UlIsCall(Tail(s))
    BY <1>1, <1>2 DEF UlIsCall
  <1>4. UlNow(s) = Head(s)
    BY DEF UlNow
  <1>5. Tail(s) = <<>> => UlNow(Tail(s)) = "rest"
    BY DEF UlNow
  <1>6. Tail(s) # <<>> => UlFollows(Head(s), UlNow(Tail(s)))
    BY <1>2
  <1>7. (UlAtMid(Head(s)) \/ Head(s) \in {"store", "line"}) => UlSetting(s)
    <2>1. s[Len(s)] \notin {"read", "divisor", "default"}
      BY <1>1
    <2> QED
      BY <1>1, <2>1, UlSettingAhead
  <1>8. ASSUME Head(s) \in {"store", "lineOfArg", "read", "latch", "divisor"}
        PROVE  UlNow(Tail(s)) # "rest"
    <2>1. Tail(s) # <<>>
      BY <1>1, <1>2, <1>8
    <2> QED
      BY <1>8, <1>6, <2>1 DEF UlFollows
  <1>9. ASSUME Head(s) = "enable" PROVE UlNow(Tail(s)) = "rest"
    <2>1. CASE Tail(s) # <<>>
      <3>1. UlNow(Tail(s)) = "started" /\ UlNow(Tail(s)) = s[2] /\ 2 \in DOMAIN s
        BY <1>2, <1>6, <1>9, <2>1 DEF UlFollows
      <3>2. s[2] \in UlCallDo
        BY <1>1, <3>1, ElementOfSeq, LenProperties
      <3> QED
        BY <3>1, <3>2 DEF UlCallDo
    <2> QED
      BY <1>5, <2>1
  <1> QED
    BY <1>2, <1>3, <1>4, <1>5, <1>6, <1>7, <1>8, <1>9

(* A start goes on until it is done.                                       *)
LEMMA UlStartGoesOn ==
    ASSUME NEW s, UlIsStart(s)
    PROVE  /\ s # <<>> /\ Head(s) \in UlStartDo /\ UlNow(s) = Head(s)
           /\ Head(s) # "started" => UlIsStart(Tail(s)) /\ UlFollows(Head(s), UlNow(Tail(s)))
           /\ Head(s) = "started" => Tail(s) = <<>>
           /\ (UlAtMid(Head(s)) \/ Head(s) \in {"line", "default"}) => UlSetting(s)
  <1>1. s \in Seq(UlStartDo) /\ UlChained(s) /\ s # <<>> /\ s[Len(s)] = "started"
    BY DEF UlIsStart
  <1>2. /\ Tail(s) \in Seq(UlStartDo) /\ UlChained(Tail(s)) /\ Head(s) = s[1] /\ Head(s) \in UlStartDo
        /\ Tail(s) = <<>> => s[Len(s)] = Head(s)
        /\ Tail(s) # <<>> => /\ Tail(s)[Len(Tail(s))] = s[Len(s)]
                             /\ UlNow(Tail(s)) = s[2] /\ UlFollows(Head(s), s[2])
                             /\ 2 \in DOMAIN s
    BY <1>1, UlRest
  <1>3. Head(s) # "started" => UlIsStart(Tail(s)) /\ UlFollows(Head(s), UlNow(Tail(s)))
    BY <1>1, <1>2 DEF UlIsStart
  <1>4. Head(s) = "started" => Tail(s) = <<>>
    BY <1>2 DEF UlFollows
  <1>5. (UlAtMid(Head(s)) \/ Head(s) \in {"line", "default"}) => UlSetting(s)
    <2>1. s[Len(s)] \notin {"read", "divisor", "default"}
      BY <1>1
    <2> QED
      BY <1>1, <2>1, UlSettingAhead
  <1> QED
    BY <1>1, <1>2, <1>3, <1>4, <1>5 DEF UlNow

(* Nothing is left both of a call and of a start.                          *)
LEMMA UlCallOrStart ==
    ASSUME NEW s, UlIsCall(s)
    PROVE  ~UlIsStart(s)
  BY DEF UlIsCall, UlIsStart

(* The programs are calls, and the start is a start.                       *)
LEMMA UlPrograms ==
    /\ \A op \in {"set_config", "get_config", "open", "close", "d0", "dx", "write"} :
          /\ UlIsCall(UlProgram(op)) /\ UlProgram(op) # <<>>
          /\ ~UlAtMid(Head(UlProgram(op)))
          /\ Head(UlProgram(op)) = "store" <=> op = "set_config"
    /\ UlIsStart(UlStartHardware) /\ Head(UlStartHardware) = "default"
  <1>h. ASSUME NEW S, NEW s \in Seq(S), s # <<>> PROVE Head(s) = s[1]
    OBVIOUS
  <1>1. \A S : {"read", "latch", "divisor", "unlatch"} \subseteq S => UlSetBaud \in Seq(S)
    BY DEF UlSetBaud
  <1>2. /\ UlSetBaud # <<>> /\ UlChained(UlSetBaud) /\ UlSetBaud[1] = "read"
        /\ UlSetBaud[Len(UlSetBaud)] = "unlatch"
    BY DEF UlSetBaud, UlChained, UlFollows
  <1>3. UlIsCall(UlSetConfig) /\ UlSetConfig # <<>> /\ UlSetConfig[1] = "store"
    <2> DEFINE s == <<"store", "lineOfArg">>
    <2>1. s \in Seq(UlCallDo) /\ s # <<>> /\ UlChained(s) /\ s[1] = "store" /\ s[Len(s)] = "lineOfArg"
      BY DEF UlChained, UlFollows, UlCallDo
    <2>2. UlSetBaud \in Seq(UlCallDo)
      BY <1>1 DEF UlCallDo
    <2>3. UlFollows(s[Len(s)], UlSetBaud[1])
      BY <1>2, <2>1 DEF UlFollows
    <2> HIDE DEF s
    <2>4. /\ s \o UlSetBaud \in Seq(UlCallDo) /\ s \o UlSetBaud # <<>> /\ UlChained(s \o UlSetBaud)
          /\ (s \o UlSetBaud)[Len(s \o UlSetBaud)] = "unlatch" /\ (s \o UlSetBaud)[1] = "store"
      BY <1>2, <2>1, <2>2, <2>3, UlJoin
    <2>5. UlSetConfig = s \o UlSetBaud
      BY DEF UlSetConfig, s
    <2> QED
      BY <2>4, <2>5 DEF UlIsCall
  <1>4. ASSUME NEW S, {"line", "read", "latch", "divisor", "unlatch", "enable"} \subseteq S
        PROVE  /\ UlEnterD0 \in Seq(S) /\ UlEnterD0 # <<>> /\ UlChained(UlEnterD0)
               /\ UlEnterD0[1] = "line" /\ UlEnterD0[Len(UlEnterD0)] = "enable"
    <2> DEFINE s == <<"line">>
               t == <<"enable">>
               u == s \o UlSetBaud
    <2>1. /\ s \in Seq(S) /\ s # <<>> /\ UlChained(s) /\ s[1] = "line" /\ s[Len(s)] = "line"
          /\ t \in Seq(S) /\ t # <<>> /\ UlChained(t) /\ t[1] = "enable" /\ t[Len(t)] = "enable"
      BY <1>4 DEF UlChained
    <2>2. UlSetBaud \in Seq(S)
      BY <1>1, <1>4
    <2>3. UlFollows("line", "read") /\ UlFollows("unlatch", "enable")
      BY DEF UlFollows
    <2>e. UlEnterD0 = u \o t
      BY DEF UlEnterD0
    <2> HIDE DEF s, t
    <2>4. /\ u \in Seq(S) /\ u # <<>> /\ UlChained(u)
          /\ u[Len(u)] = "unlatch" /\ u[1] = "line"
      BY <1>2, <2>1, <2>2, <2>3, UlJoin
    <2> HIDE DEF u
    <2> QED
      BY <2>1, <2>3, <2>4, <2>e, UlJoin
  <1>5. UlIsCall(UlEnterD0) /\ UlEnterD0 # <<>> /\ UlEnterD0[1] = "line"
    <2>1. {"line", "read", "latch", "divisor", "unlatch", "enable"} \subseteq UlCallDo
      BY DEF UlCallDo
    <2> QED
      BY <1>4, <2>1 DEF UlIsCall
  <1>6. UlIsStart(UlStartHardware) /\ UlStartHardware[1] = "default"
    <2> DEFINE s == <<"default">>
               t == <<"started">>
               u == s \o UlEnterD0
    <2>1. /\ s \in Seq(UlStartDo) /\ s # <<>> /\ UlChained(s) /\ s[1] = "default" /\ s[Len(s)] = "default"
          /\ t \in Seq(UlStartDo) /\ t # <<>> /\ UlChained(t) /\ t[1] = "started" /\ t[Len(t)] = "started"
      BY DEF UlChained, UlStartDo
    <2>2. /\ UlEnterD0 \in Seq(UlStartDo) /\ UlEnterD0 # <<>> /\ UlChained(UlEnterD0)
          /\ UlEnterD0[1] = "line" /\ UlEnterD0[Len(UlEnterD0)] = "enable"
      <3>1. {"line", "read", "latch", "divisor", "unlatch", "enable"} \subseteq UlStartDo
        BY DEF UlStartDo
      <3> QED
        BY <1>4, <3>1
    <2>3. UlFollows("default", "line") /\ UlFollows("enable", "started")
      BY DEF UlFollows
    <2>e. UlStartHardware = u \o t
      BY DEF UlStartHardware
    <2> HIDE DEF s, t
    <2>4. /\ u \in Seq(UlStartDo) /\ u # <<>> /\ UlChained(u)
          /\ u[Len(u)] = "enable" /\ u[1] = "default"
      BY <2>1, <2>2, <2>3, UlJoin
    <2> HIDE DEF u
    <2>5. /\ u \o t \in Seq(UlStartDo) /\ u \o t # <<>> /\ UlChained(u \o t)
          /\ (u \o t)[Len(u \o t)] = "started" /\ (u \o t)[1] = "default"
      BY <2>1, <2>3, <2>4, UlJoin
    <2> QED
      BY <2>5, <2>e DEF UlIsStart
  <1>7. UlIsCall(UlOpen) /\ UlOpen # <<>> /\ UlOpen[1] = "disable"
    BY DEF UlOpen, UlIsCall, UlChained, UlFollows, UlCallDo
  <1>8. /\ UlIsCall(<<"answer">>) /\ <<"answer">> # <<>>
        /\ UlIsCall(<<"disable">>) /\ <<"disable">> # <<>>
        /\ UlIsCall(<<"enable">>) /\ <<"enable">> # <<>>
    BY DEF UlIsCall, UlChained, UlCallDo
  <1>9. /\ UlProgram("set_config") = UlSetConfig /\ UlProgram("get_config") = <<"answer">>
        /\ UlProgram("open") = UlOpen /\ UlProgram("d0") = UlEnterD0
        /\ UlProgram("close") = <<"disable">> /\ UlProgram("dx") = <<"disable">>
        /\ UlProgram("write") = <<"enable">>
    BY DEF UlProgram
  <1>10. ASSUME NEW op \in {"set_config", "get_config", "open", "close", "d0", "dx", "write"}
         PROVE  /\ UlIsCall(UlProgram(op)) /\ UlProgram(op) # <<>>
                /\ ~UlAtMid(Head(UlProgram(op)))
                /\ Head(UlProgram(op)) = "store" <=> op = "set_config"
    <2>1. UlIsCall(UlProgram(op)) /\ UlProgram(op) # <<>>
      BY <1>3, <1>5, <1>7, <1>8, <1>9
    <2>2. Head(UlProgram(op)) = UlProgram(op)[1]
      BY <1>h, <2>1 DEF UlIsCall
    <2>3. /\ UlProgram(op)[1] \in {"store", "answer", "disable", "line", "enable"}
          /\ UlProgram(op)[1] = "store" <=> op = "set_config"
      BY <1>3, <1>5, <1>7, <1>9
    <2> QED
      BY <2>1, <2>2, <2>3 DEF UlAtMid
  <1> QED
    BY <1>6, <1>10, <1>h DEF UlIsStart

-----------------------------------------------------------------------------
UlTypes ==
    /\ DOMAIN ulDo = UlThread
    /\ ulArg \in [UlThread -> UlConfig \cup {"junk"}] /\ ulRead \in [UlThread -> UlConfig \cup {"junk"}]
    /\ ulConfig \in UlConfig \cup {"junk"} /\ ulLcr \in UlConfig \cup {"junk"}
    /\ ulDlab \in BOOLEAN /\ ulRaced \in BOOLEAN

UlStands(t) == UlNow(ulDo[t])

(* A thread is in a call, or the one that starts the device.               *)
UlPhases ==
    /\ \A t \in UlThread : UlIsCall(ulDo[t]) \/ (ulDevice = "starting" /\ UlIsStart(ulDo[t]))
    /\ \A t, u \in UlThread : UlIsStart(ulDo[t]) /\ UlIsStart(ulDo[u]) => t = u
    /\ \A t \in UlThread :
          /\ UlStands(t) \in {"default", "disable", "line"} => ulArg[t] = "junk"
          /\ UlStands(t) \in {"store", "lineOfArg"} => ulArg[t] \in UlConfig

(* What holds when a thread is in the middle of a setting.                 *)
UlHalf(t) ==
    /\ UlStands(t) = "lineOfArg" => ulArg[t] = ulConfig
    /\ UlStands(t) \in {"read", "latch", "divisor"} => UlRate(t) = ulConfig
    /\ UlStands(t) \in {"read", "latch", "divisor", "unlatch"} => ulLcr = ulConfig
    /\ UlStands(t) \in {"latch", "divisor", "unlatch"} => ulRead[t] = ulConfig
    /\ UlStands(t) \in {"divisor", "unlatch"} => ulDlab
    /\ UlStands(t) = "unlatch" => ulDivisor = ulConfig

(* No thread is in the middle of a setting, and the one that starts the    *)
(* device has given it its first.                                          *)
UlSettled ==
    /\ ulDevice \in {"started", "starting"}
    /\ \A t \in UlThread : /\ ~UlAtMid(UlStands(t))
                           /\ UlIsStart(ulDo[t]) => UlStands(t) \in {"enable", "started"}

UlOrder ==
    /\ \A t, u \in UlThread : UlAtMid(UlStands(t)) /\ UlAtMid(UlStands(u)) => t = u
    /\ \A t \in UlThread : UlHalf(t)
    /\ ulDlab => \E t \in UlThread : UlStands(t) \in {"divisor", "unlatch"}
    /\ UlSettled => ulLcr = ulConfig /\ ulDivisor = ulConfig

UlInv == UlTypes /\ UlPhases /\ (ulRaced \/ UlOrder)

-----------------------------------------------------------------------------
(* An access is done and no other thread moves.                            *)
LEMMA UlMoves ==
    ASSUME UlTypes, NEW t \in UlThread, NEW what, UlStep(t, what)
    PROVE  /\ ulDo[t] # <<>> /\ Head(ulDo[t]) = what /\ UlStands(t) = what
           /\ DOMAIN ulDo' = UlThread /\ ulDo'[t] = Tail(ulDo[t]) /\ ulArg' = ulArg
           /\ \A u \in UlThread \ {t} : ulDo'[u] = ulDo[u]
  BY DEF UlTypes, UlStep, UlStands, UlNow

(* What an access is followed by, in a call and in a start.                *)
LEMMA UlPhasesMove ==
    ASSUME UlTypes, UlPhases, NEW t \in UlThread, NEW what, UlStep(t, what), what # "started",
           ulDevice' = ulDevice
    PROVE  /\ UlPhases'
           /\ UlStands(t)' = "rest" \/ UlFollows(what, UlStands(t)')
           /\ what \in {"store", "lineOfArg", "read", "latch", "divisor"} => UlStands(t)' # "rest"
           /\ UlAtMid(what) \/ what \in {"store", "line", "default"} => UlSets(t)
           /\ \/ UlIsCall(ulDo[t]) /\ ~UlIsStart(ulDo[t]) /\ what \in UlCallDo
              \/ /\ UlIsStart(ulDo[t]) /\ UlIsStart(ulDo'[t])
                 /\ what \in UlStartDo /\ UlFollows(what, UlStands(t)')
  <1>1. /\ ulDo[t] # <<>> /\ Head(ulDo[t]) = what /\ UlStands(t) = what
        /\ ulDo'[t] = Tail(ulDo[t]) /\ ulArg' = ulArg
        /\ \A u \in UlThread \ {t} : ulDo'[u] = ulDo[u]
    BY UlMoves
  <1>2. UlStands(t)' = UlNow(Tail(ulDo[t]))
    BY <1>1 DEF UlStands
  <1>3. \A u \in UlThread \ {t} : UlStands(u)' = UlStands(u)
    BY <1>1 DEF UlStands
  <1>s. UlSets(t) <=> UlSetting(ulDo[t])
    BY DEF UlSets, UlSetting
  <1>4. UlIsCall(ulDo[t]) \/ UlIsStart(ulDo[t])
    BY DEF UlPhases
  <1>5. CASE UlIsCall(ulDo[t])
    <2>1. /\ UlIsCall(Tail(ulDo[t])) /\ what \in UlCallDo
          /\ UlStands(t)' = "rest" \/ UlFollows(what, UlStands(t)')
          /\ (UlAtMid(what) \/ what \in {"store", "line"}) => UlSetting(ulDo[t])
          /\ what \in {"store", "lineOfArg", "read", "latch", "divisor"} => UlStands(t)' # "rest"
      BY <1>1, <1>2, <1>5, UlCallGoesOn
    <2>2. /\ ~UlIsStart(ulDo[t]) /\ UlIsCall(ulDo'[t]) /\ ~UlIsStart(ulDo'[t])
      BY <1>1, <1>5, <2>1, UlCallOrStart
    <2>3. /\ UlStands(t)' \in {"default", "disable", "line"} => ulArg[t] = "junk"
          /\ UlStands(t)' \in {"store", "lineOfArg"} => ulArg[t] \in UlConfig
      BY <1>1, <2>1 DEF UlPhases, UlFollows, UlCallDo
    <2>4. UlPhases'
      BY <1>1, <1>3, <2>2, <2>3 DEF UlPhases
    <2> QED
      BY <1>5, <1>s, <2>1, <2>2, <2>4 DEF UlCallDo
  <1>6. CASE UlIsStart(ulDo[t])
    <2>1. /\ UlIsStart(Tail(ulDo[t])) /\ what \in UlStartDo /\ UlFollows(what, UlStands(t)')
          /\ (UlAtMid(what) \/ what \in {"line", "default"}) => UlSetting(ulDo[t])
      BY <1>1, <1>2, <1>6, UlStartGoesOn
    <2>2. /\ UlStands(t)' \in {"default", "disable", "line"} => ulArg[t] = "junk"
          /\ UlStands(t)' \in {"store", "lineOfArg"} => ulArg[t] \in UlConfig
      BY <1>1, <2>1 DEF UlPhases, UlFollows, UlStartDo
    <2>3. ulDevice = "starting"
      BY <1>6, UlCallOrStart DEF UlPhases
    <2>4. UlPhases'
      BY <1>1, <1>3, <1>6, <2>1, <2>2, <2>3 DEF UlPhases
    <2>5. UlStands(t)' # "rest"
      BY <1>2, <2>1, UlStartGoesOn DEF UlStartDo
    <2> QED
      BY <1>1, <1>6, <1>s, <2>1, <2>4, <2>5 DEF UlStartDo
  <1> QED
    BY <1>4, <1>5, <1>6

(* Who is in the middle of a setting has a setting to do.                  *)
LEMMA UlMidSets ==
    ASSUME UlPhases, NEW t \in UlThread, UlAtMid(UlStands(t))
    PROVE  UlSets(t)
  <1>1. ulDo[t] # <<>> /\ UlStands(t) = Head(ulDo[t])
    BY DEF UlStands, UlNow, UlAtMid
  <1>2. UlIsCall(ulDo[t]) \/ UlIsStart(ulDo[t])
    BY DEF UlPhases
  <1>3. UlSetting(ulDo[t])
    BY <1>1, <1>2, UlCallGoesOn, UlStartGoesOn
  <1> QED
    BY <1>3 DEF UlSets, UlSetting

(* Who sets, or finds the latch open, without a race has no company.       *)
LEMMA UlNoCompany ==
    ASSUME UlPhases, NEW t \in UlThread, UlRace(t), ~ulRaced', UlSets(t) \/ ulDlab
    PROVE  \A u \in UlThread \ {t} : ~UlAtMid(UlStands(u))
  BY UlMidSets DEF UlRace

(* The order after a step of a thread that is alone with the line.         *)
LEMMA UlOneSets ==
    ASSUME UlOrder, NEW t \in UlThread, \A u \in UlThread \ {t} : ulDo'[u] = ulDo[u],
           \A u \in UlThread \ {t} : ~UlAtMid(UlStands(u)),
           UlHalf(t)', ulDlab' => UlStands(t)' \in {"divisor", "unlatch"},
           UlSettled' => (ulLcr' = ulConfig' /\ ulDivisor' = ulConfig')
    PROVE  UlOrder'
  <1>1. \A u \in UlThread \ {t} : ~UlAtMid(UlStands(u)')
    BY DEF UlStands
  <1>2. ASSUME NEW u \in UlThread \ {t} PROVE UlHalf(u)'
    BY <1>1 DEF UlHalf, UlAtMid
  <1>3. \A u, w \in UlThread : UlAtMid(UlStands(u)') /\ UlAtMid(UlStands(w)') => u = w
    BY <1>1
  <1> QED
    BY <1>2, <1>3 DEF UlOrder

(* The order after a step that sets nothing.                               *)
LEMMA UlNoneSets ==
    ASSUME UlOrder, UNCHANGED <<ulConfig, ulLcr, ulDlab, ulDivisor, ulRead>>, NEW t \in UlThread,
           \A u \in UlThread \ {t} : ulDo'[u] = ulDo[u] /\ ulArg'[u] = ulArg[u],
           ~UlAtMid(UlStands(t)), ~UlAtMid(UlStands(t)'), UlSettled' => UlSettled
    PROVE  UlOrder'
  <1>1. \A u \in UlThread \ {t} : UlStands(u)' = UlStands(u)
    BY DEF UlStands
  <1>2. ASSUME NEW u \in UlThread PROVE UlHalf(u)'
    <2>1. CASE u = t
      BY <2>1 DEF UlHalf, UlAtMid
    <2>2. CASE u # t
      <3>1. UlRate(u)' = UlRate(u)
        BY <2>2 DEF UlRate
      <3> QED
        BY <1>1, <2>2, <3>1 DEF UlHalf, UlOrder
    <2> QED
      BY <2>1, <2>2
  <1>3. \A u, w \in UlThread : UlAtMid(UlStands(u)') /\ UlAtMid(UlStands(w)') => u = w
    BY <1>1 DEF UlOrder
  <1>4. ulDlab' => \E u \in UlThread : UlStands(u)' \in {"divisor", "unlatch"}
    BY <1>1 DEF UlOrder, UlAtMid
  <1> QED
    BY <1>2, <1>3, <1>4 DEF UlOrder

-----------------------------------------------------------------------------
(* Every step keeps the types.                                             *)
LEMMA UlTypesStep ==
    ASSUME UlTypes, UlPhases, [UlNext]_ulVars
    PROVE  UlTypes'
  <1> USE DEF ulPnp, ulRegisters, ulRequest
  <1>m. ASSUME NEW t \in UlThread, NEW what, UlStep(t, what)
        PROVE  DOMAIN ulDo' = UlThread /\ ulArg' = ulArg /\ UlStands(t) = what
    BY <1>m, UlMoves
  <1>1. ASSUME NEW t \in UlThread, UlStores(t) PROVE UlTypes'
    <2>1. DOMAIN ulDo' = UlThread /\ ulArg' = ulArg
      BY <1>1, <1>m DEF UlStores
    <2>2. ulRaced' \in BOOLEAN
      BY <1>1 DEF UlStores, UlRace
    <2>3. ulConfig' \in UlConfig \cup {"junk"}
      BY <1>1, UlAssumption DEF UlStores, UlTypes
    <2> QED
      BY <1>1, <2>1, <2>2, <2>3 DEF UlStores, UlTypes
  <1>2. ASSUME NEW t \in UlThread, UlSetLineControl(t) PROVE UlTypes'
    <2>1. DOMAIN ulDo' = UlThread /\ ulArg' = ulArg
      BY <1>2, <1>m DEF UlSetLineControl, UlAccess
    <2>2. ulRaced' \in BOOLEAN
      BY <1>2 DEF UlSetLineControl, UlRace
    <2>3. ulLcr' \in UlConfig \cup {"junk"}
      BY <1>2 DEF UlSetLineControl, UlTypes
    <2> QED
      BY <1>2, <2>1, <2>2, <2>3 DEF UlSetLineControl, UlTypes
  <1>3. ASSUME NEW t \in UlThread, UlReadsLcr(t) PROVE UlTypes'
    <2>1. DOMAIN ulDo' = UlThread /\ ulArg' = ulArg
      BY <1>3, <1>m DEF UlReadsLcr, UlAccess
    <2>2. ulRaced' \in BOOLEAN
      BY <1>3 DEF UlReadsLcr, UlRace
    <2>3. ulRead' \in [UlThread -> UlConfig \cup {"junk"}]
      BY <1>3 DEF UlReadsLcr, UlTypes
    <2> QED
      BY <1>3, <2>1, <2>2, <2>3 DEF UlReadsLcr, UlTypes
  <1>4. ASSUME NEW t \in UlThread, UlWritesLcr(t) PROVE UlTypes'
    <2>1. DOMAIN ulDo' = UlThread /\ ulArg' = ulArg
      BY <1>4, <1>m DEF UlWritesLcr, UlAccess
    <2>2. ulRaced' \in BOOLEAN
      BY <1>4 DEF UlWritesLcr, UlRace
    <2>3. ulLcr' \in UlConfig \cup {"junk"} /\ ulDlab' \in BOOLEAN
      BY <1>4 DEF UlWritesLcr, UlTypes
    <2> QED
      BY <1>4, <2>1, <2>2, <2>3 DEF UlWritesLcr, UlTypes
  <1>5. ASSUME NEW t \in UlThread, UlWritesDivisor(t) \/ UlWritesIer(t) PROVE UlTypes'
    <2>1. DOMAIN ulDo' = UlThread /\ ulArg' = ulArg
      BY <1>5, <1>m DEF UlWritesDivisor, UlWritesIer, UlAccess
    <2>2. ulRaced' \in BOOLEAN
      BY <1>5 DEF UlWritesDivisor, UlWritesIer, UlRace
    <2> QED
      BY <1>5, <2>1, <2>2 DEF UlWritesDivisor, UlWritesIer, UlTypes
  <1>6. ASSUME NEW t \in UlThread, UlStarted(t) PROVE UlTypes'
    BY <1>6, <1>m DEF UlStarted, UlTypes
  <1>7. ASSUME NEW t \in UlThread, UlStartDevice(t) PROVE UlTypes'
    BY <1>7 DEF UlStartDevice, UlTypes
  <1>8. ASSUME NEW t \in UlThread, NEW op, NEW arg \in UlConfig, UlRequest(t, op, arg) PROVE UlTypes'
    BY <1>8 DEF UlRequest, UlTypes
  <1>9. CASE UlDpcSends
    BY <1>9 DEF UlDpcSends, UlTypes
  <1>10. CASE UlAddDevice \/ UlStopDevice \/ UlRemoveDevice \/ UNCHANGED ulVars
    BY <1>10 DEF UlAddDevice, UlStopDevice, UlRemoveDevice, ulVars, UlTypes
  <1> QED
    BY <1>1, <1>2, <1>3, <1>4, <1>5, <1>6, <1>7, <1>8, <1>9, <1>10 DEF UlNext, UlThreadStep

(* Every step keeps one thread at most in a start.                         *)
LEMMA UlPhasesStep ==
    ASSUME UlTypes, UlPhases, [UlNext]_ulVars
    PROVE  UlPhases'
  <1> USE DEF ulPnp, ulRegisters, ulRequest
  <1>0. UlIsCall(<<>>) /\ UlNow(<<>>) = "rest"
    BY DEF UlIsCall, UlChained, UlNow
  <1>c. ulDevice # "starting" => \A u \in UlThread : UlIsCall(ulDo[u]) /\ ~UlIsStart(ulDo[u])
    BY UlCallOrStart DEF UlPhases
  <1>1. ASSUME NEW t \in UlThread, UlStores(t) \/ UlSetLineControl(t) \/ UlReadsLcr(t) \/ UlWritesLcr(t)
                                   \/ UlWritesDivisor(t) \/ UlWritesIer(t)
        PROVE  UlPhases'
    <2>1. \E what : UlStep(t, what) /\ what # "started" /\ ulDevice' = ulDevice
      BY <1>1 DEF UlStores, UlSetLineControl, UlReadsLcr, UlWritesLcr, UlWritesDivisor,
                  UlWritesIer,
                  UlAccess
    <2> QED
      BY <2>1, UlPhasesMove
  <1>2. ASSUME NEW t \in UlThread, UlStarted(t) PROVE UlPhases'
    <2>1. /\ ulDo[t] # <<>> /\ Head(ulDo[t]) = "started" /\ ulDo'[t] = Tail(ulDo[t])
          /\ \A u \in UlThread \ {t} : ulDo'[u] = ulDo[u]
          /\ ulArg' = ulArg
      BY <1>2, UlMoves DEF UlStarted
    <2>2. UlIsStart(ulDo[t])
      <3>1. ~UlIsCall(ulDo[t])
        BY <2>1, UlCallGoesOn DEF UlCallDo
      <3> QED
        BY <3>1 DEF UlPhases
    <2>3. \A u \in UlThread \ {t} : UlIsCall(ulDo[u])
      BY <2>2 DEF UlPhases
    <2>4. ulDo'[t] = <<>>
      BY <2>1, <2>2, UlStartGoesOn
    <2>5. \A u \in UlThread : UlIsCall(ulDo'[u]) /\ ~UlIsStart(ulDo'[u])
      BY <1>0, <2>1, <2>3, <2>4, UlCallOrStart
    <2>6. UlStands(t)' = "rest" /\ \A u \in UlThread \ {t} : UlStands(u)' = UlStands(u)
      BY <1>0, <2>1, <2>4 DEF UlStands
    <2> QED
      BY <2>1, <2>5, <2>6 DEF UlPhases
  <1>3. ASSUME NEW t \in UlThread, UlStartDevice(t) PROVE UlPhases'
    <2>1. \A u \in UlThread : UlIsCall(ulDo[u]) /\ ~UlIsStart(ulDo[u])
      BY <1>3, <1>c DEF UlStartDevice
    <2>2. CASE UNCHANGED <<ulDo, ulArg>>
      BY <2>1, <2>2 DEF UlPhases, UlStands
    <2>3. CASE /\ ulDevice' = "starting" /\ ulDo' = [ulDo EXCEPT ![t] = UlStartHardware]
               /\ ulArg' = [ulArg EXCEPT ![t] = "junk"]
      <3>1. /\ ulDo'[t] = UlStartHardware /\ ulArg'[t] = "junk"
            /\ \A u \in UlThread \ {t} : ulDo'[u] = ulDo[u] /\ ulArg'[u] = ulArg[u]
        BY <2>3 DEF UlTypes
      <3>2. UlStands(t)' = "default" /\ \A u \in UlThread \ {t} : UlStands(u)' = UlStands(u)
        BY <3>1, UlPrograms, UlStartGoesOn DEF UlStands, UlNow
      <3> QED
        BY <2>1, <2>3, <3>1, <3>2, UlPrograms DEF UlPhases
    <2> QED
      BY <1>3, <2>2, <2>3 DEF UlStartDevice
  <1>4. ASSUME NEW t \in UlThread, NEW arg \in UlConfig,
               NEW op \in {"set_config", "get_config", "open", "close", "d0", "dx", "write"},
               UlRequest(t, op, arg)
        PROVE  UlPhases'
    <2>1. /\ UlIsCall(UlProgram(op)) /\ UlProgram(op) # <<>>
          /\ Head(UlProgram(op)) = "store" <=> op = "set_config"
          /\ ~UlAtMid(Head(UlProgram(op)))
      BY UlPrograms
    <2>2. /\ ulDevice' = ulDevice
          /\ ulDo'[t] = UlProgram(op) /\ \A u \in UlThread \ {t} : ulDo'[u] = ulDo[u]
          /\ \A u \in UlThread \ {t} : ulArg'[u] = ulArg[u]
      BY <1>4 DEF UlRequest, UlTypes
    <2>3. ulArg'[t] = IF op = "set_config" THEN arg ELSE "junk"
      BY <1>4 DEF UlRequest, UlTypes
    <2>4. UlStands(t)' = Head(UlProgram(op)) /\ \A u \in UlThread \ {t} : UlStands(u)' = UlStands(u)
      BY <2>1, <2>2 DEF UlStands, UlNow
    <2>5. /\ UlStands(t)' \in {"default", "disable", "line"} => ulArg'[t] = "junk"
          /\ UlStands(t)' \in {"store", "lineOfArg"} => ulArg'[t] \in UlConfig
      BY <2>1, <2>3, <2>4 DEF UlAtMid
    <2>6. UlIsCall(ulDo'[t]) /\ ~UlIsStart(ulDo'[t])
      BY <2>1, <2>2, UlCallOrStart
    <2> QED
      BY <2>2, <2>4, <2>5, <2>6 DEF UlPhases
  <1>5. CASE UlDpcSends \/ UNCHANGED ulVars
    BY <1>5 DEF UlDpcSends, ulVars, UlPhases, UlStands
  <1>6. CASE UlAddDevice \/ UlStopDevice \/ UlRemoveDevice
    <2>1. ulDevice # "starting" /\ UNCHANGED <<ulDo, ulArg>>
      BY <1>6 DEF UlAddDevice, UlStopDevice, UlRemoveDevice
    <2> QED
      BY <1>c, <2>1 DEF UlPhases, UlStands
  <1> QED
    BY <1>1, <1>2, <1>3, <1>4, <1>5, <1>6 DEF UlNext, UlThreadStep

-----------------------------------------------------------------------------
(* The latch is open only while a thread sets the rate.                    *)
LEMMA UlLatchShut ==
    ASSUME UlOrder, NEW t \in UlThread, UlStands(t) \notin {"divisor", "unlatch"},
           \A u \in UlThread \ {t} : ~UlAtMid(UlStands(u))
    PROVE  ~ulDlab
  BY DEF UlOrder, UlAtMid

(* Config changes: the first access of SET_CONFIG, and of a start.         *)
LEMMA UlStoresOrder ==
    ASSUME UlTypes, UlPhases, UlOrder, NEW t \in UlThread, UlStores(t), ~ulRaced'
    PROVE  UlOrder'
  <1>1. ulDevice' = ulDevice /\ UlRace(t) /\ UNCHANGED <<ulLcr, ulDlab, ulDivisor, ulRead>>
    BY DEF UlStores, ulPnp, ulRegisters
  <1>2. CASE UlStep(t, "store") /\ ulConfig' = ulArg[t]
    <2>1. /\ UlStands(t) = "store" /\ ulArg' = ulArg /\ \A u \in UlThread \ {t} : ulDo'[u] = ulDo[u]
      BY <1>2, UlMoves
    <2>2. UlSets(t) /\ UlStands(t)' = "lineOfArg"
      BY <1>1, <1>2, UlPhasesMove DEF UlFollows
    <2>3. \A u \in UlThread \ {t} : ~UlAtMid(UlStands(u))
      BY <1>1, <2>2, UlNoCompany
    <2>4. ~ulDlab'
      BY <1>1, <2>1, <2>3, UlLatchShut
    <2>5. UlHalf(t)'
      BY <1>2, <2>1, <2>2 DEF UlHalf
    <2>6. ~UlSettled'
      BY <2>2 DEF UlSettled, UlAtMid
    <2> QED
      BY <2>1, <2>3, <2>4, <2>5, <2>6, UlOneSets
  <1>3. CASE UlStep(t, "default")
    <2>1. /\ UlStands(t) = "default" /\ ulArg' = ulArg /\ \A u \in UlThread \ {t} : ulDo'[u] = ulDo[u]
      BY <1>3, UlMoves
    <2>2. UlSets(t) /\ UlIsStart(ulDo'[t]) /\ UlStands(t)' = "line"
      BY <1>1, <1>3, UlPhasesMove DEF UlFollows, UlCallDo
    <2>3. \A u \in UlThread \ {t} : ~UlAtMid(UlStands(u))
      BY <1>1, <2>2, UlNoCompany
    <2>4. ~ulDlab'
      BY <1>1, <2>1, <2>3, UlLatchShut
    <2>5. UlHalf(t)'
      BY <2>2 DEF UlHalf
    <2>6. ~UlSettled'
      BY <1>1, <2>2 DEF UlSettled
    <2> QED
      BY <2>1, <2>3, <2>4, <2>5, <2>6, UlOneSets
  <1>4. CASE UlStep(t, "answer") /\ ulConfig' = ulConfig
    <2>1. /\ UlStands(t) = "answer" /\ ulArg' = ulArg /\ \A u \in UlThread \ {t} : ulDo'[u] = ulDo[u]
      BY <1>4, UlMoves
    <2>2. ~UlIsStart(ulDo[t]) /\ UlStands(t)' = "rest"
      BY <1>1, <1>4, UlPhasesMove DEF UlFollows, UlStartDo
    <2>3. UlSettled' => UlSettled
      BY <1>1, <2>1, <2>2 DEF UlSettled, UlStands, UlAtMid
    <2> QED
      BY <1>1, <1>4, <2>1, <2>2, <2>3, UlNoneSets DEF UlAtMid
  <1> QED
    BY <1>2, <1>3, <1>4 DEF UlStores

(* The line format is set.                                                 *)
LEMMA UlLineOrder ==
    ASSUME UlTypes, UlPhases, UlOrder, NEW t \in UlThread, UlSetLineControl(t), ~ulRaced'
    PROVE  UlOrder'
  <1>1. /\ ulDevice' = ulDevice /\ UlRace(t) /\ UNCHANGED <<ulConfig, ulDivisor, ulRead>>
        /\ ulDlab' = FALSE
    BY DEF UlSetLineControl, ulPnp
  <1>2. CASE UlAccess(t, "line") /\ ulLcr' = ulConfig
    <2>0. UlStep(t, "line")
      BY <1>2 DEF UlAccess
    <2>1. /\ UlStands(t) = "line" /\ ulArg' = ulArg /\ \A u \in UlThread \ {t} : ulDo'[u] = ulDo[u]
      BY <2>0, UlMoves
    <2>2. /\ UlSets(t) /\ UlStands(t)' \in {"rest", "read"}
          /\ UlIsStart(ulDo[t]) => UlStands(t)' = "read"
      BY <1>1, <2>0, UlPhasesMove DEF UlFollows
    <2>3. \A u \in UlThread \ {t} : ~UlAtMid(UlStands(u))
      BY <1>1, <2>2, UlNoCompany
    <2>4. ulArg[t] = "junk"
      BY <2>1 DEF UlPhases
    <2>5. UlHalf(t)'
      BY <1>1, <1>2, <2>1, <2>2, <2>4 DEF UlHalf, UlRate
    <2>6. ASSUME UlSettled' PROVE ulLcr' = ulConfig' /\ ulDivisor' = ulConfig'
      <3>1. UlStands(t)' # "read" /\ ~UlIsStart(ulDo[t])
        BY <2>2, <2>6 DEF UlSettled, UlAtMid
      <3>2. UlSettled
        BY <1>1, <2>1, <2>3, <2>6, <3>1 DEF UlSettled, UlStands, UlAtMid
      <3> QED
        BY <1>1, <1>2, <3>2 DEF UlOrder
    <2> QED
      BY <1>1, <2>1, <2>3, <2>5, <2>6, UlOneSets
  <1>3. CASE UlAccess(t, "lineOfArg") /\ ulLcr' = ulArg[t]
    <2>0. UlStep(t, "lineOfArg")
      BY <1>3 DEF UlAccess
    <2>1. /\ UlStands(t) = "lineOfArg" /\ ulArg' = ulArg
          /\ \A u \in UlThread \ {t} : ulDo'[u] = ulDo[u]
      BY <2>0, UlMoves
    <2>2. UlSets(t) /\ UlStands(t)' = "read"
      BY <1>1, <2>0, UlPhasesMove DEF UlFollows, UlAtMid
    <2>3. \A u \in UlThread \ {t} : ~UlAtMid(UlStands(u))
      BY <1>1, <2>2, UlNoCompany
    <2>4. ulArg[t] = ulConfig /\ ulArg[t] # "junk"
      BY <2>1, UlAssumption DEF UlPhases, UlOrder, UlHalf
    <2>5. UlHalf(t)'
      BY <1>1, <1>3, <2>1, <2>2, <2>4 DEF UlHalf, UlRate
    <2>6. ~UlSettled'
      BY <2>2 DEF UlSettled, UlAtMid
    <2> QED
      BY <1>1, <2>1, <2>3, <2>5, <2>6, UlOneSets
  <1> QED
    BY <1>2, <1>3 DEF UlSetLineControl

(* UartSetBaud: read the line control, open the latch, write, shut it.     *)
LEMMA UlBaudOrder ==
    ASSUME UlTypes, UlPhases, UlOrder, NEW t \in UlThread, ~ulRaced',
           UlReadsLcr(t) \/ UlWritesLcr(t) \/ UlWritesDivisor(t)
    PROVE  UlOrder'
  <1>1. ulDevice' = ulDevice /\ UlRace(t) /\ ulConfig' = ulConfig
    BY DEF UlReadsLcr, UlWritesLcr, UlWritesDivisor, ulPnp
  <1>2. ASSUME NEW what \in {"read", "latch", "divisor", "unlatch"}, UlStep(t, what)
        PROVE  /\ UlStands(t) = what /\ ulArg' = ulArg
               /\ \A u \in UlThread \ {t} : ulDo'[u] = ulDo[u]
               /\ \A u \in UlThread \ {t} : ~UlAtMid(UlStands(u))
               /\ what = "read" => UlStands(t)' = "latch"
               /\ what = "latch" => UlStands(t)' = "divisor"
               /\ what = "divisor" => UlStands(t)' = "unlatch"
               /\ what = "unlatch" => UlStands(t)' \in {"rest", "enable"}
               /\ UlHalf(t) /\ UlRate(t)' = UlRate(t)
    <2>1. /\ UlStands(t) = what /\ ulArg' = ulArg /\ \A u \in UlThread \ {t} : ulDo'[u] = ulDo[u]
      BY <1>2, UlMoves
    <2>2. /\ UlSets(t)
          /\ UlStands(t)' = "rest" \/ UlFollows(what, UlStands(t)')
          /\ what \in {"read", "latch", "divisor"} => UlStands(t)' # "rest"
      BY <1>1, <1>2, UlPhasesMove DEF UlAtMid
    <2>3. \A u \in UlThread \ {t} : ~UlAtMid(UlStands(u))
      BY <1>1, <2>2, UlNoCompany
    <2>4. UlRate(t)' = UlRate(t) /\ UlHalf(t)
      BY <1>1, <2>1 DEF UlRate, UlOrder
    <2> QED
      BY <2>1, <2>2, <2>3, <2>4 DEF UlFollows
  <1>3. CASE UlReadsLcr(t)
    <2>1. /\ UlStep(t, "read") /\ ulRead'[t] = ulLcr /\ UNCHANGED <<ulLcr, ulDlab, ulDivisor>>
      BY <1>3 DEF UlReadsLcr, UlAccess, UlTypes, ulRegisters
    <2>2. ~ulDlab'
      BY <1>2, <2>1, UlLatchShut
    <2>3. UlHalf(t)'
      BY <1>1, <1>2, <2>1 DEF UlHalf
    <2>4. ~UlSettled'
      BY <1>2, <2>1 DEF UlSettled, UlAtMid
    <2> QED
      BY <1>2, <2>1, <2>2, <2>3, <2>4, UlOneSets
  <1>4. CASE UlWritesLcr(t) /\ UlStep(t, "latch")
    <2>1. ulDlab' /\ ulLcr' = ulRead[t] /\ UNCHANGED <<ulDivisor, ulRead>>
      BY <1>4, <1>2 DEF UlWritesLcr, UlAccess, UlStep
    <2>2. UlHalf(t)'
      BY <1>1, <1>2, <1>4, <2>1 DEF UlHalf
    <2>3. ~UlSettled' /\ UlStands(t)' = "divisor"
      BY <1>2, <1>4 DEF UlSettled, UlAtMid
    <2> QED
      BY <1>2, <1>4, <2>2, <2>3, UlOneSets
  <1>5. CASE UlWritesLcr(t) /\ UlStep(t, "unlatch")
    <2>1. ~ulDlab' /\ ulLcr' = ulRead[t] /\ UNCHANGED <<ulDivisor, ulRead>>
      BY <1>5, <1>2 DEF UlWritesLcr, UlAccess, UlStep
    <2>2. ulLcr' = ulConfig' /\ ulDivisor' = ulConfig'
      BY <1>1, <1>2, <1>5, <2>1 DEF UlHalf
    <2>3. UlHalf(t)'
      BY <1>2, <1>5 DEF UlHalf
    <2> QED
      BY <1>2, <1>5, <2>1, <2>2, <2>3, UlOneSets
  <1>6. CASE UlWritesDivisor(t)
    <2>1. UlStep(t, "divisor") /\ UNCHANGED <<ulLcr, ulDlab, ulRead>>
      BY <1>6 DEF UlWritesDivisor, UlAccess
    <2>2. ulDlab /\ ulDivisor' = UlRate(t)
      BY <1>2, <1>6, <2>1 DEF UlWritesDivisor, UlHalf
    <2>3. UlHalf(t)'
      BY <1>1, <1>2, <2>1, <2>2 DEF UlHalf
    <2>4. ~UlSettled' /\ UlStands(t)' = "unlatch"
      BY <1>2, <2>1 DEF UlSettled, UlAtMid
    <2> QED
      BY <1>2, <2>1, <2>3, <2>4, UlOneSets
  <1> QED
    BY <1>3, <1>4, <1>5, <1>6 DEF UlWritesLcr, UlAccess

(* The interrupt enables are written while the latch is shut.              *)
LEMMA UlIerOrder ==
    ASSUME UlTypes, UlPhases, UlOrder, NEW t \in UlThread, UlWritesIer(t), ~ulRaced'
    PROVE  UlOrder'
  <1>1. ulDevice' = ulDevice /\ UlRace(t) /\ UNCHANGED <<ulConfig, ulLcr, ulDlab, ulRead>>
    BY DEF UlWritesIer, ulPnp
  <1>2. PICK what \in {"enable", "disable"} : UlStep(t, what)
    BY DEF UlWritesIer, UlAccess
  <1>3. /\ UlStands(t) = what /\ ulArg' = ulArg /\ \A u \in UlThread \ {t} : ulDo'[u] = ulDo[u]
    BY <1>2, UlMoves
  <1>4. /\ UlStands(t)' \in {"rest", "started", "line"}
        /\ UlIsStart(ulDo[t]) => UlStands(t) = "enable"
    BY <1>1, <1>2, <1>3, UlPhasesMove DEF UlFollows, UlStartDo
  <1>5. ~ulDlab
    <2>1. ulDlab => \A u \in UlThread \ {t} : ~UlAtMid(UlStands(u))
      BY <1>1, UlNoCompany
    <2> QED
      BY <1>3, <2>1, UlLatchShut
  <1>6. ulDivisor' = ulDivisor
    BY <1>5 DEF UlWritesIer
  <1>7. UlSettled' => UlSettled
    BY <1>1, <1>3, <1>4 DEF UlSettled, UlStands, UlAtMid
  <1> QED
    BY <1>1, <1>3, <1>4, <1>6, <1>7, UlNoneSets DEF UlAtMid

(* A start begins, and is done.                                            *)
LEMMA UlStartOrder ==
    ASSUME UlTypes, UlPhases, UlOrder, NEW t \in UlThread, UlStartDevice(t) \/ UlStarted(t),
           ~ulRaced'
    PROVE  UlOrder'
  <1>1. CASE UlStartDevice(t)
    <2>1. UlStands(t) = "rest" /\ \A u \in UlThread : ~UlAtMid(UlStands(u))
      BY <1>1, UlMidSets DEF UlStartDevice, UlStands, UlNow
    <2>2. \/ ulDo' = ulDo /\ ulDevice' \in {"failed", "broken"}
          \/ ulDo' = [ulDo EXCEPT ![t] = UlStartHardware] /\ ulDevice' = "starting"
      BY <1>1 DEF UlStartDevice
    <2>3. \A u \in UlThread \ {t} : ulDo'[u] = ulDo[u] /\ ~UlAtMid(UlStands(u))
      BY <2>1, <2>2 DEF UlTypes
    <2>4. \/ UlStands(t)' = "rest" /\ ulDevice' \in {"failed", "broken"}
          \/ UlStands(t)' = "default" /\ UlIsStart(ulDo'[t])
      <3>1. CASE ulDo' = ulDo /\ ulDevice' \in {"failed", "broken"}
        BY <2>1, <3>1 DEF UlStands
      <3>2. CASE ulDo' = [ulDo EXCEPT ![t] = UlStartHardware]
        <4>1. ulDo'[t] = UlStartHardware
          BY <3>2 DEF UlTypes
        <4> QED
          BY <4>1, UlPrograms, UlStartGoesOn DEF UlStands, UlNow
      <3> QED
        BY <2>2, <3>1, <3>2
    <2>5. UlHalf(t)' /\ ~UlSettled' /\ ~ulDlab'
      BY <1>1, <2>4 DEF UlHalf, UlSettled, UlStartDevice
    <2> QED
      BY <2>3, <2>5, UlOneSets
  <1>2. CASE UlStarted(t)
    <2>1. /\ ulDo[t] # <<>> /\ Head(ulDo[t]) = "started" /\ ulDo'[t] = Tail(ulDo[t])
          /\ UlStands(t) = "started" /\ ulArg' = ulArg
          /\ \A u \in UlThread \ {t} : ulDo'[u] = ulDo[u]
      BY <1>2, UlMoves DEF UlStarted
    <2>2. /\ ulDevice = "starting" /\ UlIsStart(ulDo[t])
          /\ \A u \in UlThread \ {t} : ~UlIsStart(ulDo[u])
      <3>1. ~UlIsCall(ulDo[t])
        BY <2>1, UlCallGoesOn DEF UlCallDo
      <3> QED
        BY <3>1, UlCallOrStart DEF UlPhases
    <2>3. UlStands(t)' = "rest"
      BY <2>1, <2>2, UlStartGoesOn DEF UlStands, UlNow
    <2>4. UlSettled' => UlSettled
      BY <2>1, <2>2 DEF UlSettled, UlStands, UlAtMid
    <2>5. UNCHANGED <<ulConfig, ulLcr, ulDlab, ulDivisor, ulRead>>
      BY <1>2 DEF UlStarted, ulRegisters
    <2> QED
      BY <2>1, <2>3, <2>4, <2>5, UlNoneSets DEF UlAtMid
  <1> QED
    BY <1>1, <1>2

(* Every step without a race keeps the line and Config in step.            *)
LEMMA UlOrderStep ==
    ASSUME UlTypes, UlPhases, UlOrder, [UlNext]_ulVars, ~ulRaced'
    PROVE  UlOrder'
  <1>1. ASSUME NEW t \in UlThread, NEW arg \in UlConfig,
               NEW op \in {"set_config", "get_config", "open", "close", "d0", "dx", "write"},
               UlRequest(t, op, arg)
        PROVE  UlOrder'
    <2>1. /\ ulDevice' = ulDevice /\ ulDo[t] = <<>>
          /\ ulDo'[t] = UlProgram(op) /\ \A u \in UlThread \ {t} : ulDo'[u] = ulDo[u]
          /\ \A u \in UlThread \ {t} : ulArg'[u] = ulArg[u]
          /\ UNCHANGED <<ulConfig, ulLcr, ulDlab, ulDivisor, ulRead>>
      BY <1>1 DEF UlRequest, UlTypes, ulPnp, ulRegisters
    <2>2. /\ UlStands(t) = "rest" /\ UlStands(t)' = Head(UlProgram(op))
          /\ ~UlAtMid(Head(UlProgram(op))) /\ ~UlIsStart(ulDo[t])
      BY <2>1, UlPrograms DEF UlStands, UlNow, UlIsStart
    <2>3. UlSettled' => UlSettled
      BY <2>1, <2>2 DEF UlSettled, UlStands, UlAtMid
    <2> QED
      BY <2>1, <2>2, <2>3, UlNoneSets DEF UlAtMid
  <1>2. CASE UlDpcSends
    <2>1. PICK u \in UlThread : UlAtMid(UlStands(u))
      BY <1>2 DEF UlDpcSends, UlOrder, UlAtMid
    <2> QED
      BY <1>2, <2>1, UlMidSets DEF UlDpcSends
  <1>3. CASE UlAddDevice \/ UlStopDevice \/ UlRemoveDevice
    <2>1. /\ ulDevice' \in {"added", "stopped", "gone", "removed"}
          /\ UNCHANGED <<ulConfig, ulLcr, ulDlab, ulDivisor, ulRead, ulDo, ulArg>>
      BY <1>3 DEF UlAddDevice, UlStopDevice, UlRemoveDevice, ulRegisters, ulRequest
    <2>2. ~UlSettled'
      BY <2>1 DEF UlSettled
    <2> QED
      BY <2>1, <2>2 DEF UlOrder, UlHalf, UlStands, UlRate
  <1>4. CASE UNCHANGED ulVars
    BY <1>4 DEF ulVars, UlOrder, UlHalf, UlStands, UlRate, UlSettled
  <1> QED
    BY <1>1, <1>2, <1>3, <1>4, UlStoresOrder, UlLineOrder, UlBaudOrder, UlIerOrder, UlStartOrder
       DEF UlNext, UlThreadStep

(* A started device at rest has the line format and divisor of Config and  *)
(* its latch shut, however its requests, power changes and restarts were   *)
(* made, as long as no two settings, and no use of the data register under *)
(* the open latch, overlapped: that is all that keeps them right.          *)
THEOREM UlAlwaysAsConfigured == UlSpec => []UlAsConfigured
  <1>1. UlInit => UlInv
    <2> SUFFICES ASSUME UlInit PROVE UlInv
      OBVIOUS
    <2>1. \A t \in UlThread : ulDo[t] = <<>> /\ UlStands(t) = "rest"
      BY DEF UlInit, UlStands, UlNow
    <2>2. UlTypes
      BY DEF UlInit, UlTypes
    <2>3. UlPhases
      <3>1. UlIsCall(<<>>) /\ ~UlIsStart(<<>>)
        BY DEF UlIsCall, UlIsStart, UlChained
      <3> QED
        BY <2>1, <3>1 DEF UlPhases
    <2>4. UlOrder
      BY <2>1 DEF UlInit, UlOrder, UlHalf, UlSettled, UlAtMid
    <2> QED
      BY <2>2, <2>3, <2>4 DEF UlInv
  <1>2. UlInv /\ [UlNext]_ulVars => UlInv'
    <2> SUFFICES ASSUME UlInv, [UlNext]_ulVars PROVE UlInv'
      OBVIOUS
    <2>1. UlTypes' /\ UlPhases'
      BY UlTypesStep, UlPhasesStep DEF UlInv
    <2>2. ulRaced => ulRaced'
      BY DEF UlNext, UlThreadStep, UlStores, UlSetLineControl, UlReadsLcr, UlWritesLcr,
             UlWritesDivisor, UlWritesIer, UlRace, UlStarted, UlStartDevice, UlRequest,
             UlDpcSends, UlAddDevice, UlStopDevice, UlRemoveDevice, ulVars
    <2> QED
      BY <2>1, <2>2, UlOrderStep DEF UlInv
  <1>3. UlInv => UlAsConfigured
    <2> SUFFICES ASSUME UlInv, ulDevice = "started", ~ulRaced, \A t \in UlThread : ulDo[t] = <<>>
                 PROVE  ulLcr = ulConfig /\ ulDivisor = ulConfig /\ ~ulDlab
      BY DEF UlAsConfigured
    <2>1. UlOrder /\ \A t \in UlThread : UlStands(t) = "rest" /\ ~UlIsStart(ulDo[t])
      BY DEF UlInv, UlStands, UlNow, UlIsStart
    <2>2. UlSettled
      BY <2>1 DEF UlSettled, UlAtMid
    <2> QED
      BY <2>1, <2>2 DEF UlOrder
  <1> QED
    BY <1>1, <1>2, <1>3, PTL DEF UlSpec
===============================================================================
