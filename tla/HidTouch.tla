------------------------------ MODULE HidTouch ------------------------------
(***************************************************************************)
(* The PT emulation of i2chid_PT.c: taps, wheel and pinch computed from    *)
(* finger samples, and the reads completed with them.  One coordinate      *)
(* stands for both, and CHAR is narrowed: it clamps to                     *)
(* -HtCharMax..HtCharMax and wraps at 2 * (HtCharMax + 1).                 *)
(***************************************************************************)
EXTENDS Integers, Sequences, FiniteSets

CONSTANTS
    HtContacts,   \* contacts of a sample
    HtPlaces,     \* coordinates
    HtCharMax,    \* 127 in the code
    HtReads       \* bound: reads that wait at once

ASSUME HtAssumption ==
    /\ HtContacts \in 2..5 /\ HtPlaces \subseteq Nat /\ HtCharMax \in Nat \ {0}
    /\ HtReads \in Nat

VARIABLES
    htDown,       \* LastDownContacts
    htLast,       \* LastPrimaryDown and lastX, lastY
    htPinch,      \* LastPinchDistSq
    htSends,      \* reports of this sample still to be delivered
    htReads,      \* reads in ReadQueue
    htClicks,     \* history: clicks since a finger was down
    htMove        \* history: contacts down before and in the last sample, its motion

htVars == <<htDown, htLast, htPinch, htSends, htReads, htClicks, htMove>>

HtInit ==
    /\ htDown = 0 /\ htLast = [down |-> FALSE, at |-> 0] /\ htPinch = 0
    /\ htSends = <<>> /\ htReads = 0 /\ htClicks = 0
    /\ htMove = [before |-> 0, n |-> 0, motion |-> 0, wheel |-> 0, pinch |-> 0]

-----------------------------------------------------------------------------
(* A sample is a sequence of contacts; only those with the tip flag count.  *)
HtSamples == UNION {[1..n -> [tip : BOOLEAN, at : HtPlaces]] : n \in 0..HtContacts}
HtTips(s) == {i \in DOMAIN s : s[i].tip}
HtClamp(v) == IF v > HtCharMax THEN HtCharMax ELSE IF v < -HtCharMax THEN -HtCharMax ELSE v
HtChar(v) == ((v + HtCharMax + 1) % (2 * (HtCharMax + 1))) - (HtCharMax + 1)

(* C division truncates towards zero.                                       *)
HtHalf(v) == IF v < 0 THEN -((-v) \div 2) ELSE v \div 2

HtAt(s, i) == IF i \in HtTips(s) THEN s[i].at ELSE 0
HtCentre(s) ==
    (HtAt(s, 1) + HtAt(s, 2) + HtAt(s, 3) + HtAt(s, 4) + HtAt(s, 5)) \div Cardinality(HtTips(s))

(* I2CHID_PT_TapButtons: on the first sample with no finger down, a recent  *)
(* touch of one to three fingers is a button, of more a key with its release. *)
HtTapForgets(s, quick) == IF HtTips(s) # {} THEN Cardinality(HtTips(s)) ELSE htDown
HtTapDown(s, quick) == IF HtTips(s) # {} THEN Cardinality(HtTips(s)) ELSE 0

HtTap(s, quick) == IF HtTips(s) = {} /\ quick THEN htDown ELSE 0
HtTapSends(n) == IF n >= 4 THEN <<"keyDown", "keyUp">> ELSE <<>>
HtClick(n) == n \in 1..3

(* I2CHID_PT_EmulateTouchpad: lastX and lastY already hold the centroid of  *)
(* this sample when the wheel is computed from them.                        *)
HtLastKept(s) ==
    IF HtTips(s) # {} THEN [down |-> TRUE, at |-> HtCentre(s)] ELSE htLast

HtLastAfter(s) ==
    IF HtTips(s) # {} THEN [down |-> TRUE, at |-> HtCentre(s)]
    ELSE [htLast EXCEPT !.down = FALSE]

HtTwo(s) == Len(s) >= 2 /\ s[1].tip /\ s[2].tip
HtWheel(s) == HtClamp(HtHalf((s[1].at + s[2].at) \div 2 - HtLastAfter(s).at))
HtDistSq(s) == (s[1].at - s[2].at) * (s[1].at - s[2].at)
HtZoom(s) == IF htPinch # 0 THEN HtClamp(HtDistSq(s) - htPinch) ELSE 0

(* I2CHID_PT_CompleteQueuedReads: a pinch is three deliveries, and what the *)
(* emulation returns is delivered once more.  Each delivery takes every     *)
(* read that waits.                                                         *)
HtSample(s, quick) ==
    /\ htSends = <<>>
    /\ LET tap == HtTap(s, quick)
           wheel == IF HtTwo(s) THEN HtWheel(s) ELSE 0
           zoom == IF HtTwo(s) THEN HtZoom(s) ELSE 0
       IN /\ htSends' = HtTapSends(tap)
                \o (IF zoom # 0 THEN <<"keyDown", "mouse", "keyUp">> ELSE <<>>) \o <<"sample">>
          /\ htMove' = [before |-> htMove.n, n |-> Cardinality(HtTips(s)),
                        motion |-> IF HtTips(s) # {} /\ htLast.down
                                   THEN HtClamp(HtCentre(s) - htLast.at) ELSE 0,
                        wheel |-> HtChar(wheel + zoom),
                        pinch |-> zoom]
          /\ htClicks' = IF HtTips(s) # {} THEN 0 ELSE IF HtClick(tap) THEN htClicks + 1
                                                                       ELSE htClicks
    /\ htDown' = HtTapDown(s, quick)
    /\ htLast' = HtLastAfter(s)
    /\ htPinch' = IF HtTwo(s) THEN HtDistSq(s) ELSE 0
    /\ UNCHANGED htReads

HtDeliver ==
    /\ htSends # <<>>
    /\ htSends' = Tail(htSends) /\ htReads' = 0
    /\ UNCHANGED <<htDown, htLast, htPinch, htClicks, htMove>>

HtReadComes ==
    /\ htReads < HtReads /\ htReads' = htReads + 1
    /\ UNCHANGED <<htDown, htLast, htPinch, htSends, htClicks, htMove>>

-----------------------------------------------------------------------------
HtNext ==
    \/ \E s \in HtSamples, quick \in BOOLEAN : HtSample(s, quick)
    \/ HtDeliver \/ HtReadComes

HtSpec == HtInit /\ [][HtNext]_htVars

-----------------------------------------------------------------------------
(* A tap is one click: however long nothing touches the pad afterwards, and *)
(* however many fingers it began with, no second click follows.             *)
HtOneClick == htClicks <= 1

(* The cursor does not jump when a finger lands: it moves only if a finger  *)
(* was down in the sample before.                                           *)
HtNoJump == htMove.motion # 0 => htMove.before > 0

(* With two fingers on the pad a pinch turns the wheel its own way: the sum *)
(* of scroll and pinch (i2chid_PT.c:380) neither wraps in its CHAR nor is   *)
(* outweighed by the scroll.                                                *)
HtPinchKeepsSign ==
    htMove.n = 2 => /\ htMove.pinch > 0 => htMove.wheel > 0
                    /\ htMove.pinch < 0 => htMove.wheel < 0

(* Cursor and wheel follow the fingers: a finger that lands moves nothing, *)
(* and a pinch turns the wheel its own way.                                *)
HtMotionFollows == HtNoJump /\ HtPinchKeepsSign
=============================================================================
