----------------------------- MODULE HidGestures -----------------------------
(***************************************************************************)
(* The gesture analysis of i2chid_hw_shim.c, which has no caller yet.  The  *)
(* scales are read as the loops run, while feature reports write them and   *)
(* the registry is loaded.                                                  *)
(***************************************************************************)
EXTENDS Integers

CONSTANTS
    GsContacts,   \* MT_MAX_CONTACTS
    GsScales      \* values of ScrollScale, ZoomScale and RotateScale

(* Report 0x03 and the registry may bring in a scale of 0.                  *)
ASSUME GsAssumption ==
    GsContacts \in Nat \ {0, 1} /\ GsScales \subseteq Nat /\ GsScales # {}

VARIABLES
    gsAccum,      \* accumScroll, accumZoom, accumRotate
    gsScale,      \* their scales
    gsAt,         \* the axis whose loops run, or "idle"
    gsDelta,      \* what this sample adds to the axes still to come
    gsUsed,       \* history: the scale each axis was last settled with
    gsBefore,     \* history: that of the scroll axis before this sample
    gsWheels      \* history: wheel reports of the last sample

gsVars == <<gsAccum, gsScale, gsAt, gsDelta, gsUsed, gsBefore, gsWheels>>

GsAxis == {"scroll", "zoom", "rotate"}
GsAfter == [scroll |-> "zoom", zoom |-> "rotate", rotate |-> "idle"]
GsZero == [a \in GsAxis |-> 0]

GsInit ==
    /\ gsAccum = GsZero /\ gsScale \in [GsAxis -> GsScales]
    /\ gsAt = "idle" /\ gsDelta = GsZero
    /\ gsUsed = [a \in GsAxis |-> 1] /\ gsBefore = 1 /\ gsWheels = 0

-----------------------------------------------------------------------------
(* I2cHw_AnalyzeGestures: per sample the fingers that moved up less those   *)
(* that moved down, one step of zoom and one of rotation, each added when   *)
(* its axis comes.  With fewer than two fingers the sums stay.              *)
GsGesture(scroll, zoom, rotate) ==
    /\ gsAt = "idle" /\ gsAt' = "scroll"
    /\ gsAccum' = [gsAccum EXCEPT !["scroll"] = @ + scroll]
    /\ gsDelta' = [scroll |-> 0, zoom |-> zoom, rotate |-> rotate]
    /\ gsBefore' = gsUsed["scroll"] /\ gsWheels' = 0
    /\ UNCHANGED <<gsScale, gsUsed>>

GsNoTwo ==
    /\ gsAt = "idle" /\ gsWheels' = 0 /\ gsBefore' = gsUsed["scroll"]
    /\ UNCHANGED <<gsAccum, gsScale, gsAt, gsDelta, gsUsed>>

(* The while loops of one axis take whole scales off the sum, and on the    *)
(* scroll axis emit a wheel report for each.  With a scale of 0 they take   *)
(* nothing off and go on for as long as the scale stays 0: no step.         *)
GsSettleUp(v, scale) == IF v >= 0 THEN v % scale ELSE v
GsSettle(v, scale) == IF v >= 0 THEN v % scale ELSE -((-v) % scale)
GsSteps(v, scale) == (IF v >= 0 THEN v ELSE -v) \div scale

GsLoops(a) ==
    /\ gsAt = a /\ gsScale[a] # 0 /\ gsAt' = GsAfter[a]
    /\ gsAccum' = [x \in GsAxis |->
          IF x = a THEN GsSettle(gsAccum[a], gsScale[a])
          ELSE IF x = GsAfter[a] THEN gsAccum[x] + gsDelta[x] ELSE gsAccum[x]]
    /\ gsUsed' = [gsUsed EXCEPT ![a] = gsScale[a]]
    /\ gsWheels' = IF a = "scroll" THEN GsSteps(gsAccum[a], gsScale[a]) ELSE gsWheels
    /\ UNCHANGED <<gsScale, gsDelta, gsBefore>>

(* Feature reports and the registry write the scales one by one, and output *)
(* report 0x10 zeroes the sums, whatever the analysis is at.                *)
GsConfigure(a) ==
    /\ \E n \in GsScales : gsScale' = [gsScale EXCEPT ![a] = n]
    /\ UNCHANGED <<gsAccum, gsAt, gsDelta, gsUsed, gsBefore, gsWheels>>

GsReset ==
    /\ gsAccum' = GsZero
    /\ UNCHANGED <<gsScale, gsAt, gsDelta, gsUsed, gsBefore, gsWheels>>

GsNext ==
    \/ \E n \in 2..GsContacts, zoom, rotate \in -1..1 :
          \E scroll \in -n..n : GsGesture(scroll, zoom, rotate)
    \/ \E a \in GsAxis : GsLoops(a) \/ GsConfigure(a)
    \/ GsNoTwo \/ GsReset

GsSpec == GsInit /\ [][GsNext]_gsVars

-----------------------------------------------------------------------------
(* The loops leave an axis only under a positive scale and with a sum below *)
(* that scale in either direction, and no configuration written meanwhile   *)
(* or later changes what they left.                                         *)
GsBelowScale ==
    \A a \in GsAxis : gsAt # a => gsAccum[a] < gsUsed[a] /\ -gsAccum[a] < gsUsed[a]

(* A burst of wheel reports is no more than this sample's contacts and what *)
(* the scale of the sample before had kept back: a scale that did not       *)
(* shrink gives at most one report per contact.                             *)
GsBurstBounded == gsWheels * gsUsed["scroll"] < gsBefore + GsContacts

(* The analysis leaves sums below the scales it ran with, and releases no   *)
(* more wheel reports than the fingers and an earlier scale account for.    *)
GsGesturesSettle == GsBelowScale /\ GsBurstBounded
=============================================================================
